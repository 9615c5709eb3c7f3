----------------------------- MODULE FlashSpec -----------------------------
(***************************************************************************)
(* What the flash promises its users, without ports, messages or a mutex.  *)
(*                                                                         *)
(* The memory is a function from words to contents.  A call erases one     *)
(* sector, programs some words of one page or reads some words of one      *)
(* page; it takes effect at one instant between its start and its end.     *)
(* (spi_flash_read and spi_flash_erase_range make a long call into several *)
(* of these; nothing is promised between them.)                            *)
(*                                                                         *)
(* Programming may also turn blank words that come before the programmed   *)
(* ones in their page into zeros.                                          *)
(***************************************************************************)
EXTENDS Integers, Sequences

CONSTANTS Tasks, Calls, Addrs, sectorOf, pageOf, Blank, Zero, Junk, Unknown

VARIABLES mem,    \* the contents of each word, Unknown before its first erase
          call,   \* each task's call: a member of Calls, done or not
          res     \* the words its read has returned so far

vars == <<mem, call, res>>

NoCall == [op |-> "none", addr |-> 0, n |-> 0, data |-> <<>>]
Idle   == [c |-> NoCall, done |-> FALSE]

Init ==
  /\ mem = [x \in Addrs |-> Unknown]
  /\ call = [t \in Tasks |-> Idle]
  /\ res = [t \in Tasks |-> <<>>]

Begin(t) ==
  /\ call[t] = Idle
  /\ \E c \in Calls : call' = [call EXCEPT ![t] = [c |-> c, done |-> FALSE]]
  /\ UNCHANGED <<mem, res>>

Pending(t, op) == call[t].c.op = op /\ ~call[t].done
Done(t)        == call' = [call EXCEPT ![t].done = TRUE]

Erase(t) ==
  /\ Pending(t, "e")
  /\ mem' = [x \in Addrs |->
               IF sectorOf[x] = sectorOf[call[t].c.addr] THEN Blank ELSE mem[x]]
  /\ Done(t)
  /\ UNCHANGED res

Program(t) ==
  LET c == call[t].c
      hit == c.addr..(c.addr + c.n - 1)
  IN  /\ Pending(t, "w")
      /\ \A x \in hit : mem[x] # Unknown
      /\ \E zeroed \in SUBSET {x \in Addrs : /\ pageOf[x] = pageOf[c.addr]
                                             /\ x < c.addr /\ mem[x] = Blank} :
           mem' = [x \in Addrs |-> IF x \in hit THEN c.data[x - c.addr + 1]
                                   ELSE IF x \in zeroed THEN Zero ELSE mem[x]]
      /\ Done(t)
      /\ UNCHANGED res

Read(t) ==
  LET c == call[t].c
      at(i) == mem[c.addr + i - 1]
  IN  /\ Pending(t, "r")
      /\ \E j \in [1..c.n -> Junk] :
           res' = [res EXCEPT ![t] = @ \o
                     [i \in 1..c.n |-> IF at(i) = Unknown THEN j[i] ELSE at(i)]]
      /\ Done(t)
      /\ UNCHANGED mem

\* The call returns, or goes on with its next sector or page.
End(t) ==
  /\ call[t].done
  /\ \/ call' = [call EXCEPT ![t] = Idle] /\ res' = [res EXCEPT ![t] = <<>>]
     \/ /\ \E c \in Calls : /\ c.op = call[t].c.op
                            /\ c.addr > call[t].c.addr
                            /\ call' = [call EXCEPT ![t] = [c |-> c, done |-> FALSE]]
        /\ UNCHANGED res
  /\ UNCHANGED mem

Next == \E t \in Tasks : Begin(t) \/ Erase(t) \/ Program(t) \/ Read(t) \/ End(t)

Spec == Init /\ [][Next]_vars
============================================================================
