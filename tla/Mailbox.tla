------------------------------ MODULE Mailbox ------------------------------
(***************************************************************************)
(* What the ioctl interface of ldt.c promises: a box for one message.  A   *)
(* WRITE puts its message into the box, a READ takes the contents out and  *)
(* leaves the box blank, and each is one step.  If Exact, a WRITE also     *)
(* blanks the bytes behind its message.                                    *)
(***************************************************************************)
EXTENDS Naturals, Sequences

CONSTANTS Writers, Readers, Byte, Zero, BufSize, Exact

VARIABLES box,    \* the contents, BufSize bytes
          sent,   \* per writer: the message of its current call
          got     \* per reader: what its current call hands out

Blank == [i \in 1 .. BufSize |-> Zero]

BInit ==
  /\ box = Blank
  /\ sent = [w \in Writers |-> <<>>]
  /\ got = [r \in Readers |-> <<>>]

\* A writer makes up its message, or forgets it.
Ask(w) ==
  /\ \E n \in 0 .. BufSize : \E m \in [1 .. n -> Byte] :
       sent' = [sent EXCEPT ![w] = m]
  /\ UNCHANGED <<box, got>>

Put(w) ==
  /\ box' \in [1 .. BufSize -> Byte]
  /\ \A i \in 1 .. BufSize :
       IF i <= Len(sent[w]) THEN box'[i] = sent[w][i]
                            ELSE Exact => box'[i] = Zero
  /\ UNCHANGED <<sent, got>>

Get(r) ==
  /\ \E n \in 0 .. BufSize :
       got' = [got EXCEPT ![r] = [i \in 1 .. n |-> box[i]]]
  /\ box' = Blank
  /\ UNCHANGED sent

\* A reader is done with what it got.
Done(r) ==
  /\ got' = [got EXCEPT ![r] = <<>>]
  /\ UNCHANGED <<box, sent>>

BNext ==
  \/ \E w \in Writers : Ask(w) \/ Put(w)
  \/ \E r \in Readers : Get(r) \/ Done(r)

BSpec == BInit /\ [][BNext]_<<box, sent, got>>
=============================================================================
