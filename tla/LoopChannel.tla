---------------------------- MODULE LoopChannel ----------------------------
(***************************************************************************)
(* What a loopback character device promises to the programs that write    *)
(* to it and read from it: the bytes accepted by writes come back to the   *)
(* readers in the order in which they were accepted, none altered, none    *)
(* twice.  A byte may be lost on the way, but only where a queue is full:  *)
(* the number of undelivered bytes before it tells.                        *)
(*                                                                         *)
(* ldt/misc_loop_drv.c and ldt/ldt.c implement this specification          *)
(* (modules MiscLoop and Ldt).                                             *)
(***************************************************************************)
EXTENDS Integers, Sequences, SequencesExt

CONSTANTS Data,       \* the values a byte may have
          Capacity,   \* bytes one call transfers at most
          LossPoints  \* how many undelivered bytes may be before a byte that
                      \* is lost

VARIABLES channel,    \* bytes accepted and neither delivered nor lost
          delivered   \* bytes the readers got, in the order they got them

cvars == <<channel, delivered>>

CInit == channel = <<>> /\ delivered = <<>>

\* A write accepts some bytes.
Accept ==
  \E s \in BoundedSeq(Data, Capacity) :
    /\ channel' = channel \o s
    /\ UNCHANGED delivered

\* A read takes the n oldest bytes.
Deliver ==
  \E n \in 1 .. Capacity :
    /\ n <= Len(channel)
    /\ channel' = SubSeq(channel, n + 1, Len(channel))
    /\ delivered' = delivered \o SubSeq(channel, 1, n)

\* A byte that reaches a full queue is dropped.
Drop ==
  \E k \in LossPoints :
    /\ k < Len(channel)
    /\ channel' = RemoveAt(channel, k + 1)
    /\ UNCHANGED delivered

CNext == Accept \/ Deliver \/ Drop

CSpec == CInit /\ [][CNext]_cvars
=============================================================================
