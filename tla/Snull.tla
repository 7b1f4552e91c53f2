------------------------------- MODULE Snull -------------------------------
(***************************************************************************)
(* net/snull/snull.c: two network interfaces, each of which delivers what  *)
(* the other one transmits.  A packet lives in the sender's pool (ppool),  *)
(* in the receiver's rx_queue or in the hands of the CPU that moves it;    *)
(* both lists are linked through the packet's own next field.              *)
(*                                                                         *)
(* The kernel calls snull_tx and snull_tx_timeout of one device under its  *)
(* transmit lock, so there is one context per device; the two contexts run *)
(* on different CPUs, and each of them calls the interrupt handler of both *)
(* devices.  The pool and rx_queue are protected by priv->lock; the status *)
(* word is not: it is changed by plain reads and writes, which are steps   *)
(* of their own here.                                                      *)
(*                                                                         *)
(* snull_poll is never reached: snull_init clears the napi structure after *)
(* netif_napi_add has filled it, and the first softirq calls through a     *)
(* null pointer (NapiPoll).  Contents and sizes of packets, statistics and *)
(* the header functions are left out, and so is removing the module.       *)
(***************************************************************************)
EXTENDS Naturals, FiniteSets

CONSTANTS
  Devs,             \* the two interfaces
  PoolSize,         \* pool_size
  NULL

ASSUME SnullAssumption ==
  /\ IsFiniteSet(Devs) /\ Cardinality(Devs) = 2
  /\ PoolSize \in Nat \ {0}
  /\ NULL \notin Devs \cup (Devs \X (1..PoolSize))

Packet   == Devs \X (1..PoolSize)       \* p[1] is pkt->dev
Link     == Packet \cup {NULL}
Intr     == {"RX", "TX"}                \* SNULL_RX_INTR, SNULL_TX_INTR
Twin(d)  == CHOOSE e \in Devs : e # d

VARIABLES
  use_napi, lockup,             \* module parameters
  allocated,                    \* packets snull_setup_pool got for each device
  ppool, rx_queue, next,        \* heads of the lists, pkt->next
  status, rx_int_enabled,       \* the emulated hardware
  skb,                          \* state of the buffer priv->skb points to; "again": the
                                \* watchdog has it freed a second time
  lock,                         \* priv->lock: the context that holds it
  up, stopped, napi,            \* interface up, transmit queue stopped, NAPI scheduled
  cpu,                          \* the context of each device
  panic,                        \* a null pointer was used
  forced, torn                  \* history, see the properties

param   == <<use_napi, lockup, allocated>>
lists   == <<ppool, rx_queue, next>>
history == <<forced, torn>>
vars    == <<param, lists, status, rx_int_enabled, skb, lock, up, stopped, napi,
             cpu, panic, history>>

\* dev is the device whose handler runs, reg a copy of a status word, and call
\* the entry point the context came from.
Context ==
  [pc : {"idle", "enq", "or", "orw", "isr", "ack", "rel", "chk", "wake", "tmo"},
   dev : Devs, reg : SUBSET Intr, pkt : Link, call : {"tx", "timeout"}]
Idle(d) == [pc |-> "idle", dev |-> d, reg |-> {}, pkt |-> NULL, call |-> "tx"]

\* The list set up by snull_setup_pool, which gives up quietly when memory runs
\* out: n packets, the last one allocated is the first.
PoolOf(d, n) == IF n = 0 THEN NULL ELSE <<d, n>>

Init ==
  /\ use_napi \in BOOLEAN /\ lockup \in BOOLEAN
  /\ allocated \in [Devs -> 0..PoolSize]
  /\ ppool = [d \in Devs |-> PoolOf(d, allocated[d])]
  /\ next = [p \in Packet |-> PoolOf(p[1], p[2] - 1)]
  /\ rx_queue = [d \in Devs |-> NULL]
  /\ status = [d \in Devs |-> {}]
  /\ rx_int_enabled = [d \in Devs |-> TRUE]
  /\ skb = [d \in Devs |-> "none"]
  /\ lock = [d \in Devs |-> NULL]
  /\ up = [d \in Devs |-> FALSE]
  /\ stopped = [d \in Devs |-> FALSE]
  /\ napi = [d \in Devs |-> FALSE]
  /\ cpu = [d \in Devs |-> Idle(d)]
  /\ panic = FALSE
  /\ forced = {} /\ torn = FALSE

At(d, label)    == cpu[d].pc = label
Goto(d, label)  == cpu' = [cpu EXCEPT ![d].pc = label]
Free(d)         == lock[d] = NULL

\* A packet is on its way back to the pool of d, or just arrived there, and the
\* decision to wake the transmit queue is still to come.
Returning(d) ==
  \E c \in Devs : cpu[c].pc \in {"chk", "wake"} /\ cpu[c].pkt[1] = d

----------------------------------------------------------------------------
(* The kernel's side: open, close and the watchdog *)

\* snull_open.
Open(d) ==
  /\ ~up[d]
  /\ up' = [up EXCEPT ![d] = TRUE]
  /\ stopped' = [stopped EXCEPT ![d] = FALSE]
  /\ forced' = forced \cup {e \in {d} : ppool[e] = NULL \/ Returning(e)}
  /\ UNCHANGED <<param, lists, status, rx_int_enabled, skb, lock, napi, cpu, panic,
                 torn>>

\* snull_release.  The kernel has waited for the transmit function.
Release(d) ==
  /\ up[d] /\ At(d, "idle")
  /\ up' = [up EXCEPT ![d] = FALSE]
  /\ stopped' = [stopped EXCEPT ![d] = TRUE]
  /\ UNCHANGED <<param, lists, status, rx_int_enabled, skb, lock, napi, cpu, panic,
                 history>>

\* snull_tx_timeout: the queue has been stopped for too long.  The plain store
\* may overwrite an RX bit (torn) or announce the end of a transmission that has
\* ended already (skb is "again" then); the handler runs next.
TxTimeout(d) ==
  /\ up[d] /\ stopped[d] /\ At(d, "idle")
  /\ status' = [status EXCEPT ![d] = {"TX"}]
  /\ torn' = (torn \/ "RX" \in status[d])
  /\ skb' = [skb EXCEPT ![d] = IF "TX" \in status[d] \/ @ = "twice" THEN @ ELSE "again"]
  /\ cpu' = [cpu EXCEPT ![d].pc = "isr", ![d].call = "timeout"]
  /\ UNCHANGED <<param, lists, rx_int_enabled, lock, up, stopped, napi, panic,
                 forced>>

\* snull_tx_timeout after the handler: wake the queue.
TxTimeoutWake(d) ==
  /\ At(d, "tmo")
  /\ stopped' = [stopped EXCEPT ![d] = FALSE]
  /\ forced' = forced \cup {e \in {d} : ppool[e] = NULL \/ Returning(e)}
  /\ cpu' = [cpu EXCEPT ![d] = Idle(d)]
  /\ UNCHANGED <<param, lists, status, rx_int_enabled, skb, lock, up, napi, panic,
                 torn>>

----------------------------------------------------------------------------
(* snull_tx and snull_hw_tx *)

\* Mutated form: the test comes before the packet is taken.
LastTaken_Early(d) == ppool[d] = NULL

\* The packet taken from the pool was the last one.
LastTaken(d) == next[ppool[d]] = NULL

\* snull_tx up to snull_get_tx_buffer: remember the skb, take the first packet
\* of the pool, stop the queue when it was the last one.
Tx(d) ==
  /\ At(d, "idle") /\ up[d] /\ ~stopped[d] /\ Free(d)
  /\ ppool[d] # NULL
  /\ ppool' = [ppool EXCEPT ![d] = next[ppool[d]]]
  /\ stopped' = [stopped EXCEPT ![d] = LastTaken(d)]
  /\ skb' = [skb EXCEPT ![d] = IF @ = "twice" THEN @ ELSE "held"]
  /\ cpu' = [cpu EXCEPT ![d].pc = "enq", ![d].pkt = ppool[d]]
  /\ UNCHANGED <<param, rx_queue, next, status, rx_int_enabled, lock, up, napi,
                 panic, history>>

\* The same with an empty pool: pkt->next is read through a null pointer.
TxNoBuffer(d) ==
  /\ At(d, "idle") /\ up[d] /\ ~stopped[d] /\ Free(d)
  /\ ppool[d] = NULL
  /\ panic' = TRUE
  /\ UNCHANGED <<param, lists, status, rx_int_enabled, skb, lock, up, stopped, napi,
                 cpu, history>>

\* snull_enqueue_buf: the packet goes to the front of the twin's rx_queue.  If
\* the twin takes interrupts, the RX interrupt follows.
EnqueueBuf(d) ==
  /\ At(d, "enq") /\ Free(Twin(d))
  /\ next' = [next EXCEPT ![cpu[d].pkt] = rx_queue[Twin(d)]]
  /\ rx_queue' = [rx_queue EXCEPT ![Twin(d)] = cpu[d].pkt]
  /\ cpu' = [cpu EXCEPT ![d].pc = "or", ![d].pkt = NULL,
                        ![d].dev = IF rx_int_enabled[Twin(d)] THEN Twin(d) ELSE d]
  /\ UNCHANGED <<param, ppool, status, rx_int_enabled, skb, lock, up, stopped, napi,
                 panic, history>>

\* priv->status |= bit, first half: the word is read.
StatusRead(d) ==
  /\ At(d, "or")
  /\ cpu' = [cpu EXCEPT ![d].reg = status[cpu[d].dev], ![d].pc = "orw"]
  /\ UNCHANGED <<param, lists, status, rx_int_enabled, skb, lock, up, stopped, napi,
                 panic, history>>

\* Second half: the word is written, RX for the twin and TX for the device
\* itself; torn if it has changed in between.  Then the handler runs.
StatusWrite(d) ==
  LET e == cpu[d].dev IN
  /\ At(d, "orw")
  /\ status' = [status EXCEPT ![e] = cpu[d].reg \cup {IF e = d THEN "TX" ELSE "RX"}]
  /\ torn' = (torn \/ status[e] # cpu[d].reg)
  /\ \/ /\ cpu' = [cpu EXCEPT ![d].pc = "isr", ![d].reg = {}]
        /\ UNCHANGED stopped
     \/ /\ e = d /\ lockup                      \* dropped transmit interrupt
        /\ stopped' = [stopped EXCEPT ![d] = TRUE]
        /\ cpu' = [cpu EXCEPT ![d] = Idle(d)]
  /\ UNCHANGED <<param, lists, rx_int_enabled, skb, lock, up, napi, panic, forced>>

----------------------------------------------------------------------------
(* snull_regular_interrupt and snull_napi_interrupt for device cpu[d].dev *)

\* The handler returned to its caller: after the twin's handler snull_hw_tx
\* goes on with the TX interrupt, after its own the call is over.
Return(d) ==
  cpu' = [cpu EXCEPT ![d] =
            IF @.dev # d THEN [Idle(d) EXCEPT !.pc = "or"]
            ELSE IF @.call = "timeout" THEN [Idle(d) EXCEPT !.pc = "tmo"]
            ELSE Idle(d)]

\* Take the lock, read the status word.
IsrEnter(d) ==
  LET e == cpu[d].dev IN
  /\ At(d, "isr") /\ Free(e)
  /\ lock' = [lock EXCEPT ![e] = d]
  /\ cpu' = [cpu EXCEPT ![d].pc = "ack", ![d].reg = status[e]]
  /\ UNCHANGED <<param, lists, status, rx_int_enabled, skb, up, stopped, napi, panic,
                 history>>

\* Mutated form: a handler that looks at RX only when TX is not set.
RxDue_ElseIf(reg) == "RX" \in reg /\ "TX" \notin reg

RxDue(reg) == "RX" \in reg

\* Mutated form: only the RX bit is acknowledged.
Acked_RxOnly(reg) == reg \ {"RX"}

\* What the handler leaves in the status word.
Acked(reg) == {}

\* Mutated form: the packet is handed up but stays in the queue.
Unlinked_Not(e) == rx_queue[e]

\* rx_queue once its first packet is taken.
Unlinked(e) == next[rx_queue[e]]

\* dev_kfree_skb(priv->skb).
Freed(s) == CASE s = "held" -> "freed" [] s = "again" -> s [] OTHER -> "twice"

\* Clear the status word and do what the copy says: on RX take one packet
\* (snull_rx passes a copy of it up, or drops it when there is no memory), or
\* switch to polling; on TX free the skb.  Then unlock.
IsrAck(d) ==
  LET e  == cpu[d].dev
      rx == RxDue(cpu[d].reg) /\ ~use_napi /\ rx_queue[e] # NULL
      tx == "TX" \in cpu[d].reg
      na == RxDue(cpu[d].reg) /\ use_napi
  IN
  /\ At(d, "ack")
  /\ status' = [status EXCEPT ![e] = Acked(cpu[d].reg)]
  /\ torn' = (torn \/ status[e] # cpu[d].reg)
  /\ rx_queue' = IF rx THEN [rx_queue EXCEPT ![e] = Unlinked(e)] ELSE rx_queue
  /\ rx_int_enabled' = IF na THEN [rx_int_enabled EXCEPT ![e] = FALSE]
                       ELSE rx_int_enabled
  /\ napi' = IF na THEN [napi EXCEPT ![e] = TRUE] ELSE napi
  /\ skb' = IF tx THEN [skb EXCEPT ![e] = Freed(@)] ELSE skb
  /\ lock' = [lock EXCEPT ![e] = NULL]
  /\ IF rx THEN cpu' = [cpu EXCEPT ![d].pc = "rel", ![d].pkt = rx_queue[e],
                                   ![d].reg = {}]
     ELSE Return(d)
  /\ UNCHANGED <<param, ppool, next, up, stopped, panic, forced>>

\* snull_release_buffer under the lock: the packet goes back to its sender.
ReleaseBuffer(d) ==
  LET p == cpu[d].pkt IN
  /\ At(d, "rel") /\ Free(p[1])
  /\ next' = [next EXCEPT ![p] = ppool[p[1]]]
  /\ ppool' = [ppool EXCEPT ![p[1]] = p]
  /\ Goto(d, "chk")
  /\ UNCHANGED <<param, rx_queue, status, rx_int_enabled, skb, lock, up, stopped,
                 napi, panic, history>>

\* Mutated form: the condition on the list is inverted.
WakeDue_Inverted(p) == stopped[p[1]] /\ next[p] # NULL

\* The pool was empty and the queue is stopped.
WakeDue(p) == stopped[p[1]] /\ next[p] = NULL

\* The rest of snull_release_buffer, after the unlock.
ReleaseCheck(d) ==
  /\ At(d, "chk")
  /\ IF WakeDue(cpu[d].pkt) THEN Goto(d, "wake") ELSE Return(d)
  /\ UNCHANGED <<param, lists, status, rx_int_enabled, skb, lock, up, stopped, napi,
                 panic, history>>

ReleaseWake(d) ==
  /\ At(d, "wake")
  /\ stopped' = [stopped EXCEPT ![cpu[d].pkt[1]] = FALSE]
  /\ Return(d)
  /\ UNCHANGED <<param, lists, status, rx_int_enabled, skb, lock, up, napi, panic,
                 history>>

\* The softirq for a scheduled device calls napi->poll, which is null.
NapiPoll(d) ==
  /\ napi[d]
  /\ panic' = TRUE
  /\ UNCHANGED <<param, lists, status, rx_int_enabled, skb, lock, up, stopped, napi,
                 cpu, history>>

----------------------------------------------------------------------------
\* What a context does by itself once the kernel has called the driver.
Driver(d) ==
  \/ TxTimeoutWake(d) \/ EnqueueBuf(d) \/ StatusRead(d) \/ StatusWrite(d)
  \/ IsrEnter(d) \/ IsrAck(d) \/ ReleaseBuffer(d) \/ ReleaseCheck(d)
  \/ ReleaseWake(d)

Next ==
  /\ ~panic
  /\ \E d \in Devs : \/ Open(d) \/ Release(d) \/ TxTimeout(d)
                     \/ Tx(d) \/ TxNoBuffer(d) \/ Driver(d) \/ NapiPoll(d)

Spec == Init /\ [][Next]_vars
----------------------------------------------------------------------------
(* What must hold *)

\* Every variable has its type.
TypeOK ==
  /\ allocated \in [Devs -> 0..PoolSize]
  /\ use_napi \in BOOLEAN /\ lockup \in BOOLEAN /\ panic \in BOOLEAN
  /\ ppool \in [Devs -> Link] /\ rx_queue \in [Devs -> Link]
  /\ next \in [Packet -> Link]
  /\ status \in [Devs -> SUBSET Intr]
  /\ rx_int_enabled \in [Devs -> BOOLEAN] /\ napi \in [Devs -> BOOLEAN]
  /\ skb \in [Devs -> {"none", "held", "freed", "again", "twice"}]
  /\ lock \in [Devs -> Devs \cup {NULL}]
  /\ up \in [Devs -> BOOLEAN] /\ stopped \in [Devs -> BOOLEAN]
  /\ cpu \in [Devs -> Context]
  /\ forced \subseteq Devs
  /\ torn \in BOOLEAN

\* The packets of L, and no others, are the list that starts at h: s has them from
\* the last to the first.
List(h, nxt, L) ==
  LET n == Cardinality(L) IN
  \E s \in [1..n -> L] :
    /\ \A i, j \in 1..n : s[i] = s[j] => i = j
    /\ \A p \in L : \E i \in 1..n : s[i] = p
    /\ h = IF n = 0 THEN NULL ELSE s[n]
    /\ \A i \in 1..n : nxt[s[i]] = IF i = 1 THEN NULL ELSE s[i - 1]

Mine(d)     == {d} \X (1..allocated[d])
Moves(c, p) == cpu[c].pc \in {"enq", "rel"} /\ cpu[c].pkt = p

\* Every packet of the pool is in exactly one place, although both lists share
\* the next field and snull_release_buffer looks at it after the unlock: in the
\* pool of its device, in rx_queue of the twin, or with the one context that
\* moves it.  None is lost, none is in two places, and the lists end.
OnePlace ==
  /\ TypeOK
  /\ \A d \in Devs : \E pool \in SUBSET Mine(d) :
       /\ List(ppool[d], next, pool)
       /\ \E wait \in SUBSET (Mine(d) \ pool) :
            /\ List(rx_queue[Twin(d)], next, wait)
            /\ \A p \in pool \cup wait : \A c \in Devs : ~Moves(c, p)
            /\ \A p \in Mine(d) \ (pool \cup wait) :
                 /\ \E c \in Devs : Moves(c, p)
                 /\ \A b, c \in Devs : Moves(b, p) /\ Moves(c, p) => b = c

\* A transmit queue that is stopped although there are packets in the pool was
\* stopped by the simulated lockup, or the context that returned the first
\* packet is about to wake it: the test after the unlock never misses.
QueueRestarts ==
  \A d \in Devs : up[d] /\ stopped[d] /\ ppool[d] # NULL =>
                    lockup \/ Returning(d)

\* snull_get_tx_buffer does not look whether there is a packet.  It relies on the
\* queue being stopped while the pool is empty, and that is so until
\* snull_tx_timeout or snull_open starts the queue of a device with an empty
\* pool, or while a packet is being returned to it.
StoppedWhileEmpty ==
  \A d \in Devs : up[d] /\ ~stopped[d] /\ ppool[d] = NULL => d \in forced

\* Without NAPI, and as long as no update of a status word is lost, a packet
\* waits in rx_queue only while its sender is still inside the receive interrupt
\* it raised, and it waits alone: none is stranded, and the reversed order of
\* rx_queue (snull_enqueue_buf) never shows.
Delivered ==
  \A d \in Devs : ~torn /\ ~use_napi /\ rx_queue[d] # NULL =>
    /\ next[rx_queue[d]] = NULL
    /\ cpu[Twin(d)].dev = d

\* The handler frees priv->skb twice only when the watchdog completes a transmission
\* that was complete (skb is "again" until the next transmission), and otherwise only
\* after an update of a status word was lost, or with the simulated lockup, whose
\* pending TX bit the next interrupt takes for the transmission that came after it.
FreedOnce == \A d \in Devs : skb[d] = "twice" => torn \/ lockup
=============================================================================
