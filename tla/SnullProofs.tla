---------------------------- MODULE SnullProofs ----------------------------
(***************************************************************************)
(* The safety properties of Snull for every number of packets.             *)
(***************************************************************************)
EXTENDS Snull, FiniteSetTheorems, FunctionTheorems, TLAPS

(* Lists *)

\* Only the empty list starts with NULL, and a list starts with one of its packets.
LEMMA ListHead ==
  ASSUME NEW L, IsFiniteSet(L), NULL \notin L, NEW h, NEW nxt, List(h, nxt, L)
  PROVE  IF L = {} THEN h = NULL ELSE h \in L
<1>1. Cardinality(L) \in Nat /\ (Cardinality(L) = 0 <=> L = {})
  BY FS_CardinalityType, FS_EmptySet
<1>2. QED  BY <1>1 DEF List

\* Two lists with the same packets and the same links are the same.
LEMMA ListFrame ==
  ASSUME NEW L, NEW h, NEW nxt, NEW nxt2, List(h, nxt, L),
         \A p \in L : nxt2[p] = nxt[p]
  PROVE  List(h, nxt2, L)
<1> DEFINE n == Cardinality(L)
<1>1. PICK s \in [1..n -> L] :
        /\ \A i, j \in 1..n : s[i] = s[j] => i = j
        /\ \A q \in L : \E i \in 1..n : s[i] = q
        /\ h = IF n = 0 THEN NULL ELSE s[n]
        /\ \A i \in 1..n : nxt[s[i]] = IF i = 1 THEN NULL ELSE s[i - 1]
  BY DEF List
<1>2. \A i \in 1..n : nxt2[s[i]] = IF i = 1 THEN NULL ELSE s[i - 1]
  BY <1>1
<1>3. QED  BY <1>1, <1>2 DEF List

LEMMA ListEmpty ==
  ASSUME NEW nxt
  PROVE  List(NULL, nxt, {})
<1>1. Cardinality({}) = 0  BY FS_EmptySet
<1> DEFINE s == [i \in 1..0 |-> NULL]
<1>2. s \in [1..0 -> {}]  OBVIOUS
<1>3. QED  BY <1>1, <1>2 DEF List

\* A packet is put in front.
LEMMA ListPush ==
  ASSUME NEW L, IsFiniteSet(L), NEW h, NEW D, NEW R, NEW nxt \in [D -> R],
         L \subseteq D, NEW p \in D \ L, List(h, nxt, L), NULL \notin L
  PROVE  List(p, [nxt EXCEPT ![p] = h], L \cup {p})
<1> DEFINE n == Cardinality(L)
           M == L \cup {p}
           nxt2 == [nxt EXCEPT ![p] = h]
<1>1. n \in Nat /\ Cardinality(M) = n + 1
  BY FS_CardinalityType, FS_AddElement
<1>2. PICK s \in [1..n -> L] :
        /\ \A i, j \in 1..n : s[i] = s[j] => i = j
        /\ \A q \in L : \E i \in 1..n : s[i] = q
        /\ h = IF n = 0 THEN NULL ELSE s[n]
        /\ \A i \in 1..n : nxt[s[i]] = IF i = 1 THEN NULL ELSE s[i - 1]
  BY DEF List
<1> DEFINE t == [i \in 1..(n + 1) |-> IF i = n + 1 THEN p ELSE s[i]]
<1> HIDE DEF n
<1>3. t \in [1..(n + 1) -> M]
  BY <1>1, <1>2
<1>4. \A i, j \in 1..(n + 1) : t[i] = t[j] => i = j
  BY <1>1, <1>2
<1>5. \A q \in M : \E i \in 1..(n + 1) : t[i] = q
  BY <1>1, <1>2
<1>6. p = IF n + 1 = 0 THEN NULL ELSE t[n + 1]
  BY <1>1
<1>7. \A i \in 1..(n + 1) : nxt2[t[i]] = IF i = 1 THEN NULL ELSE t[i - 1]
  BY <1>1, <1>2
<1> HIDE DEF t, M, nxt2
<1>8. List(p, nxt2, M)
  BY ONLY <1>1, <1>3, <1>4, <1>5, <1>6, <1>7, SMTT(60) DEF List
<1>9. QED  BY <1>8 DEF M, nxt2

\* The first packet is taken away.
LEMMA ListPop ==
  ASSUME NEW L, IsFiniteSet(L), NEW h, NEW nxt, List(h, nxt, L), h # NULL,
         NULL \notin L
  PROVE  /\ h \in L
         /\ List(nxt[h], nxt, L \ {h})
         /\ nxt[h] = NULL <=> L = {h}
<1> DEFINE n == Cardinality(L)
           M == L \ {h}
<1>2. PICK s \in [1..n -> L] :
        /\ \A i, j \in 1..n : s[i] = s[j] => i = j
        /\ \A q \in L : \E i \in 1..n : s[i] = q
        /\ h = IF n = 0 THEN NULL ELSE s[n]
        /\ \A i \in 1..n : nxt[s[i]] = IF i = 1 THEN NULL ELSE s[i - 1]
  BY DEF List
<1>1. n \in Nat \ {0} /\ h = s[n] /\ h \in L
  BY <1>2, FS_CardinalityType
<1>3. Cardinality(M) = n - 1
  BY <1>1, FS_RemoveElement
<1> HIDE DEF n
<1> DEFINE t == [i \in 1..(n - 1) |-> s[i]]
<1>4. t \in [1..(n - 1) -> M]
  BY <1>1, <1>2
<1>5. \A i, j \in 1..(n - 1) : t[i] = t[j] => i = j
  BY <1>1, <1>2
<1>6. \A q \in M : \E i \in 1..(n - 1) : t[i] = q
  BY <1>1, <1>2
<1>7. nxt[h] = IF n - 1 = 0 THEN NULL ELSE t[n - 1]
  BY <1>1, <1>2
<1>8. \A i \in 1..(n - 1) : nxt[t[i]] = IF i = 1 THEN NULL ELSE t[i - 1]
  BY <1>1, <1>2
<1> HIDE DEF t, M
<1>9. List(nxt[h], nxt, M)
  <2> DEFINE m == Cardinality(M)
  <2>1. m = n - 1
    BY <1>3
  <2> HIDE DEF m
  <2>2. /\ t \in [1..m -> M]
        /\ \A i, j \in 1..m : t[i] = t[j] => i = j
        /\ \A q \in M : \E i \in 1..m : t[i] = q
        /\ nxt[h] = IF m = 0 THEN NULL ELSE t[m]
        /\ \A i \in 1..m : nxt[t[i]] = IF i = 1 THEN NULL ELSE t[i - 1]
    BY <1>4, <1>5, <1>6, <1>7, <1>8, <2>1
  <2>3. QED  BY ONLY <2>2, Zenon DEF List, m
<1>10. nxt[h] = NULL <=> L = {h}
  <2>1. IsFiniteSet(M) /\ NULL \notin M
    BY FS_Subset DEF M
  <2>2. IF M = {} THEN nxt[h] = NULL ELSE nxt[h] \in M
    BY <1>9, <2>1, ListHead
  <2>3. QED  BY <1>1, <2>1, <2>2 DEF M
<1>11. QED  BY <1>1, <1>9, <1>10 DEF M

----------------------------------------------------------------------------
(* The two devices, and types *)

LEMMA TwinIs ==
  ASSUME NEW d \in Devs
  PROVE  /\ Twin(d) \in Devs /\ Twin(d) # d /\ Twin(Twin(d)) = d
         /\ \A e \in Devs : e = d \/ e = Twin(d)
<1>1. IsFiniteSet(Devs) /\ Cardinality(Devs) = 2
  BY SnullAssumption
<1>2. \A x \in Devs : Cardinality(Devs \ {x}) = 1
  BY <1>1, FS_RemoveElement
<1>3. \A x \in Devs : \E y : Devs \ {x} = {y}
  BY <1>1, <1>2, FS_Subset, FS_Singleton
<1>4. \A x \in Devs : Twin(x) \in Devs /\ Twin(x) # x
  BY <1>3 DEF Twin
<1>5. QED  BY <1>3, <1>4

LEMMA PacketFinite ==
  /\ IsFiniteSet(Packet) /\ NULL \notin Packet
  /\ \A S \in SUBSET Packet : IsFiniteSet(S) /\ NULL \notin S
<1>1. IsFiniteSet(Devs) /\ IsFiniteSet(1..PoolSize)
  BY SnullAssumption, FS_Interval
<1>2. IsFiniteSet(Packet) /\ NULL \notin Packet
  BY <1>1, SnullAssumption, FS_Product DEF Packet
<1>3. QED  BY <1>2, FS_Subset

LEMMA TypeInit == Init => TypeOK
<1> SUFFICES ASSUME Init PROVE TypeOK
  OBVIOUS
<1>1. \A d \in Devs : \A n \in 0..PoolSize : PoolOf(d, n) \in Link
  BY SnullAssumption DEF PoolOf, Link, Packet
<1>2. ppool \in [Devs -> Link]
  BY <1>1 DEF Init
<1>3. next \in [Packet -> Link]
  <2>1. \A p \in Packet : p[1] \in Devs /\ p[2] - 1 \in 0..PoolSize
    BY SnullAssumption DEF Packet
  <2>2. QED  BY <1>1, <2>1 DEF Init
<1>4. QED  BY <1>2, <1>3 DEF Init, TypeOK, Idle, Context, Link, Intr

\* The context that takes a step stays a context.
LEMMA ContextStep ==
  ASSUME TypeOK, NEW d \in Devs, Driver(d) \/ Tx(d) \/ TxTimeout(d)
  PROVE  cpu' \in [Devs -> Context]
<1> USE DEF At, Goto, Free, Idle, Return
<1>1. /\ cpu \in [Devs -> Context] /\ cpu[d] \in Context
      /\ Twin(d) \in Devs /\ cpu[d].dev \in Devs
      /\ status[cpu[d].dev] \in SUBSET Intr
      /\ ppool[d] \in Link /\ rx_queue[cpu[d].dev] \in Link /\ NULL \in Link
  BY TwinIs DEF TypeOK, Context, Link
<1>2. CASE TxTimeoutWake(d)
  BY <1>1, <1>2 DEF TxTimeoutWake, Context
<1>3. CASE EnqueueBuf(d)
  BY <1>1, <1>3 DEF EnqueueBuf, Context
<1>4. CASE StatusRead(d)
  BY <1>1, <1>4 DEF StatusRead, Context
<1>5. CASE StatusWrite(d)
  BY <1>1, <1>5 DEF StatusWrite, Context
<1>6. CASE IsrEnter(d)
  BY <1>1, <1>6 DEF IsrEnter, Context
<1>7. CASE IsrAck(d)
  BY <1>1, <1>7 DEF IsrAck, Context
<1>8. CASE ReleaseBuffer(d)
  BY <1>1, <1>8 DEF ReleaseBuffer, Context
<1>9. CASE ReleaseCheck(d)
  BY <1>1, <1>9 DEF ReleaseCheck, Context
<1>10. CASE ReleaseWake(d)
  BY <1>1, <1>10 DEF ReleaseWake, Context
<1>11. CASE Tx(d)
  BY <1>1, <1>11 DEF Tx, Context
<1>12. CASE TxTimeout(d)
  BY <1>1, <1>12 DEF TxTimeout, Context
<1>13. QED
  BY <1>2, <1>3, <1>4, <1>5, <1>6, <1>7, <1>8, <1>9, <1>10, <1>11, <1>12 DEF Driver

LEMMA TypeStep == ASSUME TypeOK, [Next]_vars PROVE TypeOK'
<1> USE DEF TypeOK, param, lists, history
<1>0. ASSUME UNCHANGED vars PROVE TypeOK'
  BY <1>0 DEF vars
<1> SUFFICES ASSUME NEW d \in Devs,
                    \/ Open(d) \/ Release(d) \/ TxTimeout(d) \/ Tx(d) \/ TxNoBuffer(d)
                    \/ Driver(d) \/ NapiPoll(d)
             PROVE  TypeOK'
  BY <1>0 DEF Next
<1> DEFINE e == cpu[d].dev
           p == cpu[d].pkt
<1>c. Driver(d) \/ Tx(d) \/ TxTimeout(d) => cpu' \in [Devs -> Context]
  BY ContextStep
<1>d. e \in Devs /\ p \in Link /\ cpu[d].reg \in SUBSET Intr /\ Twin(d) \in Devs
  BY TwinIs DEF Context
<1> HIDE DEF e, p
<1>p. p \in Packet => p[1] \in Devs
  BY DEF Packet
<1>1. ASSUME Open(d) PROVE TypeOK'
  BY <1>1 DEF Open
<1>2. ASSUME Release(d) PROVE TypeOK'
  BY <1>2 DEF Release
<1>3. ASSUME TxTimeout(d) PROVE TypeOK'
  BY <1>3, <1>c DEF TxTimeout, Intr
<1>4. ASSUME TxTimeoutWake(d) PROVE TypeOK'
  BY <1>4, <1>c DEF TxTimeoutWake, Driver
<1>5. ASSUME Tx(d) PROVE TypeOK'
  BY <1>5, <1>c DEF Tx, Link, LastTaken
<1>6. ASSUME TxNoBuffer(d) PROVE TypeOK'
  BY <1>6 DEF TxNoBuffer
<1>7. ASSUME EnqueueBuf(d) PROVE TypeOK'
  BY <1>7, <1>c, <1>d DEF EnqueueBuf, Link, Driver, p
<1>8. ASSUME StatusRead(d) PROVE TypeOK'
  BY <1>8, <1>c DEF StatusRead, Driver
<1>9. ASSUME StatusWrite(d) PROVE TypeOK'
  BY <1>9, <1>c, <1>d DEF StatusWrite, Intr, Driver, e
<1>10. ASSUME IsrEnter(d) PROVE TypeOK'
  BY <1>10, <1>c, <1>d DEF IsrEnter, Driver, e
<1>11. ASSUME IsrAck(d) PROVE TypeOK'
  <2>1. rx_queue' \in [Devs -> Link]
    BY <1>11, <1>d DEF IsrAck, Unlinked, Link, e
  <2>2. skb' \in [Devs -> {"none", "held", "freed", "again", "twice"}]
    BY <1>11, <1>d DEF IsrAck, Freed, e
  <2>3. QED  BY <1>11, <1>c, <1>d, <2>1, <2>2 DEF IsrAck, Acked, Driver, e
<1>12. ASSUME ReleaseBuffer(d) PROVE TypeOK'
  BY <1>12, <1>c, <1>d, <1>p DEF ReleaseBuffer, Link, Driver, p
<1>13. ASSUME ReleaseCheck(d) PROVE TypeOK'
  BY <1>13, <1>c DEF ReleaseCheck, Driver
<1>14. ASSUME ReleaseWake(d) PROVE TypeOK'
  BY <1>14, <1>c DEF ReleaseWake, Driver
<1>15. ASSUME NapiPoll(d) PROVE TypeOK'
  BY <1>15 DEF NapiPoll
<1>16. QED
  BY <1>1, <1>2, <1>3, <1>4, <1>5, <1>6, <1>7, <1>8, <1>9, <1>10, <1>11, <1>12,
     <1>13, <1>14, <1>15 DEF Driver

----------------------------------------------------------------------------
(* The inductive invariant *)

\* Where a context is decides what it works on, who holds the locks, and which
\* interfaces can be down.
Control ==
  /\ \A c \in Devs :
       /\ cpu[c].pc \in {"idle", "enq", "tmo"} => cpu[c].dev = c
       /\ cpu[c].pc = "enq" => cpu[c].pkt \in Packet /\ cpu[c].pkt[1] = c
       /\ cpu[c].pc \in {"rel", "chk", "wake"} =>
            cpu[c].pkt \in Packet /\ cpu[c].pkt[1] = Twin(cpu[c].dev) /\ ~use_napi
       /\ ~up[c] => cpu[c].pc = "idle"
       /\ \A e \in Devs : lock[e] = c <=> cpu[c].pc = "ack" /\ cpu[c].dev = e
  /\ ~use_napi => \A d \in Devs : rx_int_enabled[d]

Of(d, S) == {p \in S : p[1] = d}

Owned    == {p \in Packet : p[2] <= allocated[p[1]]}

\* P and W are the packets in the two pools and in the two receive queues; every
\* other packet that was allocated is in one hand.
Places(P, W) ==
  /\ P \subseteq Owned /\ W \subseteq Owned \ P
  /\ \A d \in Devs : /\ List(ppool[d], next, Of(d, P))
                     /\ List(rx_queue[Twin(d)], next, Of(d, W))
  /\ \A p \in Packet : p \in Owned \ (P \cup W) <=> \E c \in Devs : Moves(c, p)
  /\ \A p \in Packet : \A b, c \in Devs : Moves(b, p) /\ Moves(c, p) => b = c

\* A context that has just returned packet p to the pool of d.
Returns(c, d) == cpu[c].pc \in {"chk", "wake"} /\ cpu[c].pkt[1] = d

\* The context of d itself finds the packet it returned still in the pool, and a
\* stopped queue with packets has a context that will wake it: it has decided to,
\* or its packet is the last one in the pool.
Restarts(P) ==
  \A d \in Devs :
    /\ Returns(d, d) => cpu[d].pkt \in P
    /\ up[d] /\ stopped[d] /\ ppool[d] # NULL =>
         \/ lockup
         \/ \E c \in Devs : /\ Returns(c, d)
                            /\ \/ cpu[c].pc = "wake"
                               \/ cpu[c].pkt \in P /\ next[cpu[c].pkt] = NULL

Two(d) == ppool[d] # NULL /\ next[ppool[d]] # NULL

\* The context of d has taken a packet and returns one before it can take another.
InFlight(d) ==
  \/ cpu[d].pc = "enq"
  \/ /\ cpu[d].dev = Twin(d)
     /\ \/ cpu[d].pc = "rel"
        \/ /\ rx_queue[Twin(d)] # NULL
           /\ \/ cpu[d].pc \in {"or", "orw"}
              \/ cpu[d].pc = "isr" /\ "RX" \in status[Twin(d)]
              \/ cpu[d].pc = "ack" /\ "RX" \in cpu[d].reg

\* While the other context is between returning a packet and the end of
\* snull_release_buffer, the pool does not run empty under it.
Filled(d) ==
  up[d] /\ d \notin forced =>
    /\ ~stopped[d] => ppool[d] # NULL
    /\ Returns(Twin(d), d) =>
         /\ ppool[d] # NULL
         /\ stopped[d] \/ Two(d) \/ InFlight(d)
         /\ Returns(d, d) => Two(d)

\* A packet in rx_queue is alone there, and the interrupt for it is on its way.
OnItsWay(d) ==
  ~torn /\ ~use_napi /\ rx_queue[d] # NULL =>
    /\ next[rx_queue[d]] = NULL
    /\ cpu[Twin(d)].dev = d /\ cpu[Twin(d)].pc \in {"or", "orw", "isr", "ack"}
    /\ \/ cpu[Twin(d)].pc \in {"or", "orw"}
       \/ cpu[Twin(d)].pc = "isr" /\ "RX" \in status[d]
       \/ \E c \in Devs : /\ cpu[c].pc = "ack" /\ cpu[c].dev = d
                          /\ "RX" \in cpu[c].reg

\* The context of d is before its own interrupt.
Sending(d) ==
  \/ cpu[d].pc \in {"enq", "or", "orw"}
  \/ cpu[d].dev # d

\* The TX bit stands for an skb that is held, once, or that the watchdog has freed
\* again.
HeldOnce(d) ==
  ~torn /\ ~lockup =>
    /\ skb[d] # "twice"
    /\ Sending(d) => skb[d] = "held" /\ "TX" \notin status[d]
    /\ "TX" \in status[d] =>
         skb[d] \in {"held", "again"} /\ cpu[d].pc \in {"isr", "ack"} /\ cpu[d].dev = d
    /\ \A c \in Devs : cpu[c].pc = "ack" /\ cpu[c].dev = d /\ "TX" \in cpu[c].reg =>
         "TX" \in status[d]

Inv ==
  /\ TypeOK /\ Control
  /\ \E P, W \in SUBSET Packet : Places(P, W) /\ Restarts(P)
  /\ \A d \in Devs : Filled(d) /\ OnItsWay(d) /\ HeldOnce(d)

----------------------------------------------------------------------------
(* Where the packets are *)

\* The head of each list is one of its packets.
LEMMA Heads ==
  ASSUME NEW P \in SUBSET Packet, NEW W \in SUBSET Packet, Places(P, W),
         NEW d \in Devs
  PROVE  /\ IF Of(d, P) = {} THEN ppool[d] = NULL ELSE ppool[d] \in Of(d, P)
         /\ IF Of(Twin(d), W) = {} THEN rx_queue[d] = NULL
            ELSE rx_queue[d] \in Of(Twin(d), W)
<1>1. /\ List(ppool[d], next, Of(d, P))
      /\ List(rx_queue[d], next, Of(Twin(d), W))
  BY TwinIs DEF Places
<1>2. Of(d, P) \in SUBSET Packet /\ Of(Twin(d), W) \in SUBSET Packet
  BY DEF Of
<1>3. QED  BY <1>1, <1>2, ListHead, PacketFinite

\* A step that moves no packet.
LEMMA PlacesSame ==
  ASSUME NEW P, NEW W, Places(P, W),
         UNCHANGED <<ppool, rx_queue, next, allocated>>,
         \A c \in Devs : \A p \in Packet : Moves(c, p)' <=> Moves(c, p)
  PROVE  Places(P, W)'
<1>1. Owned' = Owned
  BY DEF Owned
<1>2. QED  BY <1>1 DEF Places

\* snull_get_tx_buffer takes the first packet of the pool.
LEMMA PlacesTx ==
  ASSUME TypeOK, NEW P \in SUBSET Packet, NEW W \in SUBSET Packet, Places(P, W),
         NEW d \in Devs, Tx(d), NEW p, p = ppool[d]
  PROVE  /\ p \in P /\ p[1] = d
         /\ Places(P \ {p}, W)'
<1>1. p \in Of(d, P) /\ p \in P /\ p \in Packet /\ p[1] = d /\ p # NULL
  BY Heads DEF Tx, Of
<1>2. /\ ppool' = [ppool EXCEPT ![d] = next[p]] /\ next' = next
      /\ rx_queue' = rx_queue /\ allocated' = allocated
  BY DEF Tx, param
<1>3. \A c \in Devs : List(ppool'[c], next', Of(c, P \ {p}))
  <2>1. Of(d, P) \in SUBSET Packet /\ List(p, next, Of(d, P))
    BY DEF Of, Places
  <2>2. List(next[p], next, Of(d, P) \ {p})
    BY <1>1, <2>1, ListPop, PacketFinite
  <2>3. Of(d, P \ {p}) = Of(d, P) \ {p}
    BY DEF Of
  <2>4. \A c \in Devs : c # d => Of(c, P \ {p}) = Of(c, P)
    BY <1>1 DEF Of
  <2>5. \A c \in Devs : c # d => List(ppool'[c], next', Of(c, P \ {p}))
    BY <1>2, <2>4 DEF Places, TypeOK
  <2>6. QED  BY <1>2, <2>2, <2>3, <2>5 DEF TypeOK
<1>4. \A c \in Devs : \A q : Moves(c, q)' <=> (c = d /\ q = p) \/ Moves(c, q)
  BY DEF Moves, Tx, At, TypeOK, Context
<1>5. Owned' = Owned
  BY <1>2 DEF Owned
<1>6. \A q \in Packet : q \in Owned \ ((P \ {p}) \cup W) <=> \E c \in Devs : Moves(c, q)'
  BY <1>1, <1>4 DEF Places
<1>7. \A q \in Packet : \A b, c \in Devs : Moves(b, q)' /\ Moves(c, q)' => b = c
  BY <1>1, <1>4 DEF Places
<1>8. /\ P \ {p} \subseteq Owned /\ W \subseteq Owned \ (P \ {p})
      /\ \A c \in Devs : List(rx_queue[Twin(c)], next, Of(c, W))
  BY DEF Places
<1>9. QED  BY <1>1, <1>2, <1>3, <1>5, <1>6, <1>7, <1>8 DEF Places

\* snull_enqueue_buf puts the packet in front of the twin's queue.
LEMMA PlacesEnqueue ==
  ASSUME TypeOK, Control, NEW P \in SUBSET Packet, NEW W \in SUBSET Packet,
         Places(P, W), NEW d \in Devs, EnqueueBuf(d), NEW p, p = cpu[d].pkt
  PROVE  /\ p \in Packet /\ p[1] = d /\ p \notin P \cup W
         /\ Places(P, W \cup {p})'
<1>1. p \in Packet /\ p[1] = d /\ Moves(d, p) /\ p \in Owned /\ p \notin P \cup W
  BY DEF Control, EnqueueBuf, At, Moves, Places
<1>2. /\ rx_queue' = [rx_queue EXCEPT ![Twin(d)] = p]
      /\ next' = [next EXCEPT ![p] = rx_queue[Twin(d)]]
      /\ ppool' = ppool /\ allocated' = allocated
  BY DEF EnqueueBuf, param
<1>3. next \in [Packet -> Link] /\ \A q \in P \cup W : next'[q] = next[q]
  BY <1>1, <1>2 DEF TypeOK
<1>4. \A c \in Devs : List(ppool[c], next', Of(c, P))
  <2>1. \A c \in Devs : \A q \in Of(c, P) : next'[q] = next[q]
    BY <1>3 DEF Of
  <2>2. QED  BY <2>1, ListFrame DEF Places
<1>5. \A c \in Devs : List(rx_queue'[Twin(c)], next', Of(c, W \cup {p}))
  <2>1. Of(d, W) \in SUBSET Packet /\ p \notin Of(d, W)
    BY <1>1 DEF Of
  <2>2. List(rx_queue[Twin(d)], next, Of(d, W))
    BY DEF Places
  <2>3. List(p, next', Of(d, W) \cup {p})
    BY <1>1, <1>2, <1>3, <2>1, <2>2, ListPush, PacketFinite
  <2>4. Of(d, W \cup {p}) = Of(d, W) \cup {p}
    BY <1>1 DEF Of
  <2>5. ASSUME NEW c \in Devs, c # d
        PROVE  List(rx_queue'[Twin(c)], next', Of(c, W \cup {p}))
    <3>1. Of(c, W \cup {p}) = Of(c, W)
      BY <1>1, <2>5 DEF Of
    <3>2. Twin(c) # Twin(d) /\ rx_queue'[Twin(c)] = rx_queue[Twin(c)]
      BY <1>2, <2>5, TwinIs DEF TypeOK
    <3>3. List(rx_queue[Twin(c)], next, Of(c, W)) /\ \A q \in Of(c, W) : next'[q] = next[q]
      BY <1>3 DEF Places, Of
    <3>4. QED  BY <3>1, <3>2, <3>3, ListFrame
  <2>6. rx_queue'[Twin(d)] = p
    BY <1>2, TwinIs DEF TypeOK
  <2>7. QED  BY <2>3, <2>4, <2>5, <2>6
<1>6. \A c \in Devs : \A q : Moves(c, q)' <=> c # d /\ Moves(c, q)
  BY DEF Moves, EnqueueBuf, At, TypeOK, Context
<1>7. Owned' = Owned
  BY <1>2 DEF Owned
<1>8. \A q \in Packet : q \in Owned \ (P \cup W \cup {p}) <=> \E c \in Devs : Moves(c, q)'
  <2>1. \A q : Moves(d, q) => q = p
    BY DEF Moves
  <2>2. QED  BY <1>1, <1>6, <2>1 DEF Places
<1>9. \A q \in Packet : \A b, c \in Devs : Moves(b, q)' /\ Moves(c, q)' => b = c
  BY <1>6 DEF Places
<1>10. P \subseteq Owned /\ W \cup {p} \subseteq Owned \ P
  BY <1>1 DEF Places
<1>11. QED  BY <1>1, <1>2, <1>4, <1>5, <1>7, <1>8, <1>9, <1>10 DEF Places

\* The handler takes the first packet of the queue.
LEMMA PlacesRx ==
  ASSUME TypeOK, NEW P \in SUBSET Packet, NEW W \in SUBSET Packet, Places(P, W),
         NEW d \in Devs, IsrAck(d), NEW e \in Devs, e = cpu[d].dev,
         RxDue(cpu[d].reg), ~use_napi, NEW p, p = rx_queue[e], p # NULL
  PROVE  /\ p \in W /\ p[1] = Twin(e)
         /\ next[p] = NULL => Of(Twin(e), W \ {p}) = {}
         /\ Places(P, W \ {p})'
<1>1. p \in Of(Twin(e), W) /\ p \in W /\ p \in Packet /\ p[1] = Twin(e)
  BY Heads DEF Of
<1>2. /\ rx_queue' = [rx_queue EXCEPT ![e] = next[p]] /\ next' = next
      /\ ppool' = ppool /\ allocated' = allocated
  BY DEF IsrAck, Unlinked, param
<1>3. Twin(e) \in Devs /\ Twin(Twin(e)) = e
  BY TwinIs
<1>4. Of(Twin(e), W) \in SUBSET Packet /\ List(p, next, Of(Twin(e), W))
  BY <1>3 DEF Of, Places
<1>5. /\ List(next[p], next, Of(Twin(e), W) \ {p})
      /\ next[p] = NULL => Of(Twin(e), W) = {p}
  BY <1>1, <1>4, ListPop, PacketFinite
<1>6. Of(Twin(e), W \ {p}) = Of(Twin(e), W) \ {p}
  BY DEF Of
<1>7. \A c \in Devs : List(rx_queue'[Twin(c)], next', Of(c, W \ {p}))
  <2>1. ASSUME NEW c \in Devs, c # Twin(e)
        PROVE  List(rx_queue'[Twin(c)], next', Of(c, W \ {p}))
    <3>1. Of(c, W \ {p}) = Of(c, W)
      BY <1>1, <2>1 DEF Of
    <3>2. Twin(c) # e /\ rx_queue'[Twin(c)] = rx_queue[Twin(c)]
      BY <1>2, <2>1, TwinIs DEF TypeOK
    <3>3. QED  BY <1>2, <3>1, <3>2 DEF Places
  <2>2. rx_queue'[Twin(Twin(e))] = next[p]
    BY <1>2, <1>3 DEF TypeOK
  <2>3. QED  BY <1>2, <1>5, <1>6, <2>1, <2>2
<1>8. \A c \in Devs : \A q : Moves(c, q)' <=> (c = d /\ q = p) \/ Moves(c, q)
  BY DEF Moves, IsrAck, At, TypeOK, Context
<1>9. Owned' = Owned
  BY <1>2 DEF Owned
<1>10. \A q \in Packet : q \in Owned \ (P \cup (W \ {p})) <=> \E c \in Devs : Moves(c, q)'
  BY <1>1, <1>8 DEF Places
<1>11. \A q \in Packet : \A b, c \in Devs : Moves(b, q)' /\ Moves(c, q)' => b = c
  BY <1>1, <1>8 DEF Places
<1>12. /\ P \subseteq Owned /\ W \ {p} \subseteq Owned \ P
       /\ \A c \in Devs : List(ppool[c], next, Of(c, P))
  BY DEF Places
<1>13. QED
  BY <1>1, <1>2, <1>5, <1>6, <1>7, <1>9, <1>10, <1>11, <1>12 DEF Places

\* snull_release_buffer puts the packet in front of its device's pool.
LEMMA PlacesRelease ==
  ASSUME TypeOK, Control, NEW P \in SUBSET Packet, NEW W \in SUBSET Packet,
         Places(P, W), NEW d \in Devs, ReleaseBuffer(d), NEW p, p = cpu[d].pkt
  PROVE  /\ p \in Packet /\ p \notin P \cup W
         /\ Places(P \cup {p}, W)'
<1>1. p \in Packet /\ p[1] \in Devs /\ Moves(d, p) /\ p \in Owned /\ p \notin P \cup W
  BY DEF Control, ReleaseBuffer, At, Moves, Places, Packet
<1>2. /\ ppool' = [ppool EXCEPT ![p[1]] = p]
      /\ next' = [next EXCEPT ![p] = ppool[p[1]]]
      /\ rx_queue' = rx_queue /\ allocated' = allocated
  BY DEF ReleaseBuffer, param
<1>3. next \in [Packet -> Link] /\ \A q \in P \cup W : next'[q] = next[q]
  BY <1>1, <1>2 DEF TypeOK
<1>4. \A c \in Devs : List(rx_queue[Twin(c)], next', Of(c, W))
  <2>1. \A c \in Devs : \A q \in Of(c, W) : next'[q] = next[q]
    BY <1>3 DEF Of
  <2>2. QED  BY <2>1, ListFrame DEF Places
<1>5. \A c \in Devs : List(ppool'[c], next', Of(c, P \cup {p}))
  <2>1. Of(p[1], P) \in SUBSET Packet /\ p \notin Of(p[1], P)
    BY <1>1 DEF Of
  <2>2. List(ppool[p[1]], next, Of(p[1], P))
    BY <1>1 DEF Places
  <2>3. List(p, next', Of(p[1], P) \cup {p})
    BY <1>1, <1>2, <1>3, <2>1, <2>2, ListPush, PacketFinite
  <2>4. Of(p[1], P \cup {p}) = Of(p[1], P) \cup {p}
    BY <1>1 DEF Of
  <2>5. ASSUME NEW c \in Devs, c # p[1]
        PROVE  List(ppool'[c], next', Of(c, P \cup {p}))
    <3>1. Of(c, P \cup {p}) = Of(c, P)
      BY <1>1, <2>5 DEF Of
    <3>2. ppool'[c] = ppool[c]
      BY <1>2, <2>5 DEF TypeOK
    <3>3. List(ppool[c], next, Of(c, P)) /\ \A q \in Of(c, P) : next'[q] = next[q]
      BY <1>3 DEF Places, Of
    <3>4. QED  BY <3>1, <3>2, <3>3, ListFrame
  <2>6. ppool'[p[1]] = p
    BY <1>1, <1>2 DEF TypeOK
  <2>7. QED  BY <2>3, <2>4, <2>5, <2>6
<1>6. \A c \in Devs : \A q : Moves(c, q)' <=> c # d /\ Moves(c, q)
  BY DEF Moves, ReleaseBuffer, At, Goto, TypeOK, Context
<1>7. Owned' = Owned
  BY <1>2 DEF Owned
<1>8. \A q \in Packet : q \in Owned \ ((P \cup {p}) \cup W) <=> \E c \in Devs : Moves(c, q)'
  <2>1. \A q : Moves(d, q) => q = p
    BY DEF Moves
  <2>2. QED  BY <1>1, <1>6, <2>1 DEF Places
<1>9. \A q \in Packet : \A b, c \in Devs : Moves(b, q)' /\ Moves(c, q)' => b = c
  BY <1>6 DEF Places
<1>10. P \cup {p} \subseteq Owned /\ W \subseteq Owned \ (P \cup {p})
  BY <1>1 DEF Places
<1>11. QED  BY <1>1, <1>2, <1>4, <1>5, <1>7, <1>8, <1>9, <1>10 DEF Places

\* Every other step moves no packet.
LEMMA PlacesOther ==
  ASSUME TypeOK, NEW P, NEW W, Places(P, W), NEW d \in Devs,
         \/ Open(d) \/ Release(d) \/ TxTimeout(d) \/ TxTimeoutWake(d) \/ TxNoBuffer(d)
         \/ StatusRead(d) \/ StatusWrite(d) \/ IsrEnter(d) \/ ReleaseCheck(d)
         \/ ReleaseWake(d) \/ NapiPoll(d)
         \/ IsrAck(d) /\ ~(RxDue(cpu[d].reg) /\ ~use_napi /\ rx_queue[cpu[d].dev] # NULL)
  PROVE  UNCHANGED lists /\ Places(P, W)'
<1>y. cpu \in [Devs -> Context]
  BY DEF TypeOK
<1> USE <1>y DEF Moves, At, Context, Goto, Return, Idle
<1>1. UNCHANGED <<ppool, rx_queue, next, allocated>>
  BY DEF Open, Release, TxTimeout, TxTimeoutWake, TxNoBuffer, StatusRead, StatusWrite,
         IsrEnter, ReleaseCheck, ReleaseWake, NapiPoll, IsrAck, param, lists
<1>2. \A c \in Devs : \A p \in Packet : Moves(c, p)' <=> Moves(c, p)
  <2>1. CASE Open(d) \/ Release(d) \/ TxNoBuffer(d) \/ NapiPoll(d)
    BY <2>1 DEF Open, Release, TxNoBuffer, NapiPoll
  <2>2. CASE TxTimeout(d) \/ TxTimeoutWake(d)
    BY <2>2 DEF TxTimeout, TxTimeoutWake
  <2>3. CASE StatusRead(d)
    BY <2>3 DEF StatusRead
  <2>8. CASE StatusWrite(d)
    <3>1. /\ \A c \in Devs \ {d} : cpu'[c] = cpu[c]
          /\ cpu[d].pc = "orw" /\ cpu'[d].pc \notin {"enq", "rel"}
      BY <2>8 DEF StatusWrite
    <3>2. QED  BY <3>1
  <2>4. CASE IsrEnter(d)
    BY <2>4 DEF IsrEnter
  <2>9. CASE ReleaseWake(d)
    <3>1. /\ \A c \in Devs \ {d} : cpu'[c] = cpu[c]
          /\ cpu[d].pc = "wake" /\ cpu'[d].pc \notin {"enq", "rel"}
      BY <2>9 DEF ReleaseWake
    <3>2. QED  BY <3>1
  <2>5. CASE ReleaseCheck(d)
    <3>1. /\ \A c \in Devs \ {d} : cpu'[c] = cpu[c]
          /\ cpu[d].pc = "chk" /\ cpu'[d].pc \notin {"enq", "rel"}
      BY <2>5 DEF ReleaseCheck
    <3>2. QED  BY <3>1
  <2>6. CASE IsrAck(d) /\ ~(RxDue(cpu[d].reg) /\ ~use_napi /\ rx_queue[cpu[d].dev] # NULL)
    BY <2>6, SMTT(30) DEF IsrAck
  <2>7. QED  BY <2>1, <2>2, <2>3, <2>4, <2>5, <2>6, <2>8, <2>9
<1>3. QED  BY <1>1, <1>2, PlacesSame DEF lists

----------------------------------------------------------------------------
(* The queue is woken *)

\* A step in which no packet is returned and no queue with packets is stopped.
LEMMA RestartsSame ==
  ASSUME TypeOK, NEW P \in SUBSET Packet, Restarts(P), NEW d \in Devs,
         \A c \in Devs \ {d} : cpu'[c] = cpu[c],
         cpu[d].pc \notin {"chk", "wake"}, cpu'[d].pc \notin {"chk", "wake"},
         ppool' = ppool, \A p \in P : next'[p] = next[p], lockup' = lockup,
         \A e \in Devs : up'[e] /\ stopped'[e] => (up[e] /\ stopped[e]) \/ lockup
  PROVE  Restarts(P)'
<1>1. \A c, e \in Devs : Returns(c, e)' <=> Returns(c, e)
  BY DEF Returns
<1>2. \A c, e \in Devs : Returns(c, e) => cpu'[c] = cpu[c]
  BY DEF Returns
<1> HIDE DEF Returns
<1>3. ASSUME NEW e \in Devs, Returns(e, e)' PROVE cpu'[e].pkt \in P
  BY <1>1, <1>2, <1>3 DEF Restarts
<1>4. ASSUME NEW e \in Devs, up'[e], stopped'[e], ppool'[e] # NULL, ~lockup
      PROVE  \E c \in Devs : /\ Returns(c, e)'
                             /\ \/ cpu'[c].pc = "wake"
                                \/ cpu'[c].pkt \in P /\ next'[cpu'[c].pkt] = NULL
  <2>1. PICK c \in Devs : /\ Returns(c, e)
                          /\ \/ cpu[c].pc = "wake"
                             \/ cpu[c].pkt \in P /\ next[cpu[c].pkt] = NULL
    BY <1>4 DEF Restarts
  <2>2. QED  BY <1>1, <1>2, <2>1
<1>5. QED  BY <1>3, <1>4 DEF Restarts

LEMMA RestartsTx ==
  ASSUME TypeOK, Control, NEW P \in SUBSET Packet, Restarts(P), NEW d \in Devs, Tx(d),
         NEW p, p = ppool[d], p \in P, p[1] = d
  PROVE  Restarts(P \ {p})'
<1>1. /\ next' = next /\ up' = up /\ lockup' = lockup
      /\ \A c \in Devs \ {d} : /\ cpu'[c] = cpu[c] /\ stopped'[c] = stopped[c]
                                /\ ppool'[c] = ppool[c]
      /\ cpu'[d].pc = "enq" /\ cpu[d].pc = "idle"
      /\ stopped'[d] => ppool'[d] = NULL
  BY DEF Tx, param, At, LastTaken, TypeOK, Context
<1>2. \A c, e \in Devs : Returns(c, e)' <=> Returns(c, e)
  BY <1>1 DEF Returns
<1>3. \A c, e \in Devs : Returns(c, e) => cpu'[c] = cpu[c] /\ cpu[c].pkt[1] = e
  BY <1>1 DEF Returns
<1> HIDE DEF Returns
<1>4. ASSUME NEW e \in Devs, Returns(e, e)' PROVE cpu'[e].pkt \in P \ {p}
  <2>1. e # d
    BY <1>1, <1>2, <1>4 DEF Returns
  <2>2. QED  BY <1>2, <1>3, <1>4, <2>1 DEF Restarts
<1>5. ASSUME NEW e \in Devs, up'[e], stopped'[e], ppool'[e] # NULL, ~lockup
      PROVE  \E c \in Devs : /\ Returns(c, e)'
                             /\ \/ cpu'[c].pc = "wake"
                                \/ cpu'[c].pkt \in P \ {p} /\ next'[cpu'[c].pkt] = NULL
  <2>0. e # d
    BY <1>1, <1>5
  <2>1. PICK c \in Devs : /\ Returns(c, e)
                          /\ \/ cpu[c].pc = "wake"
                             \/ cpu[c].pkt \in P /\ next[cpu[c].pkt] = NULL
    BY <1>1, <1>5, <2>0 DEF Restarts
  <2>2. QED  BY <1>1, <1>2, <1>3, <2>0, <2>1
<1>6. QED  BY <1>1, <1>4, <1>5 DEF Restarts

\* The first packet returned to an empty pool has the NULL link that
\* snull_release_buffer tests after the unlock.
LEMMA RestartsRelease ==
  ASSUME TypeOK, NEW P \in SUBSET Packet, Restarts(P), NEW d \in Devs,
         ReleaseBuffer(d), NEW p \in Packet, p = cpu[d].pkt, p \notin P
  PROVE  Restarts(P \cup {p})'
<1>1. /\ up' = up /\ lockup' = lockup /\ stopped' = stopped
      /\ \A c \in Devs \ {d} : cpu'[c] = cpu[c]
      /\ \A c \in Devs \ {p[1]} : ppool'[c] = ppool[c]
      /\ cpu'[d].pc = "chk" /\ cpu[d].pc = "rel" /\ cpu'[d].pkt = p
      /\ next'[p] = ppool[p[1]] /\ \A q \in P : next'[q] = next[q]
  BY DEF ReleaseBuffer, param, At, Goto, TypeOK, Context
<1>2. \A c, e \in Devs : Returns(c, e)' <=> Returns(c, e) \/ (c = d /\ e = p[1])
  BY <1>1 DEF Returns
<1>3. \A c, e \in Devs : Returns(c, e) => cpu'[c] = cpu[c]
  BY <1>1 DEF Returns
<1> HIDE DEF Returns
<1>4. ASSUME NEW e \in Devs, Returns(e, e)' PROVE cpu'[e].pkt \in P \cup {p}
  BY <1>1, <1>2, <1>3, <1>4 DEF Restarts
<1>5. ASSUME NEW e \in Devs, up'[e], stopped'[e], ppool'[e] # NULL, ~lockup
      PROVE  \E c \in Devs : /\ Returns(c, e)'
                             /\ \/ cpu'[c].pc = "wake"
                                \/ cpu'[c].pkt \in P \cup {p} /\ next'[cpu'[c].pkt] = NULL
  <2>1. CASE ppool[e] = NULL
    BY <1>1, <1>2, <1>5, <2>1
  <2>2. CASE ppool[e] # NULL
    <3>1. PICK c \in Devs : /\ Returns(c, e)
                            /\ \/ cpu[c].pc = "wake"
                               \/ cpu[c].pkt \in P /\ next[cpu[c].pkt] = NULL
      BY <1>1, <1>5, <2>2 DEF Restarts
    <3>2. QED  BY <1>1, <1>2, <1>3, <3>1
  <2>3. QED  BY <2>1, <2>2
<1>6. QED  BY <1>1, <1>4, <1>5 DEF Restarts

LEMMA RestartsCheck ==
  ASSUME TypeOK, NEW P \in SUBSET Packet, Restarts(P), NEW d \in Devs, ReleaseCheck(d)
  PROVE  Restarts(P)'
<1>1. /\ up' = up /\ lockup' = lockup /\ stopped' = stopped /\ ppool' = ppool
      /\ next' = next /\ \A c \in Devs \ {d} : cpu'[c] = cpu[c]
      /\ cpu[d].pc = "chk"
  BY DEF ReleaseCheck, param, lists, At, Goto, Return, TypeOK
<1>2. \/ cpu'[d].pc = "wake" /\ cpu'[d].pkt = cpu[d].pkt
      \/ cpu'[d].pc \notin {"chk", "wake"} /\ ~WakeDue(cpu[d].pkt)
  BY DEF ReleaseCheck, Goto, Return, Idle, TypeOK, Context
<1>3. ASSUME NEW e \in Devs, Returns(e, e)' PROVE cpu'[e].pkt \in P
  BY <1>1, <1>2, <1>3 DEF Restarts, Returns
<1>4. ASSUME NEW e \in Devs, up'[e], stopped'[e], ppool'[e] # NULL, ~lockup
      PROVE  \E c \in Devs : /\ Returns(c, e)'
                             /\ \/ cpu'[c].pc = "wake"
                                \/ cpu'[c].pkt \in P /\ next'[cpu'[c].pkt] = NULL
  <2>1. PICK c \in Devs : /\ Returns(c, e)
                          /\ \/ cpu[c].pc = "wake"
                             \/ cpu[c].pkt \in P /\ next[cpu[c].pkt] = NULL
    BY <1>1, <1>4 DEF Restarts
  <2>2. CASE c = d
    BY <1>1, <1>2, <1>4, <2>1, <2>2 DEF Returns, WakeDue
  <2>3. CASE c # d
    BY <1>1, <2>1, <2>3 DEF Returns
  <2>4. QED  BY <2>2, <2>3
<1>5. QED  BY <1>1, <1>3, <1>4 DEF Restarts

LEMMA RestartsWake ==
  ASSUME TypeOK, NEW P \in SUBSET Packet, Restarts(P), NEW d \in Devs, ReleaseWake(d)
  PROVE  Restarts(P)'
<1>1. /\ up' = up /\ lockup' = lockup /\ ppool' = ppool
      /\ next' = next /\ \A c \in Devs \ {d} : cpu'[c] = cpu[c]
      /\ cpu[d].pc = "wake" /\ cpu'[d].pc \notin {"chk", "wake"}
      /\ \A e \in Devs : stopped'[e] => stopped[e] /\ cpu[d].pkt[1] # e
  BY DEF ReleaseWake, param, lists, At, Return, Idle, TypeOK, Context
<1>2. ASSUME NEW e \in Devs, Returns(e, e)' PROVE cpu'[e].pkt \in P
  BY <1>1, <1>2 DEF Restarts, Returns
<1>3. ASSUME NEW e \in Devs, up'[e], stopped'[e], ppool'[e] # NULL, ~lockup
      PROVE  \E c \in Devs : /\ Returns(c, e)'
                             /\ \/ cpu'[c].pc = "wake"
                                \/ cpu'[c].pkt \in P /\ next'[cpu'[c].pkt] = NULL
  <2>1. PICK c \in Devs : /\ Returns(c, e)
                          /\ \/ cpu[c].pc = "wake"
                             \/ cpu[c].pkt \in P /\ next[cpu[c].pkt] = NULL
    BY <1>1, <1>3 DEF Restarts
  <2>2. QED  BY <1>1, <1>3, <2>1 DEF Returns
<1>4. QED  BY <1>1, <1>2, <1>3 DEF Restarts

----------------------------------------------------------------------------
(* Each step, one part of the invariant at a time *)

LEMMA GhostStep ==
  ASSUME TypeOK, Control, NEW P \in SUBSET Packet, NEW W \in SUBSET Packet,
         Places(P, W), Restarts(P), NEW d \in Devs,
         \/ Open(d) \/ Release(d) \/ TxTimeout(d) \/ Tx(d) \/ TxNoBuffer(d)
         \/ Driver(d) \/ NapiPoll(d)
  PROVE  \E P2, W2 \in SUBSET Packet : Places(P2, W2)' /\ Restarts(P2)'
<1> DEFINE rx == RxDue(cpu[d].reg) /\ ~use_napi /\ rx_queue[cpu[d].dev] # NULL
<1>1. CASE Tx(d)
  <2>1. PICK p : p = ppool[d]
    OBVIOUS
  <2>2. p \in P /\ p[1] = d /\ Places(P \ {p}, W)'
    BY <1>1, <2>1, PlacesTx
  <2>3. Restarts(P \ {p})'
    BY <1>1, <2>1, <2>2, RestartsTx
  <2>4. QED  BY <2>2, <2>3
<1>2. CASE EnqueueBuf(d)
  <2>1. PICK p : p = cpu[d].pkt
    OBVIOUS
  <2>2. p \in Packet /\ p \notin P /\ Places(P, W \cup {p})'
    BY <1>2, <2>1, PlacesEnqueue
  <2>3. /\ \A c \in Devs \ {d} : cpu'[c] = cpu[c]
        /\ cpu[d].pc = "enq" /\ cpu'[d].pc = "or"
        /\ ppool' = ppool /\ \A q \in P : next'[q] = next[q]
        /\ lockup' = lockup /\ up' = up /\ stopped' = stopped
    BY <1>2, <2>1, <2>2 DEF EnqueueBuf, At, param, TypeOK, Context
  <2>4. Restarts(P)'
    BY <2>3, RestartsSame
  <2>5. QED  BY <2>2, <2>4
<1>3. CASE IsrAck(d) /\ rx
  <2>1. PICK e \in Devs : e = cpu[d].dev
    BY DEF TypeOK, Context
  <2>2. PICK p : p = rx_queue[e]
    OBVIOUS
  <2>3. Places(P, W \ {p})'
    BY <1>3, <2>1, <2>2, PlacesRx
  <2>4. /\ \A c \in Devs \ {d} : cpu'[c] = cpu[c]
        /\ cpu[d].pc = "ack" /\ cpu'[d].pc = "rel"
        /\ ppool' = ppool /\ next' = next
        /\ lockup' = lockup /\ up' = up /\ stopped' = stopped
    BY <1>3 DEF IsrAck, At, param, TypeOK, Context
  <2>5. Restarts(P)'
    BY <2>4, RestartsSame
  <2>6. QED  BY <2>3, <2>5
<1>4. CASE ReleaseBuffer(d)
  <2>1. PICK p : p = cpu[d].pkt
    OBVIOUS
  <2>2. p \in Packet /\ p \notin P /\ Places(P \cup {p}, W)'
    BY <1>4, <2>1, PlacesRelease
  <2>3. Restarts(P \cup {p})'
    BY <1>4, <2>1, <2>2, RestartsRelease
  <2>4. QED  BY <2>2, <2>3
<1>5. CASE ReleaseCheck(d)
  BY <1>5, PlacesOther, RestartsCheck
<1>6. CASE ReleaseWake(d)
  BY <1>6, PlacesOther, RestartsWake
<1>7. CASE \/ Open(d) \/ Release(d) \/ TxTimeout(d) \/ TxTimeoutWake(d) \/ TxNoBuffer(d)
           \/ StatusRead(d) \/ StatusWrite(d) \/ IsrEnter(d) \/ NapiPoll(d)
           \/ IsrAck(d) /\ ~rx
  <2>1. UNCHANGED lists /\ Places(P, W)'
    BY <1>7, PlacesOther
  <2>2. lockup' = lockup
    BY <1>7 DEF Open, Release, TxTimeout, TxTimeoutWake, TxNoBuffer, StatusRead,
                StatusWrite, IsrEnter, NapiPoll, IsrAck, param
  <2> USE DEF At, Return, Idle
  <2> DEFINE Quiet ==
        \/ cpu' = cpu
        \/ /\ \A c \in Devs \ {d} : cpu'[c] = cpu[c]
           /\ cpu[d].pc \notin {"chk", "wake"} /\ cpu'[d].pc \notin {"chk", "wake"}
      Start == \A e \in Devs : up'[e] /\ stopped'[e] => (up[e] /\ stopped[e]) \/ lockup
  <2>3. Quiet /\ Start
    <3>1. CASE Open(d) \/ Release(d)
      BY <3>1 DEF Open, Release, TypeOK
    <3>2. CASE TxNoBuffer(d) \/ NapiPoll(d)
      BY <3>2 DEF TxNoBuffer, NapiPoll
    <3>3. CASE TxTimeout(d)
      BY <3>3 DEF TxTimeout, TypeOK, Context
    <3>4. CASE TxTimeoutWake(d)
      BY <3>4 DEF TxTimeoutWake, TypeOK, Context
    <3>5. CASE StatusRead(d) \/ IsrEnter(d)
      BY <3>5 DEF StatusRead, IsrEnter, TypeOK, Context
    <3>6. CASE StatusWrite(d)
      BY <3>6 DEF StatusWrite, TypeOK, Context
    <3>7. CASE IsrAck(d)
      BY <3>7 DEF IsrAck, TypeOK, Context
    <3>8. QED  BY <1>7, <3>1, <3>2, <3>3, <3>4, <3>5, <3>6, <3>7
  <2>4. CASE cpu' = cpu
    <3>1. /\ ppool' = ppool /\ next' = next
          /\ \A c, e \in Devs : Returns(c, e)' <=> Returns(c, e)
      BY <2>1, <2>4 DEF lists, Returns
    <3>2. Restarts(P)'
      BY <2>2, <2>3, <2>4, <3>1 DEF Restarts
    <3>3. QED  BY <2>1, <3>2
  <2>5. CASE cpu' # cpu
    <3>1. Restarts(P)'
      BY <2>1, <2>2, <2>3, <2>5, RestartsSame DEF lists
    <3>2. QED  BY <2>1, <3>1
  <2>6. QED  BY <2>1, <2>4, <2>5
<1>8. QED
  BY <1>1, <1>2, <1>3, <1>4, <1>5, <1>6, <1>7 DEF Driver

LEMMA ControlStep ==
  ASSUME TypeOK, Control, NEW P \in SUBSET Packet, NEW W \in SUBSET Packet,
         Places(P, W), NEW d \in Devs,
         \/ Open(d) \/ Release(d) \/ TxTimeout(d) \/ Tx(d) \/ TxNoBuffer(d)
         \/ Driver(d) \/ NapiPoll(d)
  PROVE  Control'
<1>h. \A e \in Devs :
        /\ ppool[e] # NULL => ppool[e] \in Packet /\ ppool[e][1] = e
        /\ rx_queue[e] # NULL => rx_queue[e] \in Packet /\ rx_queue[e][1] = Twin(e)
  BY Heads DEF Of
<1>y. /\ cpu \in [Devs -> Context] /\ up \in [Devs -> BOOLEAN]
      /\ lock \in [Devs -> Devs \cup {NULL}]
      /\ rx_int_enabled \in [Devs -> BOOLEAN] /\ next \in [Packet -> Link]
  BY DEF TypeOK
<1> USE <1>y DEF At, Goto, Free, Return, Idle, param, Control, Context
<1>1. CASE Open(d) \/ Release(d)
  <2>1. /\ UNCHANGED <<cpu, lock, use_napi, rx_int_enabled>>
        /\ \A c \in Devs : ~up'[c] => ~up[c] \/ cpu[c].pc = "idle"
    BY <1>1, SMTT(30) DEF Open, Release
  <2>2. QED  BY <2>1, SMTT(30)
<1>2. CASE TxNoBuffer(d) \/ NapiPoll(d)
  BY <1>2 DEF TxNoBuffer, NapiPoll
<1>3. CASE TxTimeout(d)
  BY <1>3 DEF TxTimeout
<1>4. CASE TxTimeoutWake(d)
  BY <1>4 DEF TxTimeoutWake
<1>5. CASE Tx(d)
  BY <1>5, <1>h DEF Tx
<1>6. CASE EnqueueBuf(d)
  BY <1>6, TwinIs DEF EnqueueBuf
<1>7. CASE StatusRead(d)
  <2>1. /\ \A c \in Devs \ {d} : cpu'[c] = cpu[c]
        /\ cpu[d].pc = "or" /\ up[d]
        /\ UNCHANGED <<use_napi, lock, up, rx_int_enabled>>
    BY <1>7 DEF StatusRead
  <2>2. cpu'[d].pc = "orw"
    BY <1>7 DEF StatusRead
  <2>3. ASSUME NEW c \in Devs
        PROVE  /\ cpu'[c].pc \in {"idle", "enq", "tmo"} => cpu'[c].dev = c
               /\ cpu'[c].pc = "enq" => cpu'[c].pkt \in Packet /\ cpu'[c].pkt[1] = c
               /\ cpu'[c].pc \in {"rel", "chk", "wake"} =>
                    /\ cpu'[c].pkt \in Packet /\ cpu'[c].pkt[1] = Twin(cpu'[c].dev)
                    /\ ~use_napi'
               /\ ~up'[c] => cpu'[c].pc = "idle"
               /\ \A e \in Devs : lock'[e] = c <=> cpu'[c].pc = "ack" /\ cpu'[c].dev = e
    <3>1. CASE c = d
      BY <2>1, <2>2, <3>1
    <3>2. CASE c # d
      BY <2>1, <3>2
    <3>3. QED  BY <3>1, <3>2
  <2>4. QED  BY <2>1, <2>3
<1>8. CASE StatusWrite(d)
  <2>1. /\ \A c \in Devs \ {d} : cpu'[c] = cpu[c]
        /\ cpu[d].pc = "orw" /\ up[d]
        /\ UNCHANGED <<use_napi, lock, up, rx_int_enabled>>
    BY <1>8 DEF StatusWrite
  <2>2. cpu'[d].pc = "isr" \/ (cpu'[d].pc = "idle" /\ cpu'[d].dev = d)
    BY <1>8 DEF StatusWrite
  <2>3. QED  BY <2>1, <2>2, SMTT(30)
<1>9. CASE IsrEnter(d)
  BY <1>9, SnullAssumption DEF IsrEnter
<1>10. CASE IsrAck(d)
  BY <1>10, <1>h, SnullAssumption DEF IsrAck
<1>11. CASE ReleaseBuffer(d)
  BY <1>11 DEF ReleaseBuffer
<1>12. CASE ReleaseCheck(d)
  <2>1. /\ \A c \in Devs \ {d} : cpu'[c] = cpu[c]
        /\ cpu[d].pc = "chk" /\ up[d]
        /\ UNCHANGED <<use_napi, lock, up, rx_int_enabled>>
    BY <1>12 DEF ReleaseCheck
  <2>2. \/ cpu'[d].pc = "wake" /\ cpu'[d].pkt = cpu[d].pkt /\ cpu'[d].dev = cpu[d].dev
        \/ cpu'[d].pc = "or"
        \/ cpu'[d].pc \in {"tmo", "idle"} /\ cpu'[d].dev = d
    BY <1>12 DEF ReleaseCheck
  <2>3. QED  BY <2>1, <2>2
<1>13. CASE ReleaseWake(d)
  BY <1>13 DEF ReleaseWake
<1>14. QED
  BY <1>1, <1>2, <1>3, <1>4, <1>5, <1>6, <1>7, <1>8, <1>9, <1>10, <1>11, <1>12,
     <1>13 DEF Driver

LEMMA FilledStep ==
  ASSUME TypeOK, Control, NEW P \in SUBSET Packet, NEW W \in SUBSET Packet,
         Places(P, W), Restarts(P), \A e \in Devs : Filled(e), NEW d \in Devs,
         \/ Open(d) \/ Release(d) \/ TxTimeout(d) \/ Tx(d) \/ TxNoBuffer(d)
         \/ Driver(d) \/ NapiPoll(d)
  PROVE  \A e \in Devs : Filled(e)'
<1>t. PICK t \in Devs : /\ t # d /\ Twin(d) = t /\ Twin(t) = d
                        /\ \A e \in Devs : e = d \/ e = t
  BY TwinIs
<1>h. /\ \A e \in Devs : ppool[e] # NULL => ppool[e] \in P
      /\ \A e \in Devs : Returns(e, e) => ppool[e] # NULL
      /\ \A p \in P : ~Moves(d, p)
  <2>1. \A e \in Devs : IF Of(e, P) = {} THEN ppool[e] = NULL ELSE ppool[e] \in Of(e, P)
    BY Heads
  <2>2. \A e \in Devs : Returns(e, e) => cpu[e].pkt \in Of(e, P)
    BY DEF Restarts, Returns, Of
  <2>3. \A p \in P : ~Moves(d, p)
    BY DEF Places
  <2>4. \A e \in Devs : ppool[e] # NULL => ppool[e] \in P
    BY <2>1 DEF Of
  <2>5. \A e \in Devs : Returns(e, e) => ppool[e] # NULL
    <3>1. \A e \in Devs : NULL \notin Of(e, P)
      BY PacketFinite DEF Of
    <3>2. QED  BY <2>1, <2>2, <3>1
  <2>6. QED  BY <2>3, <2>4, <2>5
<1> SUFFICES Filled(d)' /\ Filled(t)'
  BY <1>t
<1> USE DEF At, Goto, Free, Return, Idle, param, lists, history, TypeOK, Context
<1>1. CASE Open(d)
  <2>1. Filled(d)'
    BY <1>1, <1>t, <1>h DEF Open, Filled, Returns, Two, InFlight, Control, Returning,
                            Moves
  <2>2. Filled(t)'
    BY <1>1, <1>t, <1>h DEF Open, Filled, Returns, Two, InFlight, Control, Returning,
                            Moves
  <2>3. QED  BY <2>1, <2>2
<1>2. CASE Release(d)
  <2>1. Filled(d)'
    BY <1>2, <1>t, <1>h DEF Release, Filled, Returns, Two, InFlight, Control,
                            Returning, Moves
  <2>2. Filled(t)'
    BY <1>2, <1>t, <1>h DEF Release, Filled, Returns, Two, InFlight, Control,
                            Returning, Moves
  <2>3. QED  BY <2>1, <2>2
<1>3. CASE TxTimeout(d)
  <2>1. Filled(d)'
    BY <1>3, <1>t, <1>h DEF TxTimeout, Filled, Returns, Two, InFlight, Control,
                            Returning, Moves
  <2>2. Filled(t)'
    BY <1>3, <1>t, <1>h DEF TxTimeout, Filled, Returns, Two, InFlight, Control,
                            Returning, Moves
  <2>3. QED  BY <2>1, <2>2
<1>4. CASE TxTimeoutWake(d)
  <2>1. Filled(d)'
    BY <1>4, <1>t, <1>h DEF TxTimeoutWake, Filled, Returns, Two, InFlight, Control,
                            Returning, Moves
  <2>2. Filled(t)'
    BY <1>4, <1>t, <1>h DEF TxTimeoutWake, Filled, Returns, Two, InFlight, Control,
                            Returning, Moves
  <2>3. QED  BY <2>1, <2>2
<1>5. CASE Tx(d)
  <2>1. Filled(d)'
    BY <1>5, <1>t, <1>h DEF Tx, LastTaken, Filled, Returns, Two, InFlight, Control,
                            Returning, Moves
  <2>2. Filled(t)'
    BY <1>5, <1>t, <1>h DEF Tx, LastTaken, Filled, Returns, Two, InFlight, Control,
                            Returning, Moves
  <2>3. QED  BY <2>1, <2>2
<1>6. CASE TxNoBuffer(d)
  <2>1. Filled(d)'
    BY <1>6, <1>t, <1>h DEF TxNoBuffer, Filled, Returns, Two, InFlight, Control,
                            Returning, Moves
  <2>2. Filled(t)'
    BY <1>6, <1>t, <1>h DEF TxNoBuffer, Filled, Returns, Two, InFlight, Control,
                            Returning, Moves
  <2>3. QED  BY <2>1, <2>2
<1>7. CASE EnqueueBuf(d)
  <2>1. Filled(d)'
    BY <1>7, <1>t, <1>h DEF EnqueueBuf, Filled, Returns, Two, InFlight, Control,
                            Returning, Moves
  <2>2. Filled(t)'
    BY <1>7, <1>t, <1>h DEF EnqueueBuf, Filled, Returns, Two, InFlight, Control,
                            Returning, Moves
  <2>3. QED  BY <2>1, <2>2
<1>8. CASE StatusRead(d)
  <2>1. Filled(d)'
    BY <1>8, <1>t, <1>h DEF StatusRead, Filled, Returns, Two, InFlight, Control,
                            Returning, Moves
  <2>2. Filled(t)'
    BY <1>8, <1>t, <1>h DEF StatusRead, Filled, Returns, Two, InFlight, Control,
                            Returning, Moves
  <2>3. QED  BY <2>1, <2>2
<1>9. CASE StatusWrite(d)
  <2>1. Filled(d)'
    BY <1>9, <1>t, <1>h DEF StatusWrite, Filled, Returns, Two, InFlight, Control,
                            Returning, Moves
  <2>2. Filled(t)'
    BY <1>9, <1>t, <1>h DEF StatusWrite, Filled, Returns, Two, InFlight, Control,
                            Returning, Moves
  <2>3. QED  BY <2>1, <2>2
<1>10. CASE IsrEnter(d)
  <2>1. Filled(d)'
    BY <1>10, <1>t, <1>h, SMTT(80) DEF IsrEnter, Filled, Returns, Two, InFlight, Control,
                             Returning, Moves
  <2>2. Filled(t)'
    BY <1>10, <1>t, <1>h, SMTT(80) DEF IsrEnter, Filled, Returns, Two, InFlight, Control,
                             Returning, Moves
  <2>3. QED  BY <2>1, <2>2
<1>11. CASE IsrAck(d)
  <2>1. /\ cpu'[t] = cpu[t] /\ cpu[d].pc = "ack" /\ cpu[d].dev \in Devs
        /\ UNCHANGED <<up, stopped, forced, ppool, next>>
    BY <1>11, <1>t DEF IsrAck
  <2>2. \/ cpu'[d].pc = "rel" /\ cpu'[d].dev = cpu[d].dev
        \/ /\ cpu'[d].pc \notin {"chk", "wake"} /\ cpu'[d].dev = d
           /\ ~("RX" \in cpu[d].reg /\ ~use_napi /\ rx_queue[cpu[d].dev] # NULL)
    BY <1>11 DEF IsrAck, RxDue
  <2>3. Filled(d)'
    <3>1. Two(d)' = Two(d) /\ ~Returns(d, d)' /\ Returns(t, d)' = Returns(t, d)
      BY <2>1, <2>2 DEF Two, Returns
    <3>2. InFlight(d) /\ Returns(t, d) => InFlight(d)'
      BY <1>t, <2>1, <2>2 DEF InFlight, Returns, Control
    <3>3. Filled(d)
      OBVIOUS
    <3> HIDE DEF TypeOK, Context
    <3>4. QED  BY <1>t, <2>1, <3>1, <3>2, <3>3 DEF Filled
  <2>4. Filled(t)'
    BY <1>t, <2>1, <2>2 DEF Filled, Returns, Two
  <2>5. QED  BY <2>3, <2>4
<1>12. CASE ReleaseBuffer(d)
  <2> DEFINE p == cpu[d].pkt
  <2>1. /\ p \in Packet /\ p # NULL /\ p[1] \in Devs /\ p \notin P
        /\ cpu[d].dev \in Devs /\ p[1] = Twin(cpu[d].dev)
        /\ cpu[d].pc = "rel" /\ cpu'[d].pc = "chk" /\ cpu'[d].pkt = p
        /\ cpu'[d].dev = cpu[d].dev /\ cpu'[t] = cpu[t]
    BY <1>12, <1>t, <1>h, PacketFinite DEF ReleaseBuffer, Control, Moves, Packet
  <2> HIDE DEF p
  <2>2. /\ UNCHANGED <<up, stopped, forced, rx_queue, status>>
        /\ \A e \in Devs : ppool'[e] = IF e = p[1] THEN p ELSE ppool[e]
        /\ next'[p] = ppool[p[1]] /\ \A q \in P : next'[q] = next[q]
    BY <1>12, <2>1 DEF ReleaseBuffer, p
  <2>3. \A e \in Devs : /\ Two(e) => Two(e)'
                        /\ ppool[e] # NULL => ppool'[e] # NULL
                        /\ e = p[1] => ppool'[e] # NULL
                        /\ e = p[1] /\ ppool[e] # NULL => Two(e)'
    BY <1>h, <2>1, <2>2 DEF Two
  <2>4. Filled(d)'
    <3>1. CASE cpu[d].dev = d
      <4>1. ~InFlight(d) /\ ~Returns(d, d)'
        BY <1>t, <2>1, <3>1 DEF Returns, InFlight
      <4>2. Returns(t, d)' = Returns(t, d)
        BY <2>1 DEF Returns
      <4>3. Filled(d)
        OBVIOUS
      <4> HIDE DEF TypeOK, Context
      <4>4. QED  BY <1>t, <2>2, <2>3, <4>1, <4>2, <4>3 DEF Filled
    <3>2. CASE cpu[d].dev = t
      BY <1>t, <2>1, <2>2, <2>3, <3>2 DEF Filled, Returns
    <3>3. QED  BY <1>t, <2>1, <3>1, <3>2
  <2>5. Filled(t)'
    BY <1>t, <1>h, <2>1, <2>2, <2>3 DEF Filled, Returns, InFlight, Control
  <2>6. QED  BY <2>4, <2>5
<1>13. CASE ReleaseCheck(d)
  <2>1. /\ cpu'[t] = cpu[t] /\ cpu[d].pc = "chk"
        /\ UNCHANGED <<up, stopped, forced, ppool, rx_queue, next, status>>
    BY <1>13, <1>t DEF ReleaseCheck
  <2>2. \/ cpu'[d].pc = "wake" /\ cpu'[d].pkt = cpu[d].pkt /\ cpu'[d].dev = cpu[d].dev
        \/ cpu'[d].pc \notin {"chk", "wake"} /\ cpu'[d].dev = d
    BY <1>13 DEF ReleaseCheck
  <2>3. Filled(d)' /\ Filled(t)'
    BY <1>t, <1>h, <2>1, <2>2 DEF Filled, Returns, Two, InFlight
  <2>4. QED  BY <2>3
<1>14. CASE ReleaseWake(d)
  <2>1. Filled(d)'
    BY <1>14, <1>t, <1>h DEF ReleaseWake, Filled, Returns, Two, InFlight, Control,
                             Returning, Moves
  <2>2. Filled(t)'
    BY <1>14, <1>t, <1>h DEF ReleaseWake, Filled, Returns, Two, InFlight, Control,
                             Returning, Moves
  <2>3. QED  BY <2>1, <2>2
<1>15. CASE NapiPoll(d)
  <2>1. Filled(d)'
    BY <1>15, <1>t, <1>h DEF NapiPoll, Filled, Returns, Two, InFlight, Control,
                             Returning, Moves
  <2>2. Filled(t)'
    BY <1>15, <1>t, <1>h DEF NapiPoll, Filled, Returns, Two, InFlight, Control,
                             Returning, Moves
  <2>3. QED  BY <2>1, <2>2
<1>16. QED
  BY <1>1, <1>2, <1>3, <1>4, <1>5, <1>6, <1>7, <1>8, <1>9, <1>10, <1>11, <1>12,
     <1>13, <1>14, <1>15 DEF Driver

LEMMA OnItsWayStep ==
  ASSUME TypeOK, Control, NEW P \in SUBSET Packet, NEW W \in SUBSET Packet, Places(P, W),
         \A e \in Devs : OnItsWay(e), NEW d \in Devs,
         \/ Open(d) \/ Release(d) \/ TxTimeout(d) \/ Tx(d) \/ TxNoBuffer(d)
         \/ Driver(d) \/ NapiPoll(d)
  PROVE  \A e \in Devs : OnItsWay(e)'
<1>t. PICK t \in Devs : /\ t # d /\ Twin(d) = t /\ Twin(t) = d
                        /\ \A e \in Devs : e = d \/ e = t
  BY TwinIs
<1>h. \A e \in Devs : rx_queue[e] # NULL => /\ rx_queue[e] \in Packet
                                          /\ ~Moves(d, rx_queue[e])
  BY Heads DEF Of, Places
<1> SUFFICES OnItsWay(d)' /\ OnItsWay(t)'
  BY <1>t
<1>y. /\ cpu \in [Devs -> Context] /\ status \in [Devs -> SUBSET Intr]
      /\ rx_queue \in [Devs -> Link] /\ next \in [Packet -> Link]
      /\ torn \in BOOLEAN /\ use_napi \in BOOLEAN
      /\ lock \in [Devs -> Devs \cup {NULL}]
  BY DEF TypeOK
<1> USE <1>y DEF At, Goto, Free, Return, Idle, param, lists, history, Context
<1>1. CASE Open(d)
  <2>1. OnItsWay(d)'
    BY <1>1, <1>t, <1>h DEF Open, OnItsWay, Control, Moves
  <2>2. OnItsWay(t)'
    BY <1>1, <1>t, <1>h DEF Open, OnItsWay, Control, Moves
  <2>3. QED  BY <2>1, <2>2
<1>2. CASE Release(d)
  <2>1. OnItsWay(d)'
    BY <1>2, <1>t, <1>h DEF Release, OnItsWay, Control, Moves
  <2>2. OnItsWay(t)'
    BY <1>2, <1>t, <1>h DEF Release, OnItsWay, Control, Moves
  <2>3. QED  BY <2>1, <2>2
<1>3. CASE TxTimeout(d)
  <2>1. OnItsWay(d)'
    BY <1>3, <1>t, <1>h DEF TypeOK, TxTimeout, OnItsWay, Control, Moves
  <2>2. OnItsWay(t)'
    BY <1>3, <1>t, <1>h DEF TxTimeout, OnItsWay, Control, Moves
  <2>3. QED  BY <2>1, <2>2
<1>4. CASE TxTimeoutWake(d)
  <2>1. OnItsWay(d)'
    BY <1>4, <1>t, <1>h DEF TxTimeoutWake, OnItsWay, Control, Moves
  <2>2. OnItsWay(t)'
    BY <1>4, <1>t, <1>h DEF TxTimeoutWake, OnItsWay, Control, Moves
  <2>3. QED  BY <2>1, <2>2
<1>5. CASE Tx(d)
  <2>1. OnItsWay(d)'
    BY <1>5, <1>t, <1>h DEF Tx, LastTaken, OnItsWay, Control, Moves
  <2>2. OnItsWay(t)'
    BY <1>5, <1>t, <1>h DEF Tx, LastTaken, OnItsWay, Control, Moves
  <2>3. QED  BY <2>1, <2>2
<1>6. CASE TxNoBuffer(d)
  <2>1. OnItsWay(d)'
    BY <1>6, <1>t, <1>h DEF TxNoBuffer, OnItsWay, Control, Moves
  <2>2. OnItsWay(t)'
    BY <1>6, <1>t, <1>h DEF TxNoBuffer, OnItsWay, Control, Moves
  <2>3. QED  BY <2>1, <2>2
<1>7. CASE EnqueueBuf(d)
  <2>1. OnItsWay(d)'
    BY <1>7, <1>t, <1>h DEF EnqueueBuf, OnItsWay, Control, Moves
  <2>2. OnItsWay(t)'
    BY <1>7, <1>t, <1>h DEF EnqueueBuf, OnItsWay, Control, Moves
  <2>3. QED  BY <2>1, <2>2
<1>8. CASE StatusRead(d)
  <2>1. OnItsWay(d)'
    BY <1>8, <1>t, <1>h DEF StatusRead, OnItsWay, Control, Moves
  <2>2. OnItsWay(t)'
    BY <1>8, <1>t, <1>h DEF StatusRead, OnItsWay, Control, Moves
  <2>3. QED  BY <2>1, <2>2
<1>9. CASE StatusWrite(d)
  <2>1. OnItsWay(d)'
    BY <1>9, <1>t, <1>h DEF TypeOK, StatusWrite, OnItsWay, Control, Moves
  <2>2. OnItsWay(t)'
    BY <1>9, <1>t, <1>h DEF StatusWrite, OnItsWay, Control, Moves
  <2>3. QED  BY <2>1, <2>2
<1>10. CASE IsrEnter(d)
  <2>1. OnItsWay(d)'
    BY <1>10, <1>t, <1>h DEF IsrEnter, OnItsWay, Control, Moves
  <2>2. OnItsWay(t)'
    BY <1>10, <1>t, <1>h DEF IsrEnter, OnItsWay, Control, Moves
  <2>3. QED  BY <2>1, <2>2
<1>11. CASE IsrAck(d)
  <2>1. OnItsWay(d)'
    BY <1>11, <1>t, <1>h
       DEF TypeOK, IsrAck, RxDue, Acked, Unlinked, OnItsWay, Control, Moves
  <2>2. OnItsWay(t)'
    BY <1>11, <1>t, <1>h, SMTT(30)
       DEF IsrAck, RxDue, Acked, Unlinked, OnItsWay, Control, Moves
  <2>3. QED  BY <2>1, <2>2
<1>12. CASE ReleaseBuffer(d)
  <2>1. /\ cpu[d].pc = "rel" /\ cpu'[t] = cpu[t] /\ cpu'[d].pc = "chk"
        /\ UNCHANGED <<rx_queue, status, torn, use_napi>>
        /\ \A e \in Devs : rx_queue[e] # NULL => next'[rx_queue[e]] = next[rx_queue[e]]
    BY <1>12, <1>t, <1>h DEF ReleaseBuffer, Moves
  <2> HIDE DEF Context, At, Goto, Free
  <2>2. OnItsWay(d)'
    BY <1>t, <2>1 DEF OnItsWay
  <2>3. torn \/ use_napi \/ rx_queue[t] = NULL
    BY <1>t, <2>1 DEF OnItsWay
  <2>4. OnItsWay(t)'
    BY <2>1, <2>3 DEF OnItsWay
  <2>5. QED  BY <2>2, <2>4
<1>13. CASE ReleaseCheck(d)
  <2>1. /\ cpu[d].pc = "chk" /\ cpu'[t] = cpu[t] /\ cpu'[d].pc # "ack"
        /\ UNCHANGED <<rx_queue, status, torn, use_napi, next>>
    BY <1>13, <1>t DEF ReleaseCheck
  <2> HIDE DEF Context, At, Goto, Return, Idle
  <2>2. OnItsWay(d)'
    BY <1>t, <2>1 DEF OnItsWay
  <2>3. torn \/ use_napi \/ rx_queue[t] = NULL
    BY <1>t, <2>1 DEF OnItsWay
  <2>4. OnItsWay(t)'
    BY <2>1, <2>3 DEF OnItsWay
  <2>5. QED  BY <2>2, <2>4
<1>14. CASE ReleaseWake(d)
  <2>1. OnItsWay(d)'
    BY <1>14, <1>t, <1>h DEF ReleaseWake, OnItsWay, Control, Moves
  <2>2. OnItsWay(t)'
    BY <1>14, <1>t, <1>h, SMTT(30) DEF ReleaseWake, OnItsWay, Control, Moves
  <2>3. QED  BY <2>1, <2>2
<1>15. CASE NapiPoll(d)
  <2>1. OnItsWay(d)'
    BY <1>15, <1>t, <1>h DEF NapiPoll, OnItsWay, Control, Moves
  <2>2. OnItsWay(t)'
    BY <1>15, <1>t, <1>h DEF NapiPoll, OnItsWay, Control, Moves
  <2>3. QED  BY <2>1, <2>2
<1>16. QED
  BY <1>1, <1>2, <1>3, <1>4, <1>5, <1>6, <1>7, <1>8, <1>9, <1>10, <1>11, <1>12,
     <1>13, <1>14, <1>15 DEF Driver


LEMMA HeldOnceStep ==
  ASSUME TypeOK, Control,
         \A e \in Devs : HeldOnce(e), NEW d \in Devs,
         \/ Open(d) \/ Release(d) \/ TxTimeout(d) \/ Tx(d) \/ TxNoBuffer(d)
         \/ Driver(d) \/ NapiPoll(d)
  PROVE  \A e \in Devs : HeldOnce(e)'
<1>t. PICK t \in Devs : /\ t # d /\ Twin(d) = t /\ Twin(t) = d
                        /\ \A e \in Devs : e = d \/ e = t
  BY TwinIs
<1> SUFFICES HeldOnce(d)' /\ HeldOnce(t)'
  BY <1>t
<1>y. /\ cpu \in [Devs -> Context] /\ status \in [Devs -> SUBSET Intr]
      /\ skb \in [Devs -> {"none", "held", "freed", "again", "twice"}]
      /\ torn \in BOOLEAN /\ lockup \in BOOLEAN
      /\ lock \in [Devs -> Devs \cup {NULL}]
  BY DEF TypeOK
<1> USE <1>y DEF At, Goto, Free, Return, Idle, param, lists, history, Context
<1>1. CASE Open(d)
  <2>1. HeldOnce(d)'
    BY <1>1, <1>t DEF Open, HeldOnce, Sending, Control
  <2>2. HeldOnce(t)'
    BY <1>1, <1>t DEF Open, HeldOnce, Sending, Control
  <2>3. QED  BY <2>1, <2>2
<1>2. CASE Release(d)
  <2>1. HeldOnce(d)'
    BY <1>2, <1>t DEF Release, HeldOnce, Sending, Control
  <2>2. HeldOnce(t)'
    BY <1>2, <1>t DEF Release, HeldOnce, Sending, Control
  <2>3. QED  BY <2>1, <2>2
<1>3. CASE TxTimeout(d)
  <2>1. HeldOnce(d)'
    BY <1>3, <1>t DEF TxTimeout, HeldOnce, Sending, Control
  <2>2. HeldOnce(t)'
    BY <1>3, <1>t DEF TxTimeout, HeldOnce, Sending, Control
  <2>3. QED  BY <2>1, <2>2
<1>4. CASE TxTimeoutWake(d)
  <2>1. HeldOnce(d)'
    BY <1>4, <1>t DEF TxTimeoutWake, HeldOnce, Sending, Control
  <2>2. HeldOnce(t)'
    BY <1>4, <1>t DEF TxTimeoutWake, HeldOnce, Sending, Control
  <2>3. QED  BY <2>1, <2>2
<1>5. CASE Tx(d)
  <2>1. HeldOnce(d)'
    BY <1>5, <1>t DEF Tx, LastTaken, HeldOnce, Sending, Control
  <2>2. HeldOnce(t)'
    BY <1>5, <1>t DEF Tx, LastTaken, HeldOnce, Sending, Control
  <2>3. QED  BY <2>1, <2>2
<1>6. CASE TxNoBuffer(d)
  <2>1. HeldOnce(d)'
    BY <1>6, <1>t DEF TxNoBuffer, HeldOnce, Sending, Control
  <2>2. HeldOnce(t)'
    BY <1>6, <1>t DEF TxNoBuffer, HeldOnce, Sending, Control
  <2>3. QED  BY <2>1, <2>2
<1>7. CASE EnqueueBuf(d)
  <2>1. HeldOnce(d)'
    BY <1>7, <1>t DEF EnqueueBuf, HeldOnce, Sending, Control
  <2>2. HeldOnce(t)'
    BY <1>7, <1>t DEF EnqueueBuf, HeldOnce, Sending, Control
  <2>3. QED  BY <2>1, <2>2
<1>8. CASE StatusRead(d)
  <2>1. HeldOnce(d)'
    BY <1>8, <1>t DEF StatusRead, HeldOnce, Sending, Control
  <2>2. HeldOnce(t)'
    BY <1>8, <1>t DEF StatusRead, HeldOnce, Sending, Control
  <2>3. QED  BY <2>1, <2>2
<1>9. CASE StatusWrite(d)
  <2>1. HeldOnce(d)'
    <3>1. /\ cpu'[t] = cpu[t] /\ cpu[d].pc = "orw" /\ cpu[d].dev \in Devs
          /\ skb' = skb /\ lockup' = lockup
      BY <1>9, <1>t DEF StatusWrite
    <3>5. ~torn' => ~torn /\ status[cpu[d].dev] = cpu[d].reg
      BY <1>9 DEF StatusWrite
    <3>6. ~lockup => cpu'[d].pc = "isr" /\ cpu'[d].dev = cpu[d].dev
      BY <1>9 DEF StatusWrite
    <3>2. CASE cpu[d].dev = d
      <4>1. ~torn' => status'[d] = status[d] \cup {"TX"}
        BY <1>9, <3>1, <3>2, <3>5 DEF StatusWrite
      <4>2. QED  BY <1>t, <3>1, <3>2, <3>5, <3>6, <4>1 DEF HeldOnce, Sending
    <3>3. CASE cpu[d].dev = t
      <4>1. status'[d] = status[d]
        BY <1>9, <1>t, <3>3 DEF StatusWrite
      <4>2. QED  BY <1>t, <3>1, <3>3, <3>5, <3>6, <4>1 DEF HeldOnce, Sending
    <3>4. QED  BY <1>t, <3>1, <3>2, <3>3
  <2>2. HeldOnce(t)'
    <3>1. /\ cpu'[t] = cpu[t] /\ cpu'[d].pc # "ack" /\ cpu[d].dev \in Devs
          /\ skb' = skb /\ lockup' = lockup /\ (torn => torn')
      BY <1>9, <1>t DEF StatusWrite
    <3>2. ~torn' => status'[t] \in {status[t], status[t] \cup {"RX"}}
      BY <1>9, <1>t, <3>1 DEF StatusWrite
    <3> HIDE DEF Context
    <3>3. QED  BY <1>t, <3>1, <3>2 DEF HeldOnce, Sending
  <2>3. QED  BY <2>1, <2>2
<1>10. CASE IsrEnter(d)
  <2>1. HeldOnce(d)'
    BY <1>10, <1>t DEF IsrEnter, HeldOnce, Sending, Control
  <2>2. HeldOnce(t)'
    BY <1>10, <1>t DEF IsrEnter, HeldOnce, Sending, Control
  <2>3. QED  BY <2>1, <2>2
<1>11. CASE IsrAck(d)
  <2>1. HeldOnce(d)'
    <3>1. /\ cpu'[t] = cpu[t] /\ cpu[d].pc = "ack" /\ cpu[d].dev \in Devs
          /\ lockup' = lockup /\ cpu'[d].pc # "ack"
      BY <1>11, <1>t DEF IsrAck
    <3>5. ~torn' => ~torn /\ status[cpu[d].dev] = cpu[d].reg
      BY <1>11 DEF IsrAck
    <3>2. CASE cpu[d].dev = d
      <4>1. /\ status'[d] = {}
            /\ skb'[d] = IF "TX" \in cpu[d].reg
                        THEN Freed(skb[d]) ELSE skb[d]
            /\ cpu'[d].pc \in {"rel", "idle", "tmo"} /\ cpu'[d].dev = d
        BY <1>11, <3>1, <3>2 DEF IsrAck, Acked
      <4>2. cpu[t].pc = "ack" => cpu[t].dev # d
        BY <1>t, <3>1, <3>2 DEF Control
      <4>3. QED  BY <1>t, <3>1, <3>2, <3>5, <4>1, <4>2, SMTT(40)
           DEF HeldOnce, Sending, Freed
    <3>3. CASE cpu[d].dev = t
      <4>1. /\ status'[d] = status[d] /\ skb'[d] = skb[d]
            /\ cpu'[d].pc = "or" \/ cpu'[d].dev # d
        BY <1>11, <1>t, <3>3 DEF IsrAck
      <4>2. Sending(d) /\ (~torn' => ~torn)
        BY <1>t, <3>3, <3>5 DEF Sending
      <4> HIDE DEF Context
      <4>3. QED  BY <1>t, <3>1, <4>1, <4>2 DEF HeldOnce
    <3>4. QED  BY <1>t, <3>1, <3>2, <3>3
  <2>2. HeldOnce(t)'
    BY <1>11, <1>t, SMTT(30)
       DEF IsrAck, RxDue, Acked, Unlinked, Freed, HeldOnce, Sending, Control
  <2>3. QED  BY <2>1, <2>2
<1>12. CASE ReleaseBuffer(d)
  <2>1. HeldOnce(d)'
    BY <1>12, <1>t DEF ReleaseBuffer, HeldOnce, Sending, Control
  <2>2. HeldOnce(t)'
    BY <1>12, <1>t DEF ReleaseBuffer, HeldOnce, Sending, Control
  <2>3. QED  BY <2>1, <2>2
<1>13. CASE ReleaseCheck(d)
  <2>1. HeldOnce(d)'
    BY <1>13, <1>t, SMTT(40) DEF ReleaseCheck, WakeDue, HeldOnce, Sending, Control
  <2>2. HeldOnce(t)'
    BY <1>13, <1>t, SMTT(40) DEF ReleaseCheck, WakeDue, HeldOnce, Sending, Control
  <2>3. QED  BY <2>1, <2>2
<1>14. CASE ReleaseWake(d)
  <2>1. HeldOnce(d)'
    BY <1>14, <1>t DEF ReleaseWake, HeldOnce, Sending, Control
  <2>2. HeldOnce(t)'
    BY <1>14, <1>t DEF ReleaseWake, HeldOnce, Sending, Control
  <2>3. QED  BY <2>1, <2>2
<1>15. CASE NapiPoll(d)
  <2>1. HeldOnce(d)'
    BY <1>15, <1>t DEF NapiPoll, HeldOnce, Sending, Control
  <2>2. HeldOnce(t)'
    BY <1>15, <1>t DEF NapiPoll, HeldOnce, Sending, Control
  <2>3. QED  BY <2>1, <2>2
<1>16. QED
  BY <1>1, <1>2, <1>3, <1>4, <1>5, <1>6, <1>7, <1>8, <1>9, <1>10, <1>11, <1>12,
     <1>13, <1>14, <1>15 DEF Driver

----------------------------------------------------------------------------
(* The invariant holds, and with it the properties *)

\* Initially every packet that was allocated is in the pool of its device, the
\* last one allocated in front.
LEMMA InvInit == Init => Inv
<1> SUFFICES ASSUME Init PROVE Inv
  OBVIOUS
<1>1. TypeOK
  BY TypeInit
<1>2. Control
  BY SnullAssumption DEF Init, Control, Idle
<1>3. ASSUME NEW d \in Devs PROVE List(ppool[d], next, Of(d, Owned))
  <2>1. PICK n \in Nat : n = allocated[d] /\ n \in 0..PoolSize
    BY SnullAssumption DEF Init
  <2> DEFINE s == [i \in 1..n |-> <<d, i>>]
             L == Of(d, Owned)
  <2>2. L = {<<d, i>> : i \in 1..n}
    <3>1. ASSUME NEW p \in L PROVE p \in {<<d, i>> : i \in 1..n}
      BY <2>1 DEF Of, Owned, Packet
    <3>2. ASSUME NEW i \in 1..n PROVE <<d, i>> \in L
      BY <2>1, SnullAssumption DEF Of, Owned, Packet
    <3>3. QED  BY <3>1, <3>2
  <2> HIDE DEF L
  <2>3. /\ s \in [1..n -> L]
        /\ \A i, j \in 1..n : s[i] = s[j] => i = j
        /\ \A p \in L : \E i \in 1..n : s[i] = p
    BY <2>1, <2>2
  <2>4. Cardinality(L) = n
    <3>1. s \in Bijection(1..n, L)
      <4> HIDE DEF s
      <4>1. QED  BY <2>3, Fun_IsBij
    <3>2. IsFiniteSet(1..n) /\ Cardinality(1..n) = IF 1 > n THEN 0 ELSE n - 1 + 1
      BY FS_Interval
    <3>3. Cardinality(1..n) = n
      BY <3>2
    <3> HIDE DEF s
    <3>4. QED  BY <3>1, <3>2, <3>3, FS_Bijection DEF ExistsBijection
  <2>5. ppool[d] = (IF n = 0 THEN NULL ELSE s[n])
    BY <2>1 DEF Init, PoolOf
  <2>6. \A i \in 1..n : next[s[i]] = IF i = 1 THEN NULL ELSE s[i - 1]
    <3>1. \A i \in 1..n : next[<<d, i>>] = IF i = 1 THEN NULL ELSE <<d, i - 1>>
      BY <2>1, SnullAssumption DEF Init, PoolOf, Packet
    <3>2. QED  BY <3>1
  <2> HIDE DEF s
  <2>7. List(ppool[d], next, L)
    BY <2>3, <2>4, <2>5, <2>6 DEF List
  <2>8. QED  BY <2>7 DEF L
<1>4. Places(Owned, {})
  <2>1. \A d \in Devs : Of(d, {}) = {}
    BY DEF Of
  <2>2. \A d \in Devs : List(rx_queue[Twin(d)], next, Of(d, {}))
    BY <2>1, ListEmpty, TwinIs DEF Init
  <2>3. \A c \in Devs : \A p : ~Moves(c, p)
    BY DEF Init, Idle, Moves
  <2>4. QED  BY <1>3, <2>2, <2>3 DEF Places
<1>5. Restarts(Owned)
  BY DEF Restarts, Returns, Init, Idle
<1>6. Owned \in SUBSET Packet /\ {} \in SUBSET Packet
  BY DEF Owned
<1>7. ASSUME NEW d \in Devs PROVE Filled(d) /\ OnItsWay(d) /\ HeldOnce(d)
  BY TwinIs DEF Init, Idle, Filled, OnItsWay, HeldOnce, Sending
<1>8. QED  BY <1>1, <1>2, <1>4, <1>5, <1>6, <1>7 DEF Inv

LEMMA InvStep == ASSUME Inv, [Next]_vars PROVE Inv'
<1>1. CASE UNCHANGED vars
  <2>1. TypeOK'
    BY <1>1, TypeStep DEF Inv
  <2>2. Control'
    BY <1>1 DEF vars, param, lists, history, Inv, Control
  <2>3. PICK P, W \in SUBSET Packet : Places(P, W) /\ Restarts(P)
    BY DEF Inv
  <2>4. Places(P, W)'
    BY <1>1, <2>3, PlacesSame DEF vars, param, lists, Moves
  <2>5. Restarts(P)'
    BY <1>1, <2>3 DEF vars, param, lists, Restarts, Returns
  <2>6. \A d \in Devs : Filled(d)'
    BY <1>1 DEF vars, param, lists, history, Inv, Filled, Returns, Two, InFlight
  <2>7. \A d \in Devs : OnItsWay(d)' /\ HeldOnce(d)'
    BY <1>1 DEF vars, param, lists, history, Inv, OnItsWay, HeldOnce, Sending
  <2>8. QED  BY <2>1, <2>2, <2>3, <2>4, <2>5, <2>6, <2>7 DEF Inv
<1>2. CASE Next
  <2>1. PICK d \in Devs : \/ Open(d) \/ Release(d) \/ TxTimeout(d) \/ Tx(d)
                          \/ TxNoBuffer(d) \/ Driver(d) \/ NapiPoll(d)
    BY <1>2 DEF Next
  <2>2. PICK P, W \in SUBSET Packet : Places(P, W) /\ Restarts(P)
    BY DEF Inv
  <2>3. TypeOK'
    BY TypeStep DEF Inv
  <2>4. Control'
    BY <2>1, <2>2, ControlStep DEF Inv
  <2>5. \E P2, W2 \in SUBSET Packet : Places(P2, W2)' /\ Restarts(P2)'
    BY <2>1, <2>2, GhostStep DEF Inv
  <2>6. \A e \in Devs : Filled(e)'
    BY <2>1, <2>2, FilledStep DEF Inv
  <2>7. \A e \in Devs : OnItsWay(e)'
    BY <2>1, <2>2, OnItsWayStep DEF Inv
  <2>8. \A e \in Devs : HeldOnce(e)'
    BY <2>1, HeldOnceStep DEF Inv
  <2>9. QED  BY <2>3, <2>4, <2>5, <2>6, <2>7, <2>8 DEF Inv
<1>3. QED  BY <1>1, <1>2

\* Every reachable state satisfies the inductive invariant.
THEOREM Invariance == Spec => []Inv
<1>1. QED  BY InvInit, InvStep, PTL DEF Spec

\* Every packet that snull_setup_pool allocated is in exactly one place, and both
\* lists end, for pools of any size.
THEOREM PacketsInOnePlace == Spec => []OnePlace
<1>1. Inv => OnePlace
  <2> SUFFICES ASSUME Inv PROVE OnePlace
    OBVIOUS
  <2>1. PICK P, W \in SUBSET Packet : Places(P, W)
    BY DEF Inv
  <2>2. ASSUME NEW d \in Devs
        PROVE  \E pool \in SUBSET Mine(d) :
                 /\ List(ppool[d], next, pool)
                 /\ \E wait \in SUBSET (Mine(d) \ pool) :
                      /\ List(rx_queue[Twin(d)], next, wait)
                      /\ \A p \in pool \cup wait : \A c \in Devs : ~Moves(c, p)
                      /\ \A p \in Mine(d) \ (pool \cup wait) :
                           /\ \E c \in Devs : Moves(c, p)
                           /\ \A b, c \in Devs : Moves(b, p) /\ Moves(c, p) => b = c
    <3>1. Mine(d) = Of(d, Owned)
      <4>1. allocated[d] \in 0..PoolSize /\ PoolSize \in Nat
        BY SnullAssumption DEF Inv, TypeOK
      <4>2. ASSUME NEW p \in Mine(d) PROVE p \in Of(d, Owned)
        BY <4>1 DEF Mine, Of, Owned, Packet
      <4>3. ASSUME NEW p \in Of(d, Owned) PROVE p \in Mine(d)
        BY <4>1 DEF Mine, Of, Owned, Packet
      <4>4. QED  BY <4>2, <4>3
    <3>2. Of(d, P) \in SUBSET Mine(d) /\ Of(d, W) \in SUBSET (Mine(d) \ Of(d, P))
      BY <2>1, <3>1 DEF Places, Of
    <3>3. List(ppool[d], next, Of(d, P)) /\ List(rx_queue[Twin(d)], next, Of(d, W))
      BY <2>1 DEF Places
    <3>4. \A p \in Of(d, P) \cup Of(d, W) : \A c \in Devs : ~Moves(c, p)
      BY <2>1 DEF Places, Of
    <3>5. \A p \in Mine(d) \ (Of(d, P) \cup Of(d, W)) :
             /\ \E c \in Devs : Moves(c, p)
             /\ \A b, c \in Devs : Moves(b, p) /\ Moves(c, p) => b = c
      BY <2>1, <3>1 DEF Places, Of, Owned
    <3>6. QED  BY <3>2, <3>3, <3>4, <3>5
  <2>3. QED  BY <2>2 DEF Inv, OnePlace
<1>2. QED  BY <1>1, Invariance, PTL

\* A stopped queue with packets in its pool is woken: the test of pkt->next after
\* the unlock does not miss the packet that filled the pool.
THEOREM WakesUp == Spec => []QueueRestarts
<1>1. Inv => QueueRestarts
  BY DEF Inv, Restarts, Returns, QueueRestarts, Returning
<1>2. QED  BY <1>1, Invariance, PTL

\* snull_get_tx_buffer finds an empty pool only after a forced start.
THEOREM NeverEmpty == Spec => []StoppedWhileEmpty
<1>1. Inv => StoppedWhileEmpty
  BY DEF Inv, Filled, StoppedWhileEmpty
<1>2. QED  BY <1>1, Invariance, PTL

\* Without NAPI, and while no update of a status word is lost, no packet is
\* stranded in rx_queue.
THEOREM NoneStranded == Spec => []Delivered
<1>1. Inv => Delivered
  BY DEF Inv, OnItsWay, Delivered
<1>2. QED  BY <1>1, Invariance, PTL

\* While no update of a status word is lost and no lockup is simulated, no skb is
\* freed twice.
THEOREM NoDoubleFree == Spec => []FreedOnce
<1>1. Inv => FreedOnce
  BY DEF Inv, HeldOnce, FreedOnce
<1>2. QED  BY <1>1, Invariance, PTL
=============================================================================
