----------------------------- MODULE SbullProofs -----------------------------
(***************************************************************************)
(* Sbull: the invalidation timer never meets a user, blocks are only found *)
(* where they belong, and a write that is reported complete is on the      *)
(* disk, for every number of processes and every size of disk and bio.     *)
(***************************************************************************)
EXTENDS Sbull, FiniteSetTheorems, TLAPS

Openers == {p \in Procs : pc[p] = "open"}
Inside  == {"sync", "check", "count"}

\* Types of the variables the argument is about.
Types ==
  /\ users \in Nat
  /\ timer \in {"off", "pending", "running"}
  /\ pc \in [Procs -> {"closed", "sync", "check", "count", "open"}]
  /\ media_change \in BOOLEAN
  /\ loaded \in BOOLEAN

\* users counts the processes that have the disk open, and bd_mutex lets one
\* process at a time into sbull_open.
Counted ==
  /\ users = Cardinality(Openers)
  /\ \A p \in Procs : pc[p] \in Inside <=> bd_mutex = p
  /\ ~loaded => \A p \in Procs : pc[p] = "closed"

\* The timer stays off from del_timer_sync to the last release.
Quiet ==
  /\ \A p \in Procs : /\ pc[p] \in {"check", "count"} => timer = "off"
                      /\ pc[p] = "count" => ~media_change
  /\ TimerIdleInUse

Inv == Types /\ Counted /\ Quiet

\* A disk without users is open nowhere, and one that is open has users.
LEMMA NoUsers ==
  ASSUME Types, Counted
  PROVE  /\ IsFiniteSet(Openers)
         /\ users = 0 <=> Openers = {}
<1>1. IsFiniteSet(Openers)
  BY SbullAssumption, FS_Subset, Openers \subseteq Procs DEF SbullAssumption, Openers
<1>2. QED  BY <1>1, FS_EmptySet DEF Counted

----------------------------------------------------------------------------
(* One lemma for the steps that change who has the disk open, one for the rest *)

\* A process that enters or goes on in sbull_open.
LEMMA OpeningKeeps ==
  ASSUME Inv, NEW p \in Procs, OpenBegin(p) \/ OpenSync(p) \/ OpenCheck(p)
  PROVE  Inv'
<1>1. Openers' = Openers
  BY DEF Inv, Types, Openers, OpenBegin, OpenSync, OpenCheck, Goto
<1>2. Types'
  BY DEF Inv, Types, OpenBegin, OpenSync, OpenCheck, Goto
<1>3. Counted'
  BY <1>1, SbullAssumption
  DEF SbullAssumption, Inv, Types, Counted, Inside, OpenBegin, OpenSync, OpenCheck, Goto
<1>4. Quiet'
  BY SbullAssumption
  DEF SbullAssumption, Inv, Types, Counted, Inside, Quiet, TimerIdleInUse, OpenBegin,
      OpenSync, OpenCheck, Goto, DelTimer
<1>5. QED  BY <1>2, <1>3, <1>4 DEF Inv

\* users++.
LEMMA CountKeeps ==
  ASSUME Inv, NEW p \in Procs, OpenCount(p)
  PROVE  Inv'
<1>1. Openers' = Openers \cup {p} /\ p \notin Openers
  BY DEF Inv, Types, Openers, OpenCount, Goto
<1>2. users' = Cardinality(Openers')
  BY <1>1, NoUsers, FS_AddElement DEF Inv, Counted, OpenCount
<1>3. Types'
  BY DEF Inv, Types, OpenCount, Goto
<1>4. Counted'
  BY <1>2, SbullAssumption DEF SbullAssumption, Inv, Types, Counted, Inside, OpenCount, Goto
<1>5. Quiet'
  BY SbullAssumption
  DEF SbullAssumption, Inv, Types, Counted, Inside, Quiet, TimerIdleInUse, OpenCount, Goto
<1>6. QED  BY <1>3, <1>4, <1>5 DEF Inv

\* users--, and the last user starts the timer.
LEMMA ReleaseKeeps ==
  ASSUME Inv, NEW p \in Procs, Release(p)
  PROVE  Inv'
<1>1. Openers' = Openers \ {p} /\ p \in Openers
  BY DEF Inv, Types, Openers, Release, Goto
<1>2. users' = Cardinality(Openers') /\ users \in Nat \ {0}
  BY <1>1, NoUsers, FS_RemoveElement DEF Inv, Types, Counted, Release
<1>3. Types'
  BY <1>2 DEF Inv, Types, Release, Goto
<1>4. Counted'
  BY <1>2, SbullAssumption DEF SbullAssumption, Inv, Types, Counted, Inside, Release, Goto
<1>5. Quiet'
  BY <1>2, SbullAssumption
  DEF SbullAssumption, Inv, Types, Counted, Inside, Quiet, TimerIdleInUse, Release, Goto,
      LastUser
<1>6. QED  BY <1>3, <1>4, <1>5 DEF Inv

\* The timer and the end of the module.
LEMMA TimerKeeps ==
  ASSUME Inv, Expire \/ Invalidate \/ Exit
  PROVE  Inv'
<1>1. Openers' = Openers
  BY DEF Openers, Expire, Invalidate, Exit
<1>2. Types'
  BY DEF Inv, Types, Expire, Invalidate, Exit
<1>3. CASE Expire \/ Invalidate
  BY <1>1, <1>2, <1>3 DEF Inv, Types, Counted, Quiet, TimerIdleInUse, Expire, Invalidate
<1>4. CASE Exit
  <2>1. \A p \in Procs : pc[p] = "closed"
    BY <1>4, NoUsers, SbullAssumption
    DEF SbullAssumption, Exit, Inv, Types, Counted, Openers, Inside
  <2>2. QED
    BY <1>1, <1>2, <1>4, <2>1 DEF Inv, Types, Counted, Quiet, TimerIdleInUse, Exit, DelTimer
<1>5. QED  BY <1>3, <1>4

\* Requests do not touch any of this.
LEMMA RequestsKeep ==
  ASSUME Inv,
         \/ \E p \in Procs : Serve(p) \/ \E b \in Bio \cup {Special} : Submit(p, b)
         \/ UNCHANGED vars
  PROVE  Inv'
<1>1. UNCHANGED <<loaded, users, media_change, timer, bd_mutex, pc>>
  BY DEF Serve, SkipRequest, SimpleRequest, FullRequest, MakeRequest, Submit, disk, vars
<1>2. QED  BY <1>1 DEF Inv, Types, Counted, Openers, Quiet, TimerIdleInUse

LEMMA InvInit == Init => Inv
<1>1. Init => Openers = {} /\ Types
  <2>1. Init => media_change \in BOOLEAN /\ loaded \in BOOLEAN
    BY Zenon DEF Init
  <2>2. QED  BY <2>1 DEF Init, Openers, Types
<1>2. QED
  BY <1>1, FS_EmptySet, SbullAssumption
  DEF SbullAssumption, Init, Inv, Types, Counted, Inside, Quiet, TimerIdleInUse

LEMMA InvStep == ASSUME Inv, [Next]_vars PROVE Inv'
<1>1. QED
  BY OpeningKeeps, CountKeeps, ReleaseKeeps, TimerKeeps, RequestsKeep DEF Next, Opening

\* While the disk is in use the timer is off and no media change is reported, and
\* no handler outlives the module.
THEOREM TimerIdleInUseHolds == Spec => []TimerIdleInUse
<1>1. Inv => TimerIdleInUse
  BY DEF Inv, Quiet
<1>2. QED  BY InvInit, InvStep, <1>1, PTL DEF Spec

----------------------------------------------------------------------------
(* No deadlock between open and the timer *)

\* The device lock is held across steps only in sbull_open, after del_timer_sync.
LockInv == /\ lock \in Procs \cup {NoProc}
           /\ \A p \in Procs : lock = p <=> pc[p] = "count"

\* A process that waits for the handler in del_timer_sync does not wait for one
\* that waits for dev->lock.
NoWaitCycle ==
  \A p \in Procs : pc[p] = "sync" /\ timer = "running" => lock = NoProc

\* Only OpenCheck and OpenCount change the lock.
LEMMA LockStep == ASSUME Inv, LockInv, [Next]_vars PROVE LockInv'
<1> USE SbullAssumption DEF SbullAssumption
<1>1. ASSUME NEW p \in Procs, OpenBegin(p) \/ OpenSync(p) \/ Release(p)
      PROVE  LockInv'
  BY <1>1 DEF Inv, Types, LockInv, OpenBegin, OpenSync, Release, Goto
<1>2. ASSUME NEW p \in Procs, OpenCheck(p) \/ OpenCount(p)
      PROVE  LockInv'
  BY <1>2 DEF Inv, Types, LockInv, OpenCheck, OpenCount, Goto
<1>3. CASE Expire \/ Invalidate \/ Exit
  BY <1>3 DEF LockInv, Expire, Invalidate, Exit
<1>4. ASSUME \/ \E p \in Procs :
                  Serve(p) \/ \E b \in Bio \cup {Special} : Submit(p, b)
             \/ UNCHANGED vars
      PROVE  LockInv'
  <2>1. UNCHANGED <<lock, pc>>
    BY <1>4 DEF Serve, SkipRequest, SimpleRequest, FullRequest, MakeRequest, Submit,
                disk, vars
  <2>2. QED  BY <2>1 DEF LockInv
<1>5. QED  BY <1>1, <1>2, <1>3, <1>4 DEF Next, Opening

\* sbull_open stops the timer before it takes dev->lock, so the handler it waits
\* for always finds the lock free, for every number of processes: bd_mutex keeps
\* whoever has taken the lock from being inside open at the same time.  This is
\* the part of OpensReturn that does not depend on the scheduler.
THEOREM OpenWaitsForNoLock == Spec => []NoWaitCycle
<1>1. Init => LockInv
  BY SbullAssumption DEF SbullAssumption, Init, LockInv
<1>2. Inv /\ LockInv => NoWaitCycle
  BY DEF Inv, Types, Counted, Inside, LockInv, NoWaitCycle
<1>3. QED  BY InvInit, InvStep, LockStep, <1>1, <1>2, PTL DEF Spec

----------------------------------------------------------------------------
(* What sbull_transfer copies *)

LEMMA BioFacts ==
  ASSUME NEW b \in Bio
  PROVE  /\ b.write \in BOOLEAN /\ b.sector \in Sectors /\ b.vcnt \in 1..MaxSegs
         /\ \A i \in 1..b.vcnt :
              /\ b.ends[i] \in Nat /\ SegStart(b, i) \in Nat
              /\ SegLen(b, i) \in 1..MaxSeg /\ b.sector + b.ends[i] <= Size
         /\ 1 \in 1..b.vcnt /\ b.ends[1] \in 1..MaxSeg
         /\ b # Special
<1>1. PICK n \in 1..MaxSegs : b.ends \in [1..n -> 1..(MaxSegs * MaxSeg)]
  BY DEF Bio
<1>2. /\ b.write \in BOOLEAN /\ b.sector \in Sectors /\ b.vcnt \in 1..MaxSegs
      /\ DOMAIN b.ends = 1..b.vcnt
      /\ \A i \in 1..b.vcnt : SegLen(b, i) \in 1..MaxSeg /\ b.sector + b.ends[i] <= Size
  BY DEF Bio
<1>3. MaxSegs \in Nat /\ MaxSeg \in Nat
  BY SbullAssumption
<1>4. \A i \in 1..b.vcnt : b.ends[i] \in Nat
  BY <1>1, <1>2, <1>3
<1>5. \A i \in 1..b.vcnt : SegStart(b, i) \in Nat
  BY <1>2, <1>3, <1>4 DEF SegStart
<1>6. 1 \in 1..b.vcnt /\ b.ends[1] \in 1..MaxSeg
  BY <1>2, <1>3, <1>4 DEF SegLen, SegStart
<1>7. b # Special
  BY <1>2, <1>3 DEF Special
<1>8. QED  BY <1>2, <1>4, <1>5, <1>6, <1>7

\* Whatever the segments are, blocks of the bio or junk are copied.
LEMMA CopiedBlock ==
  ASSUME NEW p \in Procs, NEW b \in Bio, NEW i \in 1..b.vcnt, NEW s \in Sectors,
         Covers(b, i, s)
  PROVE  Copied(p, b, i, s) \in Block
<1>1. PICK k : k = s - SegPos(b, i)
  OBVIOUS
<1>2. /\ b.ends[i] \in Nat /\ SegStart(b, i) \in Nat /\ b.sector \in Nat
      /\ b.sector + b.ends[i] <= Size /\ SegLen(b, i) = b.ends[i] - SegStart(b, i)
      /\ b.ends[1] \in Nat /\ Size \in Nat /\ i \in Nat
  BY BioFacts, SbullAssumption DEF Sectors, SegLen
<1>3. k \in Nat
  <2>1. PICK m \in Int : m = (i - 1) * b.ends[1]
    BY <1>2
  <2>2. QED  BY <1>1, <1>2, <2>1 DEF Covers, Sectors, SegPos
<1>4. CASE k < SegLen(b, i)
  <2>1. b.sector + SegStart(b, i) + k \in Sectors
    BY <1>2, <1>3, <1>4 DEF Sectors
  <2>2. QED  BY <1>1, <1>4, <2>1 DEF Copied, Block
<1>5. CASE ~(k < SegLen(b, i))
  BY <1>1, <1>5 DEF Copied, Block
<1>6. QED  BY <1>4, <1>5

LEMMA OneMore == ASSUME NEW i \in Nat, NEW n \in Nat PROVE i * n = (i - 1) * n + n
<1>1. QED  OBVIOUS

\* The first segment, and every segment of a uniform bio, goes where it belongs.
LEMMA CopiedRight ==
  ASSUME NEW p \in Procs, NEW b \in Bio, NEW i \in 1..b.vcnt, NEW s \in Sectors,
         i = 1 \/ Uniform(b), Covers(b, i, s)
  PROVE  Copied(p, b, i, s) = <<p, s>>
<1>1. /\ b.ends[1] \in Nat /\ b.ends[i] \in Nat /\ b.sector \in Nat /\ i \in Nat /\ i >= 1
      /\ i - 1 \in Nat /\ b.vcnt \in Nat
  BY BioFacts, SbullAssumption DEF Sectors
<1>2. PICK m \in Int : m = (i - 1) * b.ends[1]
  BY <1>1
<1>3. SegStart(b, i) = m
  <2>1. CASE i = 1
    BY <1>1, <1>2, <2>1 DEF SegStart
  <2>2. CASE i # 1
    <3>1. i - 1 \in 1..b.vcnt
      BY <1>1, <2>2
    <3>2. b.ends[i - 1] = (i - 1) * b.ends[1]
      BY <2>2, <3>1 DEF Uniform
    <3>3. QED  BY <1>2, <2>2, <3>2 DEF SegStart
  <2>3. QED  BY <2>1, <2>2
<1>4. b.ends[i] = m + b.ends[1]
  <2>1. i * b.ends[1] = (i - 1) * b.ends[1] + b.ends[1]
    BY <1>1, OneMore
  <2>2. CASE i = 1
    BY <1>1, <1>2, <2>2
  <2>3. CASE Uniform(b)
    BY <1>2, <2>1, <2>3 DEF Uniform
  <2>4. QED  BY <2>2, <2>3
<1>5. SegPos(b, i) = b.sector + m
  BY <1>2 DEF SegPos
<1>6. s \in (b.sector + m)..(b.sector + m + b.ends[1] - 1) /\ s \in Int
  BY <1>5 DEF Covers, Sectors
<1>7. s - SegPos(b, i) < SegLen(b, i)
  BY <1>1, <1>3, <1>4, <1>5, <1>6 DEF SegLen
<1>8. b.sector + SegStart(b, i) + (s - SegPos(b, i)) = s
  BY <1>1, <1>3, <1>5, <1>6
<1>9. QED  BY <1>7, <1>8 DEF Copied

\* The segments are laid side by side: no sector is reached by two of them.
LEMMA SideBySide ==
  ASSUME NEW b \in Bio, NEW i \in 1..b.vcnt, NEW j \in 1..b.vcnt, i < j, NEW s \in Sectors
  PROVE  ~(Covers(b, i, s) /\ Covers(b, j, s))
<1>1. /\ b.vcnt \in Nat /\ b.ends[1] \in Nat /\ b.sector \in Nat /\ s \in Nat
      /\ i \in Nat /\ j \in Nat
  BY BioFacts, SbullAssumption DEF Sectors
<1>2. PICK k \in Nat : j = i + 1 + k
  BY <1>1, j = i + 1 + (j - i - 1)
<1>3. PICK m \in Int, n \in Nat : m = (i - 1) * b.ends[1] /\ n = k * b.ends[1]
  BY <1>1, <1>2
<1>4. (j - 1) * b.ends[1] = m + b.ends[1] + n
  BY <1>1, <1>2, <1>3
<1>5. QED  BY <1>1, <1>3, <1>4 DEF Covers, SegPos

----------------------------------------------------------------------------
(* Requests and the data *)

\* A block that may be in sector s while no bio with unequal segments was written.
Good(s) == {Old, Zero} \cup (Procs \X {s})

\* Types of the variables the requests use.
IoTypes ==
  /\ ragged \in BOOLEAN
  /\ data \in [Sectors -> Block]
  /\ lock \in Procs \cup {NoProc} /\ bd_mutex \in Procs \cup {NoProc}
  /\ bio \in [Procs -> Bio \cup {Special}]
  /\ done \in [Procs -> 0..MaxSegs]
  /\ req \in [Procs -> {"none", "queued", "stuck"}]

\* A process with a request has the disk open, and a queued request has segments
\* left to transfer, unless it is not about data.
Queued ==
  \A p \in Procs :
    /\ req[p] = "none" => done[p] = 0
    /\ req[p] # "none" => pc[p] = "open"
    /\ req[p] = "queued" =>
         IF bio[p] = Special THEN done[p] = 0 /\ request_mode # "RM_NOQUEUE"
         ELSE done[p] < bio[p].vcnt

\* Every block is in its place, and the segments of a queued write that are done
\* are on the disk, although the other processes write there too.
Stored ==
  ~ragged =>
    /\ \A s \in Sectors : data[s] \in Good(s)
    /\ \A p \in Procs : req[p] = "queued" /\ bio[p] # Special /\ bio[p].write =>
         \A s \in Sectors :
           bio[p].sector <= s /\ s < bio[p].sector + done[p] * bio[p].ends[1] =>
             data[s] \in Procs \X {s}

DataInv == Inv /\ IoTypes /\ Queued /\ Stored

\* The disk after a step: each sector is as before or holds a block that was
\* copied to it; and what was copied belongs there unless the step was ragged.
Copies(p) ==
  \A s \in Sectors : \/ data'[s] = data[s]
                     \/ data'[s] \in Block /\ (~ragged' => data'[s] = <<p, s>>)

LEMMA SegCopies ==
  ASSUME IoTypes, NEW p \in Procs, NEW b \in Bio, NEW i \in 1..b.vcnt,
         data' = XferSeg(data, p, b, i), ~ragged' => i = 1 \/ Uniform(b)
  PROVE  data' \in [Sectors -> Block] /\ Copies(p)
<1>1. ASSUME NEW s \in Sectors, Covers(b, i, s)
      PROVE  /\ data'[s] \in Block
             /\ ~ragged' => data'[s] = <<p, s>>
  BY <1>1, CopiedBlock, CopiedRight DEF XferSeg
<1>2. ASSUME NEW s \in Sectors, ~Covers(b, i, s) PROVE data'[s] = data[s]
  BY <1>2 DEF XferSeg
<1>3. \A s \in Sectors : data[s] \in Block
  BY DEF IoTypes
<1>4. data' = [s \in Sectors |-> data'[s]]
  BY DEF XferSeg
<1>5. QED  BY <1>1, <1>2, <1>3, <1>4 DEF Copies

LEMMA BioCopies ==
  ASSUME IoTypes, NEW p \in Procs, NEW b \in Bio,
         data' = XferBio(data, p, b), ~ragged' => Uniform(b)
  PROVE  data' \in [Sectors -> Block] /\ Copies(p)
<1>1. ASSUME NEW s \in Sectors
      PROVE  /\ data'[s] \in Block
             /\ \/ data'[s] = data[s]
                \/ ~ragged' => data'[s] = <<p, s>>
  <2>1. CASE \E i \in 1..b.vcnt : Covers(b, i, s)
    <3>1. PICK i \in 1..b.vcnt : /\ i = CHOOSE j \in 1..b.vcnt : Covers(b, j, s)
                                 /\ Covers(b, i, s)
      BY <2>1
    <3>2. data'[s] = Copied(p, b, i, s)
      BY <2>1, <3>1 DEF XferBio
    <3>3. QED  BY <3>1, <3>2, CopiedBlock, CopiedRight
  <2>2. CASE ~\E i \in 1..b.vcnt : Covers(b, i, s)
    BY <2>2 DEF XferBio, IoTypes
  <2>3. QED  BY <2>1, <2>2
<1>2. data' = [s \in Sectors |-> data'[s]]
  BY DEF XferBio
<1>3. QED  BY <1>1, <1>2 DEF Copies

\* Stored is kept if the step of p keeps it for p.
LEMMA StoredStep ==
  ASSUME IoTypes, Stored, NEW p \in Procs, Copies(p), ragged \in BOOLEAN, ~ragged' => ~ragged,
         \A q \in Procs \ {p} : req'[q] = req[q] /\ bio'[q] = bio[q] /\ done'[q] = done[q],
         ~ragged' /\ req'[p] = "queued" /\ bio'[p] # Special /\ bio'[p].write =>
           \A s \in Sectors :
             bio'[p].sector <= s /\ s < bio'[p].sector + done'[p] * bio'[p].ends[1] =>
               data'[s] \in Procs \X {s}
  PROVE  Stored'
<1> SUFFICES ASSUME ~ragged' PROVE Stored'
  BY DEF Stored
<1>1. \A s \in Sectors : data'[s] \in {data[s], <<p, s>>}
  BY DEF Copies
<1>2. \A s \in Sectors : data'[s] \in Good(s)
  BY <1>1 DEF Stored, Good
<1>3. ASSUME NEW q \in Procs, q # p, req'[q] = "queued", bio'[q] # Special, bio'[q].write,
             NEW s \in Sectors, bio'[q].sector <= s,
             s < bio'[q].sector + done'[q] * bio'[q].ends[1]
      PROVE  data'[s] \in Procs \X {s}
  BY <1>1, <1>3 DEF Stored
<1>4. QED  BY <1>2, <1>3 DEF Stored

\* The steps that leave the requests and the data alone.
LEMMA IdleKeeps ==
  ASSUME DataInv,
         \/ UNCHANGED vars \/ Expire \/ Invalidate \/ Exit
         \/ \E p \in Procs : OpenBegin(p) \/ OpenSync(p) \/ OpenCount(p) \/ Release(p)
  PROVE  IoTypes' /\ Queued' /\ Stored'
<1>1. UNCHANGED <<request_mode, io, data>>
  BY DEF vars, OpenBegin, OpenSync, OpenCount, Release, Expire, Invalidate, Exit
<1>2. Stored'
  BY <1>1 DEF DataInv, io, Stored, Good
<1>3. lock' \in Procs \cup {NoProc} /\ bd_mutex' \in Procs \cup {NoProc}
  BY DEF DataInv, IoTypes, vars, disk, OpenBegin, OpenSync, OpenCount, Release, Expire,
         Invalidate, Exit
<1>4. \A p \in Procs : req[p] # "none" => pc'[p] = "open"
  BY DEF DataInv, Inv, Types, Queued, vars, OpenBegin, OpenSync, OpenCount, Release,
         Expire, Invalidate, Exit, Goto
<1>5. QED  BY <1>1, <1>2, <1>3, <1>4 DEF DataInv, IoTypes, Queued, io

\* The disk is cleared only while nobody has it open, so no request is queued.
LEMMA CheckKeeps ==
  ASSUME DataInv, NEW p \in Procs, OpenCheck(p)
  PROVE  IoTypes' /\ Queued' /\ Stored'
<1>1. UNCHANGED <<request_mode, io, bd_mutex>> /\ lock' = p
  BY DEF OpenCheck
<1>2. CASE data' = data
  <2>1. Stored'
    BY <1>1, <1>2 DEF DataInv, io, Stored, Good
  <2>2. IoTypes'
    BY <1>1, <1>2 DEF DataInv, io, IoTypes
  <2>3. Queued'
    BY <1>1 DEF DataInv, Inv, Types, io, Queued, OpenCheck, Goto
  <2>4. QED  BY <2>1, <2>2, <2>3
<1>3. CASE users = 0 /\ data' = [s \in Sectors |-> Zero]
  <2>1. \A q \in Procs : req[q] = "none"
    BY <1>3, NoUsers DEF DataInv, Inv, Types, IoTypes, Queued, Openers
  <2>2. Stored'
    BY <1>1, <1>3, <2>1 DEF DataInv, io, Stored, Good
  <2>3. IoTypes'
    BY <1>1, <1>3 DEF DataInv, io, IoTypes, Block
  <2>4. Queued'
    BY <1>1, <2>1 DEF DataInv, io, Queued
  <2>5. QED  BY <2>2, <2>3, <2>4
<1>4. QED  BY <1>2, <1>3 DEF OpenCheck

LEMMA SubmitKeeps ==
  ASSUME DataInv, NEW p \in Procs, NEW b \in Bio \cup {Special}, Submit(p, b)
  PROVE  IoTypes' /\ Queued' /\ Stored'
<1>1. IoTypes'
  BY DEF DataInv, IoTypes, Submit, disk
<1>2. done[p] = 0 /\ pc[p] = "open" /\ req[p] = "none"
  BY DEF DataInv, Queued, Submit
<1>3. Queued'
  <2>1. b \in Bio => b.vcnt \in 1..MaxSegs /\ b # Special /\ 0 < b.vcnt
    BY BioFacts, SbullAssumption
  <2>2. QED  BY <1>2, <2>1 DEF DataInv, IoTypes, Queued, Submit
<1>4. Stored'
  <2>1. Copies(p) /\ ragged' = ragged
    BY DEF Copies, Submit
  <2>2. \A q \in Procs \ {p} : req'[q] = req[q] /\ bio'[q] = bio[q] /\ done'[q] = done[q]
    BY DEF Submit, DataInv, IoTypes
  <2>3. ASSUME bio'[p] # Special, NEW s \in Sectors, bio'[p].sector <= s
        PROVE  ~(s < bio'[p].sector + done'[p] * bio'[p].ends[1])
    <3>1. bio'[p] \in Bio /\ done'[p] = 0
      BY <1>1, <1>2, <2>3 DEF IoTypes, Submit
    <3>2. bio'[p].sector \in Nat /\ bio'[p].ends[1] \in Nat /\ s \in Nat
      BY <3>1, BioFacts, SbullAssumption DEF Sectors
    <3>3. QED  BY <2>3, <3>1, <3>2
  <2>4. QED  BY <2>1, <2>2, <2>3, StoredStep DEF DataInv, IoTypes
<1>5. QED  BY <1>1, <1>3, <1>4

\* A request that leaves the queue, or stays in it with segments to go.
LEMMA ServedKeeps ==
  ASSUME DataInv, NEW p \in Procs, req[p] = "queued",
         UNCHANGED <<request_mode, pc, lock, bd_mutex>>,
         data' \in [Sectors -> Block], Copies(p), ragged' \in BOOLEAN, ~ragged' => ~ragged,
         NEW r \in {"none", "queued", "stuck"}, NEW n \in 0..MaxSegs,
         NEW b \in Bio \cup {Special},
         req' = [req EXCEPT ![p] = r], done' = [done EXCEPT ![p] = n],
         bio' = [bio EXCEPT ![p] = b],
         r = "none" => n = 0,
         r = "queued" => /\ b # Special /\ n < b.vcnt
                         /\ ~ragged' /\ b.write =>
                              \A s \in Sectors :
                                b.sector <= s /\ s < b.sector + n * b.ends[1] =>
                                  data'[s] \in Procs \X {s}
  PROVE  IoTypes' /\ Queued' /\ Stored'
<1>1. IoTypes'
  BY DEF DataInv, IoTypes
<1>2. /\ req'[p] = r /\ done'[p] = n /\ bio'[p] = b
      /\ \A q \in Procs \ {p} : req'[q] = req[q] /\ bio'[q] = bio[q] /\ done'[q] = done[q]
  BY DEF DataInv, IoTypes
<1>3. Queued'
  BY <1>2 DEF DataInv, Queued
<1>4. Stored'
  BY <1>2, StoredStep DEF DataInv, IoTypes
<1>5. QED  BY <1>1, <1>3, <1>4

LEMMA SkipKeeps ==
  ASSUME DataInv, NEW p \in Procs, SkipRequest(p)
  PROVE  IoTypes' /\ Queued' /\ Stored'
<1>1. /\ req[p] = "queued" /\ bio[p] = Special /\ done[p] = 0
      /\ UNCHANGED <<request_mode, pc, lock, bd_mutex, data, ragged>>
      /\ req' = [req EXCEPT ![p] = "none"]
      /\ done' = [done EXCEPT ![p] = 0] /\ bio' = [bio EXCEPT ![p] = Special]
  BY DEF SkipRequest, disk, DataInv, Queued, IoTypes
<1>2. Copies(p)
  BY <1>1 DEF Copies
<1>3. QED  BY <1>1, <1>2, ServedKeeps, SbullAssumption DEF DataInv, IoTypes

\* sbull_request: afterwards the first segment is on the disk.
LEMMA SimpleKeeps ==
  ASSUME DataInv, NEW p \in Procs, SimpleRequest(p)
  PROVE  /\ IoTypes' /\ Queued' /\ Stored'
         /\ ~ragged' /\ req'[p] = "none" /\ bio[p].write =>
              \A s \in bio[p].sector..(bio[p].sector + Sectcount(bio[p]) - 1) :
                data'[s] \in Procs \X {s}
<1>1. PICK b : b = bio[p]
  OBVIOUS
<1>2. /\ b \in Bio /\ b # Special /\ b.vcnt \in 1..MaxSegs /\ 1 \in 1..b.vcnt
      /\ 0 \in 0..MaxSegs /\ 1 \in 0..MaxSegs
  BY <1>1, BioFacts, SbullAssumption DEF SimpleRequest, DataInv, IoTypes
<1>3. /\ req[p] = "queued" /\ UNCHANGED <<request_mode, pc, lock, bd_mutex, ragged>>
      /\ data' = IF b.write THEN XferSeg(data, p, b, 1) ELSE data
      /\ req' = [req EXCEPT ![p] = SimpleEnd(b.vcnt)]
  BY <1>1 DEF SimpleRequest, disk
<1>4. data' \in [Sectors -> Block] /\ Copies(p)
  <2>1. CASE b.write
    BY <1>2, <1>3, <2>1, SegCopies DEF DataInv
  <2>2. CASE ~b.write
    BY <1>3, <2>2 DEF DataInv, IoTypes, Copies
  <2>3. QED  BY <2>1, <2>2
<1>5. req'[p] = SimpleEnd(b.vcnt)
  BY <1>3 DEF DataInv, IoTypes
<1>6. IoTypes' /\ Queued' /\ Stored'
  <2>1. CASE b.vcnt = 1
    <3>1. /\ req' = [req EXCEPT ![p] = "none"]
          /\ done' = [done EXCEPT ![p] = 0] /\ bio' = [bio EXCEPT ![p] = Special]
      BY <1>3, <1>5, <2>1 DEF SimpleEnd, SimpleRequest, Progress
    <3>2. QED  BY <1>2, <1>3, <1>4, <3>1, ServedKeeps DEF DataInv, IoTypes
  <2>2. CASE b.vcnt # 1
    <3>1. /\ req' = [req EXCEPT ![p] = "stuck"]
          /\ done' = [done EXCEPT ![p] = 1] /\ bio' = [bio EXCEPT ![p] = b]
      BY <1>1, <1>3, <1>5, <2>2 DEF SimpleEnd, SimpleRequest, Progress
    <3>2. QED  BY <1>2, <1>3, <1>4, <3>1, ServedKeeps DEF DataInv, IoTypes
  <2>3. QED  BY <2>1, <2>2
<1>7. ASSUME ~ragged', req'[p] = "none", b.write,
             NEW s \in b.sector..(b.sector + Sectcount(b) - 1)
      PROVE  data'[s] \in Procs \X {s}
  <2>1. b.vcnt = 1
    BY <1>5, <1>7 DEF SimpleEnd
  <2>2. /\ b.sector \in Nat /\ b.ends[1] \in Nat /\ b.sector + b.ends[1] <= Size
        /\ Size \in Nat
    BY <1>2, BioFacts, SbullAssumption DEF Sectors
  <2>3. s \in Sectors /\ Covers(b, 1, s)
    BY <1>7, <2>1, <2>2 DEF Sectcount, Sectors, Covers, SegPos
  <2>4. data'[s] = <<p, s>>
    BY <1>2, <1>3, <1>7, <2>3, CopiedRight DEF XferSeg
  <2>5. QED  BY <2>4
<1>8. QED  BY <1>1, <1>6, <1>7

LEMMA FullKeeps ==
  ASSUME DataInv, NEW p \in Procs, FullRequest(p)
  PROVE  IoTypes' /\ Queued' /\ Stored' /\ req'[p] = "stuck"
<1>1. PICK b : b = bio[p]
  OBVIOUS
<1>2. b \in Bio /\ b.vcnt \in 0..MaxSegs
  BY <1>1, BioFacts, SbullAssumption DEF FullRequest, DataInv, IoTypes
<1>3. /\ req[p] = "queued" /\ UNCHANGED <<request_mode, pc, lock, bd_mutex>>
      /\ data' = IF b.write THEN XferBio(data, p, b) ELSE data
      /\ req' = [req EXCEPT ![p] = "stuck"]
      /\ done' = [done EXCEPT ![p] = b.vcnt] /\ bio' = [bio EXCEPT ![p] = b]
      /\ ragged' = (ragged \/ ~Uniform(b))
  BY <1>1 DEF FullRequest, Progress, disk
<1>4. ragged' \in BOOLEAN /\ (~ragged' => ~ragged /\ Uniform(b))
  BY <1>3 DEF DataInv, IoTypes
<1>5. data' \in [Sectors -> Block] /\ Copies(p)
  <2>1. CASE b.write
    BY <1>2, <1>3, <1>4, <2>1, BioCopies DEF DataInv
  <2>2. CASE ~b.write
    BY <1>3, <2>2 DEF DataInv, IoTypes, Copies
  <2>3. QED  BY <2>1, <2>2
<1>6. req'[p] = "stuck"
  BY <1>3 DEF DataInv, IoTypes
<1>7. QED  BY <1>2, <1>3, <1>4, <1>5, <1>6, ServedKeeps

\* sbull_make_request: the segment follows the ones that are on the disk already.
LEMMA MakeKeeps ==
  ASSUME DataInv, NEW p \in Procs, MakeRequest(p)
  PROVE  /\ IoTypes' /\ Queued' /\ Stored'
         /\ ~ragged' /\ req'[p] = "none" /\ bio[p].write =>
              \A s \in bio[p].sector..(bio[p].sector + Sectcount(bio[p]) - 1) :
                data'[s] \in Procs \X {s}
<1>1. PICK b, i : b = bio[p] /\ i = done[p] + 1
  OBVIOUS
<1>2. /\ b \in Bio /\ b # Special /\ b.vcnt \in 1..MaxSegs /\ MaxSegs \in Nat
      /\ i \in 1..b.vcnt /\ i \in 0..MaxSegs /\ 0 \in 0..MaxSegs /\ done[p] = i - 1
  BY <1>1, BioFacts, SbullAssumption DEF MakeRequest, DataInv, IoTypes, Queued
<1>3. /\ req[p] = "queued" /\ UNCHANGED <<request_mode, pc, lock, bd_mutex>>
      /\ data' = IF b.write THEN XferSeg(data, p, b, i) ELSE data
      /\ req' = [req EXCEPT ![p] = IF i = b.vcnt THEN "none" ELSE "queued"]
      /\ ragged' = (ragged \/ ~Uniform(b))
  BY <1>1 DEF MakeRequest, disk
<1>4. ragged' \in BOOLEAN /\ (~ragged' => ~ragged /\ Uniform(b))
  BY <1>3 DEF DataInv, IoTypes
<1>5. data' \in [Sectors -> Block] /\ Copies(p)
  <2>1. CASE b.write
    BY <1>2, <1>3, <1>4, <2>1, SegCopies DEF DataInv
  <2>2. CASE ~b.write
    BY <1>3, <2>2 DEF DataInv, IoTypes, Copies
  <2>3. QED  BY <2>1, <2>2
<1>6. ASSUME ~ragged', b.write, NEW s \in Sectors, b.sector <= s,
             s < b.sector + i * b.ends[1]
      PROVE  data'[s] \in Procs \X {s}
  <2>1. /\ b.sector \in Nat /\ b.ends[1] \in Nat /\ b.sector + b.ends[i] <= Size
        /\ Size \in Nat /\ s \in Nat /\ i \in Nat
    BY <1>2, BioFacts, SbullAssumption DEF Sectors
  <2>2. PICK m \in Int : m = (i - 1) * b.ends[1]
    BY <2>1
  <2>3. i * b.ends[1] = m + b.ends[1] /\ b.ends[i] = i * b.ends[1]
    <3>1. i * b.ends[1] = (i - 1) * b.ends[1] + b.ends[1]
      BY <2>1, OneMore
    <3>2. QED  BY <1>2, <1>4, <1>6, <2>2, <3>1 DEF Uniform
  <2>4. CASE s < b.sector + m
    <3>1. data[s] \in Procs \X {s}
      BY <1>1, <1>2, <1>3, <1>4, <1>6, <2>2, <2>4 DEF DataInv, Stored
    <3>2. QED  BY <1>6, <3>1, <1>5 DEF Copies
  <2>5. CASE ~(s < b.sector + m)
    <3>1. Covers(b, i, s)
      BY <1>6, <2>1, <2>2, <2>3, <2>5 DEF Covers, SegPos
    <3>2. data'[s] = <<p, s>>
      BY <1>2, <1>3, <1>4, <1>6, <3>1, CopiedRight DEF XferSeg
    <3>3. QED  BY <3>2
  <2>6. QED  BY <2>4, <2>5
<1>7. req'[p] = IF i = b.vcnt THEN "none" ELSE "queued"
  BY <1>3 DEF DataInv, IoTypes
<1>8. IoTypes' /\ Queued' /\ Stored'
  <2>1. CASE i = b.vcnt
    <3>1. /\ req' = [req EXCEPT ![p] = "none"]
          /\ done' = [done EXCEPT ![p] = 0] /\ bio' = [bio EXCEPT ![p] = Special]
      BY <1>1, <1>3, <2>1 DEF MakeRequest, Progress
    <3>2. QED  BY <1>2, <1>3, <1>4, <1>5, <3>1, ServedKeeps
  <2>2. CASE i # b.vcnt
    <3>1. /\ req' = [req EXCEPT ![p] = "queued"]
          /\ done' = [done EXCEPT ![p] = i] /\ bio' = [bio EXCEPT ![p] = b]
      BY <1>1, <1>3, <2>2 DEF MakeRequest, Progress
    <3>2. i < b.vcnt
      BY <1>2, <2>2
    <3>3. QED  BY <1>2, <1>3, <1>4, <1>5, <1>6, <3>1, <3>2, ServedKeeps
  <2>3. QED  BY <2>1, <2>2
<1>9. ASSUME ~ragged', req'[p] = "none", b.write,
             NEW s \in b.sector..(b.sector + Sectcount(b) - 1)
      PROVE  data'[s] \in Procs \X {s}
  <2>1. i = b.vcnt
    BY <1>7, <1>9
  <2>2. /\ b.sector \in Nat /\ b.ends[i] \in Nat /\ b.sector + b.ends[i] <= Size
        /\ Size \in Nat
    BY <1>2, BioFacts, SbullAssumption DEF Sectors
  <2>3. b.ends[i] = i * b.ends[1]
    BY <1>2, <1>4, <1>9 DEF Uniform
  <2>4. s \in Sectors /\ b.sector <= s /\ s < b.sector + b.ends[i]
    BY <1>9, <2>1, <2>2 DEF Sectcount, Sectors
  <2>5. QED  BY <1>6, <1>9, <2>3, <2>4
<1>10. QED  BY <1>1, <1>8, <1>9

----------------------------------------------------------------------------
LEMMA DataInit == Init => DataInv
<1> SUFFICES ASSUME Init PROVE DataInv
  OBVIOUS
<1>1. Inv
  BY InvInit
<1>2. IoTypes
  <2>1. ragged \in BOOLEAN
    BY Zenon DEF Init
  <2>2. QED  BY <2>1, SbullAssumption DEF Init, IoTypes, Block
<1>3. Queued /\ Stored
  BY DEF Init, Queued, Stored, Good
<1>4. QED  BY <1>1, <1>2, <1>3 DEF DataInv

LEMMA DataStep == ASSUME DataInv, [Next]_vars PROVE DataInv'
<1>1. Inv'
  BY InvStep DEF DataInv
<1>2. IoTypes' /\ Queued' /\ Stored'
  BY IdleKeeps, CheckKeeps, SubmitKeeps, SkipKeeps, SimpleKeeps, FullKeeps, MakeKeeps
  DEF Next, Opening, Serve
<1>3. QED  BY <1>1, <1>2 DEF DataInv

\* A block is only found in the sector it was meant for, as long as sbull_xfer_bio
\* meets no bio with segments of unequal length.
THEOREM BlocksPlaced == Spec => []Placed
<1>1. DataInv => Placed
  <2> SUFFICES ASSUME DataInv PROVE Placed
    OBVIOUS
  <2>1. users \in 0..Cardinality(Procs)
    <3>1. Openers \subseteq Procs
      BY DEF Openers
    <3>2. Cardinality(Openers) <= Cardinality(Procs) /\ Cardinality(Procs) \in Nat
      BY <3>1, SbullAssumption, FS_Subset, FS_CardinalityType
    <3>3. QED  BY <3>2 DEF DataInv, Inv, Types, Counted
  <2>2. TypeOK
    BY <2>1 DEF DataInv, Inv, Types, IoTypes, TypeOK
  <2>3. QED  BY <2>2 DEF DataInv, Stored, Good, Placed
<1>2. QED  BY <1>1, DataInit, DataStep, PTL DEF Spec

\* When sbull reports a write complete, every sector of it holds a block that was
\* written to it, whatever the other processes write at the same time.
THEOREM WritesComplete == Spec => CompleteWrites
<1>1. DataInv /\ [Next]_vars =>
        [\A p \in Procs :
           req[p] = "queued" /\ req'[p] = "none" /\ bio[p].write /\ ~ragged' =>
             \A s \in bio[p].sector..(bio[p].sector + Sectcount(bio[p]) - 1) :
               data'[s] \in Procs \X {s}]_vars
  <2> SUFFICES ASSUME DataInv, Next, NEW p \in Procs, req[p] = "queued",
                      req'[p] = "none", bio[p].write, ~ragged'
               PROVE  \A s \in bio[p].sector..(bio[p].sector + Sectcount(bio[p]) - 1) :
                        data'[s] \in Procs \X {s}
    BY DEF vars, io
  <2>1. Serve(p)
    <3>1. ASSUME NEW q \in Procs, q # p,
                 Serve(q) \/ \E b \in Bio \cup {Special} : Submit(q, b)
          PROVE  FALSE
      BY <3>1 DEF DataInv, IoTypes, Serve, SkipRequest, SimpleRequest, FullRequest,
                  MakeRequest, Submit
    <3>2. ~\E b \in Bio \cup {Special} : Submit(p, b)
      BY DEF Submit
    <3>3. req' # req
      OBVIOUS
    <3>4. QED
      BY <3>1, <3>2, <3>3 DEF Next, OpenBegin, Opening, OpenSync, OpenCheck, OpenCount,
                              Release, Expire, Invalidate, Exit, io
  <2>2. ~SkipRequest(p)
    BY DEF SkipRequest, Special
  <2>3. ~FullRequest(p)
    BY FullKeeps
  <2>4. QED  BY <2>1, <2>2, <2>3, SimpleKeeps, MakeKeeps DEF Serve
<1>2. QED  BY <1>1, DataInit, DataStep, PTL DEF Spec, CompleteWrites
=============================================================================
