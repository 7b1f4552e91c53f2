------------------------------- MODULE Sbull -------------------------------
(***************************************************************************)
(* 015_sbull/sbull.c: a RAM disk that pretends to lose its medium after it *)
(* has not been in use for INVALIDATE_DELAY.  One device; the others are   *)
(* independent of it.                                                      *)
(*                                                                         *)
(* Concurrent parties: processes that open, close and send requests, the   *)
(* invalidation timer, and the request function.  dev->lock is also the    *)
(* lock of the request queue, so the request functions run under it; the   *)
(* make_request mode takes no lock and goes segment by segment.  Modelled  *)
(* from their use: the block layer serialises open and release (bd_mutex), *)
(* lets no request reach past the capacity, waits for outstanding requests *)
(* before release, hands each request out once (blk_fetch_request), and    *)
(* completes it when all its bytes have been reported (__blk_end_request). *)
(*                                                                         *)
(* A request is one bio of vcnt segments; ends[i] is the number of sectors *)
(* in its first i segments.  (Of a request merged from several bios each   *)
(* is placed by its own sector, so the loop over them in                   *)
(* sbull_xfer_request does what as many requests would; it is left out.)   *)
(* The block process p wants to have in sector s is <<p, s>>, so a block   *)
(* shows where it belongs.  Reads move the same blocks the other way.      *)
(***************************************************************************)
EXTENDS Naturals, FiniteSets

CONSTANTS
  Procs, NoProc,
  Size,             \* sectors of the disk
  MaxSeg,           \* bound: sectors in a segment
  MaxSegs           \* bound: segments of a bio

ASSUME SbullAssumption ==
  /\ IsFiniteSet(Procs) /\ NoProc \notin Procs
  /\ Size \in Nat \ {0} /\ MaxSeg \in Nat \ {0} /\ MaxSegs \in Nat \ {0}

Sectors == 0..(Size - 1)
Old     == <<"old">>          \* what vmalloc returned
Zero    == <<"zero">>
Junk    == <<"junk">>         \* memory behind the end of a segment
Block   == {Old, Zero, Junk} \cup (Procs \X Sectors)

SegStart(b, i) == IF i = 1 THEN 0 ELSE b.ends[i - 1]
SegLen(b, i)   == b.ends[i] - SegStart(b, i)
Sectcount(b)   == b.ends[b.vcnt]
Bio ==
  {b \in [write : BOOLEAN, sector : Sectors, vcnt : 1..MaxSegs,
          ends : UNION {[1..n -> 1..(MaxSegs * MaxSeg)] : n \in 1..MaxSegs}] :
     /\ DOMAIN b.ends = 1..b.vcnt
     /\ \A i \in 1..b.vcnt : /\ SegLen(b, i) \in 1..MaxSeg
                            /\ b.sector + b.ends[i] <= Size}

\* A request that is not REQ_TYPE_FS.  It is taken to carry no data: those that do
\* come from ioctls which sbull_ioctl does not know.
Special == [write |-> FALSE, sector |-> 0, vcnt |-> 0, ends |-> <<>>]

VARIABLES
  request_mode,             \* module parameter
  loaded, users, media_change, data, lock,
  timer,                    \* off, pending, or its handler has started
  bd_mutex,                 \* process inside open
  pc,                       \* where each process is
  bio, done,                \* its request, segments transferred so far
  req,                      \* state of the request
  ragged                    \* history: a bio with unequal segments was transferred

disk == <<users, media_change, timer, bd_mutex, lock>>
io   == <<bio, done, req, ragged>>
vars == <<request_mode, loaded, disk, data, pc, io>>

Init ==
  /\ request_mode \in {"RM_SIMPLE", "RM_FULL", "RM_NOQUEUE"}
  /\ loaded = TRUE
  /\ users = 0 /\ media_change = FALSE
  /\ data = [s \in Sectors |-> Old]
  /\ lock = NoProc /\ bd_mutex = NoProc
  /\ timer = "off"
  /\ pc = [p \in Procs |-> "closed"]
  /\ bio = [p \in Procs |-> Special]
  /\ done = [p \in Procs |-> 0]
  /\ req = [p \in Procs |-> "none"]
  /\ ragged = FALSE

Goto(p, from, to) == pc[p] = from /\ pc' = [pc EXCEPT ![p] = to]

----------------------------------------------------------------------------
(* Open, release, the timer, unloading *)

\* Mutated form: the device lock is taken before the timer is stopped.
OpenBegin_Locked(p) ==
  /\ loaded /\ bd_mutex = NoProc /\ lock = NoProc
  /\ Goto(p, "closed", "sync")
  /\ bd_mutex' = p /\ lock' = p
  /\ UNCHANGED <<request_mode, loaded, users, media_change, timer, data, io>>

\* The block layer calls sbull_open.
OpenBegin(p) ==
  /\ loaded /\ bd_mutex = NoProc
  /\ Goto(p, "closed", "sync")
  /\ bd_mutex' = p
  /\ UNCHANGED <<request_mode, loaded, users, media_change, timer, lock, data, io>>

\* Mutated form: del_timer, which does not wait for the handler.
DelTimer_NoWait == TRUE

\* del_timer_sync returns only when the handler is not running.
DelTimer == timer # "running"

OpenSync(p) ==
  /\ DelTimer
  /\ Goto(p, "sync", "check")
  /\ timer' = IF timer = "running" THEN timer ELSE "off"
  /\ UNCHANGED <<request_mode, loaded, users, media_change, bd_mutex, lock, data, io>>

\* Under the lock: the first user looks for a media change, and
\* check_disk_change then calls sbull_revalidate, which clears the disk.
OpenCheck(p) ==
  /\ lock \in {NoProc, p}
  /\ Goto(p, "check", "count")
  /\ lock' = p
  /\ IF users = 0 /\ media_change
     THEN media_change' = FALSE /\ data' = [s \in Sectors |-> Zero]
     ELSE UNCHANGED <<media_change, data>>
  /\ UNCHANGED <<request_mode, loaded, users, timer, bd_mutex, io>>

\* users++ and unlock.
OpenCount(p) ==
  /\ Goto(p, "count", "open")
  /\ users' = users + 1
  /\ lock' = NoProc /\ bd_mutex' = NoProc
  /\ UNCHANGED <<request_mode, loaded, media_change, timer, data, io>>

\* Mutated form: every close starts the timer.
LastUser_Any == TRUE

LastUser == users = 1

\* sbull_release: the last user starts the timer.
Release(p) ==
  /\ bd_mutex = NoProc /\ lock = NoProc
  /\ req[p] = "none"
  /\ Goto(p, "open", "closed")
  /\ users' = users - 1
  /\ timer' = IF LastUser THEN "pending" ELSE timer
  /\ UNCHANGED <<request_mode, loaded, media_change, bd_mutex, lock, data, io>>

\* The delay is over: the handler starts.
Expire ==
  /\ timer = "pending"
  /\ timer' = "running"
  /\ UNCHANGED <<request_mode, loaded, users, media_change, bd_mutex, lock, data, pc,
                 io>>

\* sbull_invalidate, under the lock.
Invalidate ==
  /\ timer = "running" /\ lock = NoProc
  /\ media_change' = (media_change \/ users = 0)
  /\ timer' = "off"
  /\ UNCHANGED <<request_mode, loaded, users, bd_mutex, lock, data, pc, io>>

\* sbull_exit; every open holds a reference to the module.
Exit ==
  /\ loaded /\ users = 0 /\ bd_mutex = NoProc
  /\ DelTimer
  /\ loaded' = FALSE
  /\ timer' = IF timer = "running" THEN timer ELSE "off"
  /\ UNCHANGED <<request_mode, users, media_change, bd_mutex, lock, data, pc, io>>

----------------------------------------------------------------------------
(* Requests *)

\* Mutated form: the position does not move on with the segments.
SegPos_Stuck(b, i) == b.sector

\* Where sbull_xfer_bio puts segment i: it counts every segment as long as the
\* first one (bio_cur_bytes looks at the bio, not at the iterator).
SegPos(b, i) == b.sector + (i - 1) * b.ends[1]

\* sbull_transfer reaches sector s with segment i; nothing is transferred if the
\* segment seems to go past the end.
Covers(b, i, s) ==
  /\ SegPos(b, i) + b.ends[1] <= Size
  /\ s \in SegPos(b, i)..(SegPos(b, i) + b.ends[1] - 1)

\* What it copies there: the block meant for the next sector of the bio, or
\* memory from behind the segment.
Copied(p, b, i, s) ==
  LET k == s - SegPos(b, i) IN
  IF k < SegLen(b, i) THEN <<p, b.sector + SegStart(b, i) + k>> ELSE Junk

\* One round of the loop of sbull_xfer_bio, for a write.
XferSeg(d, p, b, i) ==
  [s \in Sectors |-> IF Covers(b, i, s) THEN Copied(p, b, i, s) ELSE d[s]]

\* All rounds.  The segments are laid side by side, so one at most reaches a sector.
XferBio(d, p, b) ==
  [s \in Sectors |->
     IF \E i \in 1..b.vcnt : Covers(b, i, s)
     THEN Copied(p, b, CHOOSE i \in 1..b.vcnt : Covers(b, i, s), s) ELSE d[s]]

\* All segments are as long as the first one.
Uniform(b) == \A i \in 1..b.vcnt : b.ends[i] = i * b.ends[1]

\* A process sends a request: it is queued, or in the make_request mode enters
\* sbull_make_request.
Submit(p, b) ==
  /\ pc[p] = "open" /\ req[p] = "none"
  /\ b # Special \/ request_mode # "RM_NOQUEUE"
  /\ bio' = [bio EXCEPT ![p] = b]
  /\ req' = [req EXCEPT ![p] = "queued"]
  /\ UNCHANGED <<request_mode, loaded, disk, data, pc, done, ragged>>

\* The request of p after n segments, and whether the block layer sees it complete.
Progress(p, n, complete) ==
  /\ done' = [done EXCEPT ![p] = IF complete THEN 0 ELSE n]
  /\ bio' = [bio EXCEPT ![p] = IF complete THEN Special ELSE @]

\* The request functions end a request that is not about data with an error.  They
\* report what is current, which is all of a request without segments.
SkipRequest(p) ==
  /\ req[p] = "queued" /\ bio[p] = Special /\ lock = NoProc
  /\ req' = [req EXCEPT ![p] = "none"]
  /\ UNCHANGED <<request_mode, loaded, disk, data, pc, bio, done, ragged>>

\* Mutated form: sectors are reported where bytes are expected.
SimpleEnd_Never(vcnt) == "stuck"

\* Mutated form: only the current segment is waited for.
SimpleEnd_Early(vcnt) == "none"

\* __blk_end_request_cur reports the current segment.  With segments left the
\* request is not complete, but it is no longer in the queue either.
SimpleEnd(vcnt) == IF vcnt = 1 THEN "none" ELSE "stuck"

\* sbull_request: the current segment is transferred.
SimpleRequest(p) ==
  /\ request_mode = "RM_SIMPLE" /\ req[p] = "queued" /\ lock = NoProc
  /\ bio[p] # Special
  /\ data' = IF bio[p].write THEN XferSeg(data, p, bio[p], 1) ELSE data
  /\ req' = [req EXCEPT ![p] = SimpleEnd(bio[p].vcnt)]
  /\ Progress(p, 1, req'[p] = "none")
  /\ UNCHANGED <<request_mode, loaded, disk, pc, ragged>>

\* sbull_full_request: all segments are transferred, but the number of sectors
\* is reported where bytes are expected, so the request is never complete.
FullRequest(p) ==
  /\ request_mode = "RM_FULL" /\ req[p] = "queued" /\ lock = NoProc
  /\ bio[p] # Special
  /\ data' = IF bio[p].write THEN XferBio(data, p, bio[p]) ELSE data
  /\ req' = [req EXCEPT ![p] = "stuck"]
  /\ Progress(p, bio[p].vcnt, FALSE)
  /\ ragged' = (ragged \/ ~Uniform(bio[p]))
  /\ UNCHANGED <<request_mode, loaded, disk, pc>>

\* sbull_make_request: one segment, without a lock; after the last one the bio
\* is complete.
MakeRequest(p) ==
  LET i == done[p] + 1 IN
  /\ request_mode = "RM_NOQUEUE" /\ req[p] = "queued"
  /\ data' = IF bio[p].write THEN XferSeg(data, p, bio[p], i) ELSE data
  /\ req' = [req EXCEPT ![p] = IF i = bio[p].vcnt THEN "none" ELSE @]
  /\ Progress(p, i, i = bio[p].vcnt)
  /\ ragged' = (ragged \/ ~Uniform(bio[p]))
  /\ UNCHANGED <<request_mode, loaded, disk, pc>>

----------------------------------------------------------------------------
Serve(p) == SkipRequest(p) \/ SimpleRequest(p) \/ FullRequest(p) \/ MakeRequest(p)
Opening(p) == OpenSync(p) \/ OpenCheck(p) \/ OpenCount(p)

Next ==
  \/ \E p \in Procs : \/ OpenBegin(p) \/ Opening(p) \/ Release(p)
                      \/ \E b \in Bio \cup {Special} : Submit(p, b)
                      \/ Serve(p)
  \/ Expire \/ Invalidate \/ Exit

\* The block layer runs its queue, a process inside open goes on, and a timer
\* handler that has started gets the lock (a kernel spinlock is granted in the
\* order of arrival, whence strong fairness); nobody has to open, close or send.
Fairness ==
  /\ \A p \in Procs : SF_vars(Serve(p)) /\ SF_vars(Opening(p))
  /\ SF_vars(Invalidate)

Spec == Init /\ [][Next]_vars /\ Fairness

----------------------------------------------------------------------------
(* What must hold *)

\* Every variable has its type, and no more users are counted than there are.
TypeOK ==
  /\ users \in 0..Cardinality(Procs)
  /\ loaded \in BOOLEAN /\ media_change \in BOOLEAN /\ ragged \in BOOLEAN
  /\ data \in [Sectors -> Block]
  /\ {lock, bd_mutex} \subseteq Procs \cup {NoProc}
  /\ timer \in {"off", "pending", "running"}
  /\ pc \in [Procs -> {"closed", "sync", "check", "count", "open"}]
  /\ bio \in [Procs -> Bio \cup {Special}]
  /\ done \in [Procs -> 0..MaxSegs]
  /\ req \in [Procs -> {"none", "queued", "stuck"}]

\* While the disk is in use the timer is neither pending nor running and no
\* media change is reported, so sbull_invalidate never finds a user ("timer
\* sanity check failed") and sbull_release never adds a timer that is pending;
\* and no handler is left when the module is gone.
TimerIdleInUse ==
  /\ users > 0 => timer = "off" /\ ~media_change
  /\ ~loaded => timer = "off"

\* A block is only ever found in the sector it was meant for, and never memory
\* from behind a segment, as long as the segments of every transferred bio have
\* one length.
Placed ==
  /\ TypeOK
  /\ ~ragged => \A s \in Sectors : data[s] \in {Old, Zero} \cup (Procs \X {s})

\* When a write is reported complete no sector of it has been left out: each holds
\* a block that some process wrote to this sector, and neither zeros nor what the
\* disk held before the first write.  Which process is not said, since without a
\* lock writes of two processes to one sector have no order.  In RM_FULL, where no
\* write is ever reported complete, this says nothing.
CompleteWrites ==
  [][\A p \in Procs :
       req[p] = "queued" /\ req'[p] = "none" /\ bio[p].write /\ ~ragged' =>
         \A s \in bio[p].sector..(bio[p].sector + Sectcount(bio[p]) - 1) :
           data'[s] \in Procs \X {s}]_vars

\* sbull_open always returns: del_timer_sync waits for the handler before the
\* lock is taken that the handler needs.
OpensReturn == \A p \in Procs : pc[p] = "sync" ~> pc[p] = "open"

\* A request is answered, in the simple mode if it has one segment, in the
\* make_request mode always; a request that is not about data in every mode.
RequestsComplete ==
  \A p \in Procs :
    /\ req[p] = "queued"
    /\ \/ request_mode = "RM_NOQUEUE" \/ bio[p] = Special
       \/ request_mode = "RM_SIMPLE" /\ bio[p].vcnt = 1
    ~> req[p] = "none"
=============================================================================
