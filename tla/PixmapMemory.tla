---------------------------- MODULE PixmapMemory ----------------------------
(***************************************************************************)
(* The memory of EXA pixmaps (sgx_pvr2d_alloc.c, sgx_cache.c, the          *)
(* ownership half of sgx_pvr2d.c, the drawing hooks of sgx_exa.c).         *)
(*                                                                         *)
(* A pixmap has shared memory segments, which can be mapped into the SGX,  *)
(* or plain malloc memory, which cannot.  The CPU cache and the SGX are    *)
(* not coherent, so that a segment is owned by one of them and the driver  *)
(* flushes the cache when the owner changes.  Memory the SGX still works   *)
(* on is not freed but put on a list a block handler looks through, and    *)
(* segments of the size of a window are kept for the next window.          *)
(*                                                                         *)
(* The state is one record and an operation maps it to the next, so that a *)
(* handler is the composition of the calls it makes, in their order.       *)
(***************************************************************************)
EXTENDS Integers, SequencesExt

CONSTANTS
    Pixmaps,          \* pixmaps of clients and windows (not flip or root)
    Segments,         \* shared memory segments there can be (bound)
    ShmSizes,         \* sizes of backing pixmaps, in pages
    MallocSizes,      \* sizes of the other pixmaps, in pages
    CachedSizes,      \* default_window_size and twice that
    CacheSize,        \* segments kept of each cached size (6 in the code)
    MaxQueued,        \* SGX operations under way at once (bound)
    MaxWrites,        \* SGX writes to one mapping (bound)
    MaxWrapFailures   \* tries of PVR2DMemWrap that can fail in a row

ASSUME PixmapMemoryAssumption ==
    /\ Segments \subseteq Nat \ {0}
    /\ ShmSizes \cup MallocSizes \cup CachedSizes \subseteq Nat \ {0}
    /\ CacheSize \in Nat \ {0} /\ MaxQueued \in Nat /\ MaxWrites \in Nat
    /\ MaxWrapFailures \in 0..4

VARIABLE mem

NoSegment == 0

\* struct PVR2DPixmap as CreatePixmap2 leaves it: no memory of any kind.
\* "mapped" is pvr2dmem, "seen" ui32WriteOpsComplete, "seg" shmid/shmaddr.
NoMemory == [heap |-> "none", seg |-> NoSegment, size |-> 0, mapped |-> FALSE,
             owner |-> "CPU", cpuWrites |-> FALSE, seen |-> 0]

\* What the hardware knows of a segment: the writes the SGX completed through
\* its mapping, whether the CPU cache holds lines memory lacks (cpuNew), and
\* whether memory holds SGX output the CPU cache lacks (gpuNew).
FreshSegment == [done |-> 0, cpuNew |-> TRUE, gpuNew |-> FALSE]

Init ==
    mem = [pix     |-> [p \in Pixmaps |-> NoMemory],
           access  |-> [p \in Pixmaps |-> "none"],   \* PrepareAccess under way
           delayed |-> << >>,                        \* DelayedPVR2DMemDestroy
           handler |-> FALSE,                        \* block handler wrapped
           cache   |-> [s \in CachedSizes |-> << >>],
           live    |-> {},                           \* attached segments
           seg     |-> [s \in Segments |-> FreshSegment],
           gpu     |-> << >>]                        \* operations, in order

-----------------------------------------------------------------------------
(* The SGX *)

Uses(op, s) == s \in {op.src, op.dst}
Busy(m, s) == \E i \in DOMAIN m.gpu : Uses(m.gpu[i], s)

\* The SGX finishes its oldest operation.
Retire(m) ==
    LET dst == Head(m.gpu).dst IN
    [m EXCEPT !.gpu = Tail(@),
              !.seg[dst].done = @ + 1,
              !.seg[dst].gpuNew = TRUE]

\* PVR2DQueryBlitsComplete(..., 1): operations finish in order, until none
\* that uses segment s is left.
RetireFor(m, s) == IF Busy(m, s) THEN Retire(m) ELSE m
Await(m, s) ==
    LET loop[n \in 0..Len(m.gpu)] ==
            IF n = 0 THEN m ELSE RetireFor(loop[n - 1], s)
    IN  loop[Len(m.gpu)]

\* PVR2DBlt: an operation is queued, within the bounds.
CanQueue(m, dst) ==
    /\ Len(m.gpu) < MaxQueued
    /\ m.seg[dst].done
         + Cardinality({i \in DOMAIN m.gpu : m.gpu[i].dst = dst}) < MaxWrites
Queue(m, src, dst) == [m EXCEPT !.gpu = Append(@, [src |-> src, dst |-> dst])]

\* The driver's QueryBlitsComplete without waiting: CPU-owned memory is taken
\* as idle, the library refuses memory that is not mapped.
QueryBlitsComplete(m, x) ==
    \/ x.owner = "CPU"
    \/ x.mapped /\ ~Busy(m, x.seg)

-----------------------------------------------------------------------------
(* Freeing: the cache, the delayed list *)

(* mutant: AddToCache does not look whether there is room *)
CacheableFull(m, x) == x.heap = "shm" /\ x.size \in CachedSizes

\* AddToCache
Cacheable(m, x) ==
    /\ x.heap = "shm" /\ x.size \in CachedSizes
    /\ Len(m.cache[x.size]) < CacheSize

\* Segments are detached and freed, their SGX mapping with them.
Detach(m, segs) ==
    [m EXCEPT !.live = @ \ segs,
              !.seg = [s \in Segments |-> IF s \in segs THEN FreshSegment
                                                       ELSE @[s]]]

doDestroyMemory(m, x) ==
    IF Cacheable(m, x) THEN [m EXCEPT !.cache[x.size] = Append(@, x)]
                       ELSE Detach(m, {x.seg})

\* The head of the delayed list is freed if the SGX has done with it, or is
\* waited for.
FreeDelayed(m, wait) ==
    LET x == Head(m.delayed) IN
    IF m.delayed = << >> \/ ~(wait \/ QueryBlitsComplete(m, x)) THEN m
    ELSE doDestroyMemory([(IF x.owner = "GPU" THEN Await(m, x.seg) ELSE m)
                            EXCEPT !.delayed = Tail(@)], x)

\* PVR2DDelayedMemDestroy(FALSE) frees from the head of the list and stops at
\* the first entry the SGX still works on; with TRUE it waits for each.
PVR2DDelayedMemDestroy(m, wait) ==
    LET loop[n \in 0..Len(m.delayed)] ==
            IF n = 0 THEN m ELSE FreeDelayed(loop[n - 1], wait)
    IN  loop[Len(m.delayed)]

(* mutant: memory is freed without asking the SGX *)
DestroyAtOnce(m, x) ==
    IF x.heap = "none" THEN m
    ELSE doDestroyMemory(PVR2DDelayedMemDestroy(m, FALSE), x)

\* DestroyPVR2DMemory of memory that belongs to no pixmap any more.
DestroyPVR2DMemory(m, x) ==
    IF x.heap = "none" THEN m
    ELSE LET d == PVR2DDelayedMemDestroy(m, FALSE) IN
         IF ~x.mapped \/ QueryBlitsComplete(d, x) THEN doDestroyMemory(d, x)
         ELSE [d EXCEPT !.delayed = <<x>> \o @, !.handler = TRUE]

\* CleanupSharedSegments
CleanupSharedSegments(m) ==
    LET Kept(s) == {m.cache[s][i].seg : i \in DOMAIN m.cache[s]} IN
    [Detach(m, UNION {Kept(s) : s \in CachedSizes}) EXCEPT
       !.cache = [s \in CachedSizes |-> << >>]]

\* PVR2DUnmapAllPixmaps: PVR2DInvalidate of every pixmap that is not in use.
PVR2DUnmapAllPixmaps(m) ==
    [m EXCEPT !.pix = [p \in Pixmaps |->
        IF QueryBlitsComplete(m, @[p]) THEN [@[p] EXCEPT !.mapped = FALSE]
                                       ELSE @[p]]]

-----------------------------------------------------------------------------
(* Allocating *)

FreeSegments(m) == Segments \ m.live
CanAlloc(m, size) ==
    \/ size \in CachedSizes /\ m.cache[size] # << >>
    \/ FreeSegments(m) # {}

\* A new segment belongs to the CPU, which zeroed it.
NewSegment(s, size) == [NoMemory EXCEPT !.heap = "shm", !.seg = s, !.size = size,
                                        !.cpuWrites = TRUE]

(* mutant: GetFromCache leaves the segment in the cache *)
AllocShared(m, p, size) ==
    IF size \in CachedSizes /\ m.cache[size] # << >>
    THEN [m EXCEPT !.pix[p] = Last(m.cache[size])]
    ELSE LET s == CHOOSE s \in FreeSegments(m) : TRUE
         IN  [m EXCEPT !.live = @ \cup {s}, !.pix[p] = NewSegment(s, size)]

\* PVR2DAllocSHM for pixmap p: the last segment put into the cache, with all
\* that is known of it, or a new one, which is CPU owned and dirty.
PVR2DAllocSHM(m, p, size) ==
    IF size \in CachedSizes /\ m.cache[size] # << >>
    THEN [m EXCEPT !.cache[size] = Front(@),
                   !.pix[p] = Last(m.cache[size])]
    ELSE LET s == CHOOSE s \in FreeSegments(m) : TRUE
         IN  [m EXCEPT !.live = @ \cup {s}, !.pix[p] = NewSegment(s, size)]

PVR2DAllocNormal(m, p, size) ==
    [m EXCEPT !.pix[p] = [NoMemory EXCEPT !.heap = "malloc", !.size = size,
                                          !.cpuWrites = TRUE]]

\* PVR2DAllocatePixmapMem: the new memory is there before the old one goes.
PVR2DAllocatePixmapMem(m, p, heap, size) ==
    LET new == IF heap = "shm" THEN PVR2DAllocSHM(m, p, size)
                               ELSE PVR2DAllocNormal(m, p, size)
    IN  DestroyPVR2DMemory(new, m.pix[p])

-----------------------------------------------------------------------------
(* Ownership *)

\* PVR2DFlushCache: lines go to memory when the CPU wrote, and are dropped
\* when the SGX completed a write since the last time.
PVR2DFlushCache(m, p) ==
    LET x == m.pix[p]
        done == m.seg[x.seg].done
    IN  IF x.mapped /\ x.owner = "CPU" /\ x.cpuWrites
        THEN [m EXCEPT !.pix[p].cpuWrites = FALSE,
                       !.seg[x.seg].cpuNew = FALSE]
        ELSE IF x.mapped /\ x.owner = "GPU" /\ done # x.seen
        THEN [m EXCEPT !.pix[p].cpuWrites = FALSE, !.pix[p].seen = done,
                       !.seg[x.seg].gpuNew = FALSE]
        ELSE m

PVR2DPixmapOwnership_GPU(m, p) ==
    IF m.pix[p].owner = "GPU" THEN m
    ELSE [PVR2DFlushCache(m, p) EXCEPT !.pix[p].owner = "GPU"]

(* mutant: the CPU takes the memory without waiting for the SGX *)
OwnershipAtOnce(m, p) ==
    IF m.pix[p].owner = "CPU" THEN m
    ELSE [PVR2DFlushCache(m, p) EXCEPT !.pix[p].owner = "CPU"]

PVR2DPixmapOwnership_CPU(m, p) ==
    LET x == m.pix[p]
        idle == IF x.mapped THEN Await(m, x.seg) ELSE m
    IN  IF x.owner = "CPU" THEN idle
        ELSE [PVR2DFlushCache(idle, p) EXCEPT !.pix[p].owner = "CPU"]

\* PVR2DValidate, when its first tries of PVR2DMemWrap fail.  A new mapping
\* counts the SGX's writes from zero.  Without cleanup it reports success
\* after the third failure although nothing is mapped.
PVR2DValidate(m, p, cleanup, failures) ==
    LET x  == m.pix[p]
        m1 == IF failures >= 1 THEN PVR2DDelayedMemDestroy(m, FALSE) ELSE m
        m2 == IF failures >= 2 THEN PVR2DDelayedMemDestroy(m1, TRUE) ELSE m1
        m3 == IF failures >= 3 /\ cleanup
              THEN PVR2DUnmapAllPixmaps(CleanupSharedSegments(m2)) ELSE m2
    IN  IF x.mapped \/ x.heap # "shm" THEN m
        ELSE IF failures <= 2 \/ (failures = 3 /\ cleanup)
        THEN [m3 EXCEPT !.pix[p].mapped = TRUE, !.seg[x.seg].done = 0]
        ELSE m3
Validated(m, p, cleanup) ==
    m.pix[p].mapped \/ (~cleanup /\ m.pix[p].heap = "shm")

\* The CPU writes into the memory of p.
CpuWrites(m, p) ==
    IF m.pix[p].heap = "shm" THEN [m EXCEPT !.seg[m.pix[p].seg].cpuNew = TRUE]
                             ELSE m

(* mutant: bCPUWrites is not set for a destination *)
PrepareUnmarked(m, p, index) ==
    LET o == PVR2DPixmapOwnership_CPU(m, p) IN
    IF index = "dst" /\ m.pix[p].heap # "none" THEN CpuWrites(o, p) ELSE o

PVR2DPrepareAccess(m, p, index) ==
    LET o == PVR2DPixmapOwnership_CPU(m, p) IN
    IF index = "dst" /\ m.pix[p].heap # "none"
    THEN CpuWrites([o EXCEPT !.pix[p].cpuWrites = TRUE], p)
    ELSE o

PVR2DFinishAccess(m, p) ==
    IF m.pix[p].mapped THEN PVR2DPixmapOwnership_GPU(m, p) ELSE m

-----------------------------------------------------------------------------
(* Handlers.  EXA brackets a software operation with PrepareAccess and      *)
(* FinishAccess of its pixmaps; only the SGX goes on in between.            *)

NoAccess == \A p \in Pixmaps : mem.access[p] = "none"

\* A pixmap gets its first size, or another one.
PVR2DModifyPixmapHeader(p, heap, size) ==
    /\ NoAccess
    /\ <<heap, size>> # <<mem.pix[p].heap, mem.pix[p].size>>
    /\ heap = "shm" => CanAlloc(mem, size)
    /\ mem' = PVR2DAllocatePixmapMem(mem, p, heap, size)

PVR2DDestroyPixmap(p) ==
    /\ NoAccess
    /\ mem.pix[p].heap # "none"
    /\ mem' = DestroyPVR2DMemory([mem EXCEPT !.pix[p] = NoMemory], mem.pix[p])

PrepareAccess(p, index) ==
    /\ mem.access[p] = "none" /\ mem.pix[p].heap # "none"
    /\ mem' = [PVR2DPrepareAccess(mem, p, index) EXCEPT !.access[p] = index]

FinishAccess(p) ==
    /\ mem.access[p] # "none"
    /\ mem' = [PVR2DFinishAccess(mem, p) EXCEPT !.access[p] = "none"]

\* PVR2DPrepareSolid fails: EXA falls back to software, in its own time.
SolidRefused(p, failures) ==
    /\ NoAccess /\ mem.pix[p].heap # "none"
    /\ LET v == PVR2DValidate(mem, p, TRUE, failures) IN
       ~Validated(v, p, TRUE) /\ mem' = v

\* PVR2DSolid by the CPU, which it chooses for memory it owns or finds idle.
\* The pixmap stays with the CPU.
SolidBySoftware(p, failures) ==
    /\ NoAccess
    /\ LET v == PVR2DValidate(mem, p, TRUE, failures) IN
       /\ Validated(v, p, TRUE)
       /\ QueryBlitsComplete(v, v.pix[p])
       /\ mem' = CpuWrites([PVR2DPixmapOwnership_CPU(v, p) EXCEPT
                              !.pix[p].cpuWrites = TRUE], p)

SolidByHardware(p, failures) ==
    /\ NoAccess
    /\ LET v == PVR2DValidate(mem, p, TRUE, failures)
           s == v.pix[p].seg
       IN  /\ Validated(v, p, TRUE) /\ CanQueue(v, s)
           /\ mem' = Queue(PVR2DPixmapOwnership_GPU(v, p), NoSegment, s)

\* PVR2DPrepareCopy: the destination, then the source, without cleanup.
PrepareCopy(src, dst, failures) ==
    LET v == PVR2DValidate(mem, dst, TRUE, failures) IN
    IF Validated(v, dst, TRUE) THEN PVR2DValidate(v, src, FALSE, failures) ELSE v
CopyAccepted(v, src, dst) == Validated(v, dst, TRUE) /\ Validated(v, src, FALSE)

\* A destination may have been mapped for nothing.
CopyRefused(src, dst, failures) ==
    /\ NoAccess /\ mem.pix[src].heap # "none" /\ mem.pix[dst].heap # "none"
    /\ LET v == PrepareCopy(src, dst, failures) IN
       ~CopyAccepted(v, src, dst) /\ mem' = v

CopyBySoftware(src, dst, failures) ==
    /\ NoAccess
    /\ LET v == PrepareCopy(src, dst, failures)
           a == PVR2DPrepareAccess(PVR2DPrepareAccess(v, dst, "dst"), src, "src")
       IN  /\ CopyAccepted(v, src, dst)
           /\ QueryBlitsComplete(v, v.pix[dst])
           /\ QueryBlitsComplete(v, v.pix[src])
           /\ mem' = PVR2DFinishAccess(PVR2DFinishAccess(a, src), dst)

\* The library does nothing for a source that is not mapped.
CopyByHardware(src, dst, failures) ==
    /\ NoAccess
    /\ LET v == PrepareCopy(src, dst, failures)
           o == PVR2DPixmapOwnership_GPU(PVR2DPixmapOwnership_GPU(v, dst), src)
       IN  /\ CopyAccepted(v, src, dst) /\ CanQueue(v, v.pix[dst].seg)
           /\ mem' = IF v.pix[src].mapped
                     THEN Queue(o, v.pix[src].seg, v.pix[dst].seg) ELSE o

\* pvr2d_dri2_migrate_pixmap: a client is going to use the pixmap with the
\* SGX.  Malloc memory is copied into a segment first.
Moved(m, p) ==
    LET n == PVR2DPixmapOwnership_CPU(PVR2DAllocSHM(m, p, m.pix[p].size), p)
    IN  DestroyPVR2DMemory(CpuWrites(n, p), m.pix[p])
pvr2d_dri2_migrate_pixmap(p, failures) ==
    /\ NoAccess /\ mem.pix[p].heap # "none"
    /\ mem.pix[p].heap = "malloc" => CanAlloc(mem, mem.pix[p].size)
    /\ LET moved == IF mem.pix[p].heap = "malloc" THEN Moved(mem, p) ELSE mem
           v == PVR2DValidate(moved, p, TRUE, failures)
       IN  mem' = IF Validated(v, p, TRUE) THEN PVR2DPixmapOwnership_GPU(v, p)
                                           ELSE v

(* mutant: the block handler is unwrapped although there is more work *)
BlockHandlerOnce ==
    /\ mem.handler
    /\ mem' = [PVR2DDelayedMemDestroy(mem, FALSE) EXCEPT !.handler = FALSE]

\* The server is about to sleep.
PVR2DBlockHandler ==
    /\ mem.handler
    /\ LET d == PVR2DDelayedMemDestroy(mem, FALSE) IN
       mem' = [d EXCEPT !.handler = d.delayed # << >>]

BlitCompletes == mem.gpu # << >> /\ mem' = Retire(mem)

Next ==
    \/ \E p \in Pixmaps :
         \/ \E size \in ShmSizes : PVR2DModifyPixmapHeader(p, "shm", size)
         \/ \E size \in MallocSizes : PVR2DModifyPixmapHeader(p, "malloc", size)
         \/ PVR2DDestroyPixmap(p)
         \/ \E index \in {"src", "dst"} : PrepareAccess(p, index)
         \/ FinishAccess(p)
         \/ \E f \in 0..MaxWrapFailures :
              \/ SolidRefused(p, f)
              \/ SolidBySoftware(p, f)
              \/ SolidByHardware(p, f)
              \/ \E q \in Pixmaps : CopyRefused(q, p, f)
              \/ \E q \in Pixmaps : CopyBySoftware(q, p, f)
              \/ \E q \in Pixmaps : CopyByHardware(q, p, f)
              \/ pvr2d_dri2_migrate_pixmap(p, f)
    \/ PVR2DBlockHandler
    \/ BlitCompletes

Spec == Init /\ [][Next]_mem

-----------------------------------------------------------------------------
(* Properties *)

Memory == [heap : {"none", "shm", "malloc"}, seg : Segments \cup {NoSegment},
           size : Nat, mapped : BOOLEAN, owner : {"CPU", "GPU"},
           cpuWrites : BOOLEAN, seen : 0..MaxWrites]
Op == [src : Segments \cup {NoSegment}, dst : Segments]
State == [pix     : [Pixmaps -> Memory],
          access  : [Pixmaps -> {"none", "src", "dst"}],
          delayed : Seq(Memory),
          handler : BOOLEAN,
          cache   : [CachedSizes -> Seq(Memory)],
          live    : SUBSET Segments,
          seg     : [Segments -> [done : 0..MaxWrites, cpuNew : BOOLEAN,
                                  gpuNew : BOOLEAN]],
          gpu     : Seq(Op)]

\* Types, and the bounds of the queue of the SGX and of the cache.
TypeOK ==
    /\ mem \in State
    /\ \A s \in CachedSizes : Len(mem.cache[s]) <= CacheSize
    /\ Len(mem.gpu) <= MaxQueued

\* Everything that holds memory: a pixmap, an entry of the delayed list, an
\* entry of the cache.
Holders == {<<"pix", p>> : p \in Pixmaps}
           \cup {<<"delayed", i>> : i \in DOMAIN mem.delayed}
           \cup UNION {{<<"cache", s, i>> : i \in DOMAIN mem.cache[s]} :
                         s \in CachedSizes}
MemoryOf(h) ==
    CASE h[1] = "pix" -> mem.pix[h[2]]
      [] h[1] = "delayed" -> mem.delayed[h[2]]
      [] h[1] = "cache" -> mem.cache[h[2]][h[3]]

\* Every attached segment belongs to exactly one holder and no holder has a
\* segment that was detached: descriptions of memory are copied between the
\* pixmap, the delayed list and the cache (sgx_pvr2d_alloc.c:140-150, 313,
\* sgx_cache.c:165, 205), and a copy too many is freed twice or shown to two
\* pixmaps, a copy too few leaks a locked segment.
SegmentsHeldOnce ==
    \A s \in Segments :
        Cardinality({h \in Holders : MemoryOf(h).seg = s})
            = (IF s \in mem.live THEN 1 ELSE 0)

\* Memory the SGX still works on stays attached and mapped, whether or not
\* its pixmap is destroyed, resized or put into the cache meanwhile ("PVR2D
\* memory can only be freed once all PVR2D operations using it have
\* completed", sgx_pvr2d_alloc.c:32).
BusyMemoryKept ==
    \A s \in Segments :
        Busy(mem, s) => \E h \in Holders :
                            MemoryOf(h).seg = s /\ MemoryOf(h).mapped

\* Memory on the delayed list is looked after: the block handler stays wrapped
\* as long as there is any (sgx_pvr2d_alloc.c:107-114, 152-156).
DelayedIsWatched == mem.delayed # << >> => mem.handler

\* Nothing the SGX has yet to do, and nothing it wrote that the CPU cache does
\* not show, exists for memory the CPU owns: QueryBlitsComplete and the
\* software operations rely on it without asking the SGX (sgx_pvr2d.c:429).
CpuOwnedIsCurrent ==
    \A h \in Holders :
        LET x == MemoryOf(h) IN
        x.heap = "shm" /\ x.owner = "CPU" =>
            ~Busy(mem, x.seg) /\ ~mem.seg[x.seg].gpuNew

\* The CPU cache holds nothing that memory lacks once the SGX, here or in a
\* client, owns a segment: "Transfer ownership of a pixmap to GPU / It makes
\* sure the cache is flushed" (sgx_pvr2d.c:448).
GpuOwnedIsFlushed ==
    \A h \in Holders :
        LET x == MemoryOf(h) IN
        x.heap = "shm" /\ x.owner = "GPU" => ~mem.seg[x.seg].cpuNew
=============================================================================
