------------------------- MODULE PixmapMemoryProofs -------------------------
(***************************************************************************)
(* Theorems about PixmapMemory for every set of pixmaps, segments and      *)
(* sizes, every size of the cache and any number of SGX operations.        *)
(***************************************************************************)
EXTENDS PixmapMemory, FiniteSetTheorems, SequenceTheorems, TLAPS

-----------------------------------------------------------------------------
(* Loops.  A loop is a recursive function of the number of rounds; what a   *)
(* round preserves, the loop preserves.                                     *)

(* A set of natural numbers has a least element. *)
LEMMA Least ==
  ASSUME NEW S \in SUBSET Nat, S # {}
  PROVE  \E x \in S : \A y \in S : x <= y
<1>1. PICK x \in S : \A y \in S : <<y, x>> \notin OpToRel(<, Nat)
  BY NatLessThanWellFounded, WFMin
<1>2. \A y \in S : <<y, x>> \in OpToRel(<, Nat) <=> y < x
  BY DEF OpToRel
<1>3. \A y \in S : ~(y < x)
  BY <1>1, <1>2
<1> QED  BY <1>3

\* The results g of k rounds of F, from m on.
IsRun(F, m, k, g) == g[0] = m /\ \A n \in 1..k : g[n] = F[g[n - 1]]

(* A function F can be applied k times, each time to the last result. *)
LEMMA Rounds ==
  ASSUME NEW M, NEW F \in [M -> M], NEW m \in M, NEW k \in Nat
  PROVE  \E g \in [0..k -> M] : IsRun(F, m, k, g)
<1> DEFINE Run(j, g) == g[0] = m /\ \A n \in 1..j : g[n] = F[g[n - 1]]
           S == {j \in Nat : ~\E g \in [0..j -> M] : Run(j, g)}
<1>1. SUFFICES ASSUME S # {} PROVE FALSE
  BY <1>1 DEF IsRun
<1>2. PICK j \in S : \A i \in S : j <= i
  BY <1>1, Least
<1>3. CASE j = 0
  <2> DEFINE g == [n \in 0..j |-> m]
  <2>1. g \in [0..j -> M] /\ Run(j, g)
    BY <1>3
  <2> QED  BY <1>2, <2>1
<1>4. CASE j # 0
  <2>0. j \in Nat /\ S \subseteq Nat
    BY <1>2
  <2>1. j - 1 \in Nat /\ j - 1 \notin S
    <3> HIDE DEF S
    <3> QED  BY <1>2, <1>4, <2>0
  <2>2. PICK h \in [0..(j - 1) -> M] : Run(j - 1, h)
    BY <2>1
  <2> DEFINE g == [n \in 0..j |-> IF n = j THEN F[h[j - 1]] ELSE h[n]]
  <2>3. j \in Nat /\ h[j - 1] \in M /\ F[h[j - 1]] \in M
    BY <1>2, <2>1
  <2>4. g \in [0..j -> M]
    BY <2>3
  <2>5. g[0] = m
    BY <1>4, <2>2, <2>3
  <2>6. \A n \in 1..j : g[n] = F[g[n - 1]]
    <3> TAKE n \in 1..j
    <3>1. CASE n = j
      BY <2>3, <3>1
    <3>2. CASE n # j
      BY <2>2, <2>3, <3>2
    <3> QED  BY <3>1, <3>2
  <2> QED  BY <1>2, <2>4, <2>5, <2>6
<1> QED  BY <1>3, <1>4

(* A loop that starts in M and whose rounds stay in M stays in M. *)
LEMMA LoopStays ==
  ASSUME NEW M, NEW k \in Nat, NEW l, l[0] \in M,
         \A n \in 1..k : l[n - 1] \in M => l[n] \in M
  PROVE  \A n \in 0..k : l[n] \in M
<1> DEFINE S == {n \in 0..k : l[n] \notin M}
<1>1. SUFFICES ASSUME S # {} PROVE FALSE
  BY <1>1
<1>2. S \in SUBSET Nat
  OBVIOUS
<1>3. PICK n \in S : \A i \in S : n <= i
  <2> HIDE DEF S
  <2> QED  BY <1>1, <1>2, Least
<1>4. n \in 0..k /\ l[n] \notin M /\ n # 0
  BY <1>3
<1>5. n - 1 \notin S
  <2> HIDE DEF S
  <2> QED  BY <1>2, <1>3, <1>4
<1>6. n \in 1..k /\ l[n - 1] \in M
  BY <1>4, <1>5
<1> QED  BY <1>4, <1>6

-----------------------------------------------------------------------------
(* The inductive invariant.  It is about a state and a set H of memory in   *)
(* hand: memory that a handler has taken from a pixmap and not yet freed.   *)

\* PVR2DMemWrap works at the third try at the latest, so that neither
\* PVR2DUnmapAllPixmaps nor a source without mapping is reached: both leave
\* flags that do not tell what the cache and the memory hold.
FewFailures == MaxWrapFailures <= 2
\* A pixmap that is migrated does not get a segment from the cache, which
\* would not be marked as written by the CPU that copies into it.
NoneCached == MallocSizes \cap CachedSizes = {}

\* What kind of memory can be mapped and owned by the SGX.
Sane(x) ==
    /\ x \in Memory
    /\ x.heap = "shm" <=> x.seg # NoSegment
    /\ x.mapped \/ x.owner = "GPU" => x.heap = "shm"
    /\ x.heap = "malloc" => x.size \in MallocSizes

\* The SGX works on mapped memory that it owns.
Quiet(m, x) ==
    x.heap = "shm" /\ (~x.mapped \/ x.owner = "CPU") => ~Busy(m, x.seg)

\* What the SGX wrote and the CPU cache lacks is noticed with the next flush.
Current(m, x) ==
    x.heap = "shm" =>
        /\ x.owner = "CPU" => ~m.seg[x.seg].gpuNew
        /\ ~x.mapped => x.owner = "CPU" /\ x.seen = 0
        /\ x.mapped => x.seen <= m.seg[x.seg].done
        /\ x.mapped /\ m.seg[x.seg].gpuNew => x.seen < m.seg[x.seg].done

\* What the CPU wrote and memory lacks is flushed when the SGX gets it.
Flushed(m, x) ==
    x.heap = "shm" /\ m.seg[x.seg].cpuNew => x.owner = "CPU" /\ x.cpuWrites

Fine(m, x) ==
    /\ Sane(x)
    /\ Quiet(m, x)
    /\ FewFailures => Current(m, x)
    /\ FewFailures /\ NoneCached => Flushed(m, x)

Cached(m, x, size) == x.heap = "shm" /\ x.size = size /\ ~Busy(m, x.seg)

AllFine(m, H) ==
    /\ \A p \in Pixmaps : Fine(m, m.pix[p])
    /\ \A i \in 1..Len(m.delayed) : Fine(m, m.delayed[i]) /\ m.delayed[i].mapped
    /\ \A c \in CachedSizes : \A i \in 1..Len(m.cache[c]) :
          Fine(m, m.cache[c][i]) /\ Cached(m, m.cache[c][i], c)
    /\ \A x \in H : Fine(m, x)

\* No segment is held twice.
Shares(x, y) == x.seg = y.seg /\ x.seg # NoSegment
Apart(m, H) ==
    /\ \A p, q \in Pixmaps : Shares(m.pix[p], m.pix[q]) => p = q
    /\ \A i, j \in 1..Len(m.delayed) : Shares(m.delayed[i], m.delayed[j]) => i = j
    /\ \A c, d \in CachedSizes : \A i \in 1..Len(m.cache[c]), j \in 1..Len(m.cache[d]) :
          Shares(m.cache[c][i], m.cache[d][j]) => c = d /\ i = j
    /\ \A x, y \in H : Shares(x, y) => x = y
    /\ \A p \in Pixmaps, i \in 1..Len(m.delayed) : ~Shares(m.pix[p], m.delayed[i])
    /\ \A c \in CachedSizes : \A j \in 1..Len(m.cache[c]) :
          /\ \A p \in Pixmaps : ~Shares(m.pix[p], m.cache[c][j])
          /\ \A i \in 1..Len(m.delayed) : ~Shares(m.delayed[i], m.cache[c][j])
          /\ \A x \in H : ~Shares(x, m.cache[c][j])
    /\ \A x \in H :
          /\ \A p \in Pixmaps : ~Shares(x, m.pix[p])
          /\ \A i \in 1..Len(m.delayed) : ~Shares(x, m.delayed[i])

\* The segments that are held are the attached ones, and the SGX has nothing
\* to do with the others.
Held(m, H, s) ==
    \/ \E p \in Pixmaps : m.pix[p].seg = s
    \/ \E i \in 1..Len(m.delayed) : m.delayed[i].seg = s
    \/ \E c \in CachedSizes : \E i \in 1..Len(m.cache[c]) : m.cache[c][i].seg = s
    \/ \E x \in H : x.seg = s
Attached(m, H) ==
    \A s \in Segments :
        /\ s \in m.live <=> Held(m, H, s)
        /\ s \notin m.live => ~Busy(m, s) /\ ~m.seg[s].gpuNew

\* The bounds.
Writes(m, s) == {i \in 1..Len(m.gpu) : m.gpu[i].dst = s}
Bounded(m) ==
    /\ \A c \in CachedSizes : Len(m.cache[c]) <= CacheSize
    /\ Len(m.gpu) <= MaxQueued
    /\ \A s \in Segments : m.seg[s].done + Cardinality(Writes(m, s)) <= MaxWrites

Good(m, H) ==
    /\ m \in State /\ AllFine(m, H) /\ Apart(m, H) /\ Attached(m, H) /\ Bounded(m)
    /\ m.delayed # << >> => m.handler

PixmapInv == Good(mem, {})

-----------------------------------------------------------------------------
(* Operations of the SGX. *)

\* The same memory is held by the same holders.
SameHolders(m, r) ==
    /\ r.pix = m.pix /\ r.delayed = m.delayed /\ r.cache = m.cache
    /\ r.live = m.live

\* The SGX got no more to do.
NoBusier(m, r) == \A s \in Segments : Busy(r, s) => Busy(m, s)
FineKept(m, r) == \A x : Fine(m, x) => Fine(r, x)

(* The same holders are as far apart as before, *)
LEMMA SameApart ==
  ASSUME NEW m, NEW r, NEW H, SameHolders(m, r), Apart(m, H)
  PROVE  Apart(r, H)
BY DEF SameHolders, Apart

(* hold the same segments, *)
LEMMA SameHeld ==
  ASSUME NEW m, NEW r, NEW H, SameHolders(m, r)
  PROVE  \A s : Held(m, H, s) <=> Held(r, H, s)
BY DEF SameHolders, Held

(* Shared memory has a segment. *)
LEMMA SegOf == \A x : Sane(x) /\ x.heap = "shm" => x.seg \in Segments
BY DEF Sane, Memory, NoSegment

(* and have as fine memory, if what is fine stays so. *)
LEMMA SameFine ==
  ASSUME NEW m, NEW r, NEW H, SameHolders(m, r), NoBusier(m, r), FineKept(m, r),
         AllFine(m, H)
  PROVE  AllFine(r, H)
<1>1. ASSUME NEW x, NEW c, Fine(m, x), Cached(m, x, c) PROVE Cached(r, x, c)
  BY <1>1, SegOf DEF Cached, NoBusier, Fine
<1>2. \A p \in Pixmaps : Fine(r, r.pix[p])
  BY DEF AllFine, SameHolders, FineKept
<1>3. \A i \in 1..Len(r.delayed) : Fine(r, r.delayed[i]) /\ r.delayed[i].mapped
  BY DEF AllFine, SameHolders, FineKept
<1>4. \A c \in CachedSizes : \A i \in 1..Len(r.cache[c]) :
          Fine(r, r.cache[c][i]) /\ Cached(r, r.cache[c][i], c)
  BY <1>1 DEF AllFine, SameHolders, FineKept
<1>5. \A x \in H : Fine(r, x)
  BY DEF AllFine, FineKept
<1> QED  BY <1>2, <1>3, <1>4, <1>5 DEF AllFine

(* Writes of the oldest operation and of the others. *)
LEMMA OpsOf ==
  ASSUME NEW m \in State
  PROVE  /\ Len(m.gpu) \in Nat /\ DOMAIN m.gpu = 1..Len(m.gpu)
         /\ \A i \in 1..Len(m.gpu) : m.gpu[i] \in Op
         /\ \A s : IsFiniteSet(Writes(m, s)) /\ Cardinality(Writes(m, s)) \in Nat
<1>1. m.gpu \in Seq(Op)
  BY DEF State
<1>2. Len(m.gpu) \in Nat /\ DOMAIN m.gpu = 1..Len(m.gpu)
  BY <1>1, LenProperties
<1>3. ASSUME NEW s PROVE IsFiniteSet(Writes(m, s)) /\ Cardinality(Writes(m, s)) \in Nat
  <2>1. Writes(m, s) \in SUBSET (1..Len(m.gpu))
    BY DEF Writes
  <2>2. IsFiniteSet(1..Len(m.gpu))
    BY <1>2, FS_Interval
  <2> QED  BY <2>1, <2>2, FS_Subset, FS_CardinalityType
<1> QED  BY <1>1, <1>2, <1>3, ElementOfSeq

(* When the oldest operation is gone, so is its write. *)
LEMMA WritesTail ==
  ASSUME NEW m \in State, m.gpu # << >>, NEW r \in State, r.gpu = Tail(m.gpu), NEW s
  PROVE  Cardinality(Writes(r, s))
           = Cardinality(Writes(m, s)) - (IF Head(m.gpu).dst = s THEN 1 ELSE 0)
<1> DEFINE W == Writes(m, s)
           V == W \ {1}
           T == Writes(r, s)
           f == [i \in V |-> i - 1]
<1>1. /\ m.gpu \in Seq(Op) /\ Len(m.gpu) \in Nat /\ Len(m.gpu) >= 1
      /\ Len(r.gpu) = Len(m.gpu) - 1
      /\ \A i \in 1..Len(r.gpu) : r.gpu[i] = m.gpu[i + 1]
      /\ Head(m.gpu) = m.gpu[1]
  <2>1. m.gpu \in Seq(Op)
    BY DEF State
  <2> QED  BY <2>1, HeadTailProperties, EmptySeq
<1>2. V = {i \in 2..Len(m.gpu) : m.gpu[i].dst = s}
  BY <1>1 DEF Writes
<1>3. T = {i \in 1..(Len(m.gpu) - 1) : m.gpu[i + 1].dst = s}
  BY <1>1 DEF Writes
<1>4. f \in Bijection(V, T)
  <2>1. f \in [V -> T]
    BY <1>1, <1>2, <1>3
  <2>2. \A i, j \in V : f[i] = f[j] => i = j
    BY <1>1, <1>2
  <2>3. \A j \in T : \E i \in V : f[i] = j
    <3> TAKE j \in T
    <3>1. j + 1 \in V /\ f[j + 1] = j
      BY <1>1, <1>2, <1>3
    <3> QED  BY <3>1
  <2> HIDE DEF f, V, T
  <2> QED  BY <2>1, <2>2, <2>3 DEF Bijection, Injection, IsInjective, Surjection
<1>5. ExistsBijection(V, T)
  BY <1>4 DEF ExistsBijection
<1>6. IsFiniteSet(W) /\ Cardinality(W) \in Nat
  BY OpsOf
<1>7. IsFiniteSet(V) /\ Cardinality(V) = IF 1 \in W THEN Cardinality(W) - 1 ELSE Cardinality(W)
  BY <1>6, FS_RemoveElement
<1>8. Cardinality(T) = Cardinality(V)
  BY <1>5, <1>7, FS_Bijection
<1>9. 1 \in W <=> Head(m.gpu).dst = s
  BY <1>1 DEF Writes
<1> HIDE DEF W, V, T, f
<1>10. Cardinality(T) = Cardinality(W) - (IF Head(m.gpu).dst = s THEN 1 ELSE 0)
  BY <1>6, <1>7, <1>8, <1>9
<1> QED  BY <1>10 DEF W, T

(* What an operation that finishes changes. *)
LEMMA RetireFields ==
  ASSUME NEW m \in State, m.gpu # << >>, Bounded(m)
  PROVE  LET r == Retire(m)
             dst == Head(m.gpu).dst
         IN  /\ r \in State
             /\ SameHolders(m, r) /\ r.access = m.access /\ r.handler = m.handler
             /\ dst \in Segments /\ Busy(m, dst) /\ NoBusier(m, r)
             /\ r.gpu = Tail(m.gpu) /\ Len(r.gpu) = Len(m.gpu) - 1
             /\ \A s \in Segments :
                   /\ r.seg[s].done = m.seg[s].done + (IF s = dst THEN 1 ELSE 0)
                   /\ r.seg[s].cpuNew = m.seg[s].cpuNew
                   /\ r.seg[s].gpuNew <=> (s = dst \/ m.seg[s].gpuNew)
<1> DEFINE r == Retire(m)
           dst == Head(m.gpu).dst
<1>1. /\ m.gpu \in Seq(Op) /\ Head(m.gpu) \in Op /\ Tail(m.gpu) \in Seq(Op)
      /\ Len(Tail(m.gpu)) = Len(m.gpu) - 1 /\ Len(m.gpu) >= 1
      /\ \A i \in 1..Len(Tail(m.gpu)) : Tail(m.gpu)[i] = m.gpu[i + 1]
      /\ Head(m.gpu) = m.gpu[1]
      /\ DOMAIN m.gpu = 1..Len(m.gpu)
      /\ DOMAIN Tail(m.gpu) = 1..Len(Tail(m.gpu))
  <2>1. m.gpu \in Seq(Op)
    BY DEF State
  <2> QED  BY <2>1, HeadTailProperties, EmptySeq, LenProperties
<1>2. dst \in Segments
  BY <1>1 DEF Op
<1>3. m.seg[dst].done + 1 \in 0..MaxWrites
  <2>1. 1 \in Writes(m, dst)
    BY <1>1 DEF Writes
  <2>2. IsFiniteSet(Writes(m, dst)) /\ Cardinality(Writes(m, dst)) \in Nat
    BY OpsOf
  <2>3. Cardinality(Writes(m, dst)) # 0
    BY <2>1, <2>2, FS_EmptySet
  <2>4. m.seg[dst].done \in 0..MaxWrites
    BY <1>2 DEF State
  <2>5. m.seg[dst].done + Cardinality(Writes(m, dst)) <= MaxWrites
    BY <1>2 DEF Bounded
  <2> QED  BY <2>2, <2>3, <2>4, <2>5, PixmapMemoryAssumption
<1>4. /\ r.pix = m.pix /\ r.delayed = m.delayed /\ r.cache = m.cache
      /\ r.live = m.live /\ r.access = m.access /\ r.handler = m.handler
      /\ r.gpu = Tail(m.gpu)
      /\ r.seg = [[m.seg EXCEPT ![dst].done = @ + 1] EXCEPT ![dst].gpuNew = TRUE]
  BY DEF Retire, State
<1>10. m.seg \in [Segments -> [done : 0..MaxWrites, cpuNew : BOOLEAN, gpuNew : BOOLEAN]]
  BY DEF State
<1>11. /\ DOMAIN r.seg = Segments
       /\ \A s \in Segments : s # dst => r.seg[s] = m.seg[s]
       /\ r.seg[dst] = [done |-> m.seg[dst].done + 1, cpuNew |-> m.seg[dst].cpuNew,
                        gpuNew |-> TRUE]
       /\ r.seg = [s \in Segments |-> r.seg[s]]
  <2> HIDE DEF r, dst
  <2>1. m.seg[dst] = [done |-> m.seg[dst].done, cpuNew |-> m.seg[dst].cpuNew,
                      gpuNew |-> m.seg[dst].gpuNew]
    BY <1>2, <1>10
  <2> QED  BY <1>2, <1>4, <1>10, <2>1
<1>5. r.seg \in [Segments -> [done : 0..MaxWrites, cpuNew : BOOLEAN, gpuNew : BOOLEAN]]
  <2>1. \A s \in Segments : r.seg[s] \in [done : 0..MaxWrites, cpuNew : BOOLEAN, gpuNew : BOOLEAN]
    <3> TAKE s \in Segments
    <3>1. CASE s = dst
      <4>1. m.seg[dst].cpuNew \in BOOLEAN
        BY <1>2, <1>10
      <4>2. r.seg[dst] \in [done : 0..MaxWrites, cpuNew : BOOLEAN, gpuNew : BOOLEAN]
        <5> HIDE DEF r, dst
        <5> QED  BY <1>3, <1>11, <4>1
      <4> QED  BY <3>1, <4>2
    <3>2. CASE s # dst
      <4> HIDE DEF r, dst
      <4> QED  BY <1>10, <1>11, <3>2
    <3> QED  BY <3>1, <3>2
  <2> HIDE DEF r, dst
  <2> QED  BY <1>11, <2>1
<1>6. r \in State
  BY <1>1, <1>4, <1>5 DEF Retire, State
<1>7. \A s : Busy(r, s) => Busy(m, s)
  <2> TAKE s
  <2>1. ASSUME NEW i \in DOMAIN Tail(m.gpu), Uses(Tail(m.gpu)[i], s) PROVE Busy(m, s)
    <3>1. i + 1 \in DOMAIN m.gpu /\ Tail(m.gpu)[i] = m.gpu[i + 1]
      BY <1>1
    <3> QED  BY <2>1, <3>1 DEF Busy
  <2> QED  BY <1>4, <2>1 DEF Busy
<1>8. Busy(m, dst)
  BY <1>1 DEF Busy, Uses
<1>9. \A s \in Segments :
         /\ r.seg[s].done = m.seg[s].done + (IF s = dst THEN 1 ELSE 0)
         /\ r.seg[s].cpuNew = m.seg[s].cpuNew
         /\ r.seg[s].gpuNew <=> (s = dst \/ m.seg[s].gpuNew)
  <2> HIDE DEF r, dst
  <2> QED  BY <1>2, <1>10, <1>11
<1> QED  BY <1>1, <1>2, <1>4, <1>6, <1>7, <1>8, <1>9 DEF SameHolders, NoBusier

(* Memory is as fine as before, *)
LEMMA RetireFine ==
  ASSUME NEW m \in State, m.gpu # << >>, Bounded(m)
  PROVE  FineKept(m, Retire(m))
<1> DEFINE r == Retire(m)
           dst == Head(m.gpu).dst
<1>1. /\ dst \in Segments /\ Busy(m, dst) /\ NoBusier(m, r)
      /\ \A s \in Segments :
            /\ r.seg[s].done = m.seg[s].done + (IF s = dst THEN 1 ELSE 0)
            /\ r.seg[s].cpuNew = m.seg[s].cpuNew
            /\ r.seg[s].gpuNew <=> (s = dst \/ m.seg[s].gpuNew)
  BY RetireFields
<1>2. \A s \in Segments : m.seg[s].done \in 0..MaxWrites
  BY DEF State
<1> SUFFICES ASSUME NEW x, Fine(m, x) PROVE Fine(r, x)
  BY DEF FineKept
<1>3. x.heap = "shm" => x.seg \in Segments
  BY SegOf DEF Fine
<1>4. Quiet(r, x)
  BY <1>1, <1>3 DEF Fine, Quiet, NoBusier
<1>5. ASSUME FewFailures PROVE Current(r, x)
  <2>1. x.seen \in Int
    BY PixmapMemoryAssumption DEF Fine, Sane, Memory
  <2>2. x.heap = "shm" /\ x.seg = dst => x.mapped /\ x.owner # "CPU"
    BY <1>1 DEF Fine, Quiet
  <2>3. Current(m, x)
    BY <1>5 DEF Fine
  <2> HIDE DEF r, dst
  <2>4. ASSUME x.heap = "shm", x.seg = dst PROVE Current(r, x)
    BY <1>1, <1>2, <1>3, <2>1, <2>2, <2>3, <2>4 DEF Current
  <2>5. ASSUME x.heap = "shm", x.seg # dst PROVE Current(r, x)
    BY <1>1, <1>2, <1>3, <2>1, <2>3, <2>5 DEF Current
  <2> QED  BY <2>4, <2>5 DEF Current
<1>6. ASSUME FewFailures, NoneCached PROVE Flushed(r, x)
  BY <1>1, <1>3, <1>6 DEF Fine, Flushed
<1> QED  BY <1>4, <1>5, <1>6 DEF Fine

(* and the whole state is. *)
LEMMA RetireGood ==
  ASSUME NEW m, NEW H, Good(m, H), m.gpu # << >>
  PROVE  Good(Retire(m), H)
<1> DEFINE r == Retire(m)
           dst == Head(m.gpu).dst
<1>1. m \in State /\ Bounded(m) /\ AllFine(m, H) /\ Apart(m, H) /\ Attached(m, H)
  BY DEF Good
<1>2. /\ r \in State
      /\ SameHolders(m, r)
      /\ dst \in Segments /\ Busy(m, dst) /\ NoBusier(m, r)
      /\ r.gpu = Tail(m.gpu) /\ Len(r.gpu) = Len(m.gpu) - 1
      /\ \A s \in Segments :
            /\ r.seg[s].done = m.seg[s].done + (IF s = dst THEN 1 ELSE 0)
            /\ r.seg[s].gpuNew <=> (s = dst \/ m.seg[s].gpuNew)
  BY <1>1, RetireFields
<1> HIDE DEF r, dst
<1>3. AllFine(r, H)
  BY <1>1, <1>2, RetireFine, SameFine DEF r
<1>4. Apart(r, H)
  BY <1>1, <1>2, SameApart
<1>5. Attached(r, H)
  <2>1. \A s : Held(m, H, s) <=> Held(r, H, s)
    BY <1>2, SameHeld
  <2>2. r.live = m.live
    BY <1>2 DEF SameHolders
  <2> QED  BY <1>1, <1>2, <2>1, <2>2 DEF Attached, NoBusier
<1>6. Bounded(r)
  <2>1. \A c \in CachedSizes : Len(r.cache[c]) <= CacheSize
    BY <1>1, <1>2 DEF Bounded, SameHolders
  <2>2. Len(r.gpu) <= MaxQueued
    BY <1>1, <1>2, OpsOf, PixmapMemoryAssumption DEF Bounded
  <2>3. ASSUME NEW s \in Segments
        PROVE  r.seg[s].done + Cardinality(Writes(r, s)) <= MaxWrites
    <3>1. Cardinality(Writes(r, s)) = Cardinality(Writes(m, s)) - (IF dst = s THEN 1 ELSE 0)
      BY <1>1, <1>2, WritesTail DEF dst
    <3>2. Cardinality(Writes(m, s)) \in Nat /\ m.seg[s].done \in 0..MaxWrites
      BY <1>1, OpsOf DEF State
    <3>3. m.seg[s].done + Cardinality(Writes(m, s)) <= MaxWrites
      BY <1>1 DEF Bounded
    <3> QED  BY <1>2, <3>1, <3>2, <3>3, PixmapMemoryAssumption
  <2> QED  BY <2>1, <2>2, <2>3 DEF Bounded
<1>7. r.delayed # << >> => r.handler
  BY <1>1, RetireFields DEF Good, SameHolders, r
<1> QED  BY <1>2, <1>3, <1>4, <1>5, <1>6, <1>7 DEF Good, r

\* The SGX went on, and nothing else happened.
SgxOnly(m, r) ==
    /\ SameHolders(m, r) /\ r.access = m.access /\ r.handler = m.handler
    /\ NoBusier(m, r)

(* Waiting ends with nothing under way that uses the segment. *)
LEMMA AwaitGood ==
  ASSUME NEW m, NEW H, Good(m, H), NEW s \in Segments
  PROVE  /\ Good(Await(m, s), H) /\ SgxOnly(m, Await(m, s))
         /\ ~Busy(Await(m, s), s)
<1> DEFINE M == {y \in State : Good(y, H) /\ SgxOnly(m, y)}
           F == [y \in M |-> RetireFor(y, s)]
           k == Len(m.gpu)
           l == CHOOSE l : l = [n \in 0..Len(m.gpu) |-> IF n = 0 THEN m ELSE RetireFor(l[n - 1], s)]
<1>1. m \in State /\ Bounded(m) /\ k \in Nat
  BY OpsOf DEF Good
<1>2. m \in M
  BY <1>1 DEF SgxOnly, SameHolders, NoBusier
<1>3. ASSUME NEW y \in M
      PROVE  /\ RetireFor(y, s) \in M
             /\ Busy(y, s) => Len(RetireFor(y, s).gpu) = Len(y.gpu) - 1
             /\ ~Busy(y, s) => RetireFor(y, s) = y
  <2>1. CASE Busy(y, s)
    <3>1. y \in State /\ Bounded(y) /\ Good(y, H) /\ SgxOnly(m, y)
      BY DEF Good
    <3>2. y.gpu # << >>
      BY <2>1, <3>1, OpsOf DEF Busy
    <3>3. RetireFor(y, s) = Retire(y)
      BY <2>1 DEF RetireFor
    <3>4. /\ Retire(y) \in State /\ Good(Retire(y), H)
          /\ SameHolders(y, Retire(y)) /\ Retire(y).access = y.access
          /\ Retire(y).handler = y.handler /\ NoBusier(y, Retire(y))
          /\ Len(Retire(y).gpu) = Len(y.gpu) - 1
      BY <3>1, <3>2, RetireFields, RetireGood
    <3>5. SgxOnly(m, Retire(y))
      BY <3>1, <3>4 DEF SgxOnly, SameHolders, NoBusier
    <3> QED  BY <2>1, <3>3, <3>4, <3>5
  <2>2. CASE ~Busy(y, s)
    BY <2>2 DEF RetireFor
  <2> QED  BY <2>1, <2>2
<1>4. F \in [M -> M]
  BY <1>3
<1>5. PICK g \in [0..k -> M] : IsRun(F, m, k, g)
  <2> HIDE DEF M, F, k, l
  <2>1. k \in Nat
    BY <1>1
  <2> QED  BY <1>2, <1>4, <2>1, Rounds
<1>6. l = [n \in 0..Len(m.gpu) |-> IF n = 0 THEN m ELSE RetireFor(l[n - 1], s)]
  <2>1. \A n \in 1..k : g[n - 1] \in M
    BY <1>1, <1>5
  <2>2. g[0] = m /\ \A n \in 1..k : g[n] = RetireFor(g[n - 1], s)
    BY <1>5, <2>1 DEF IsRun
  <2>3. g = [n \in 0..Len(m.gpu) |-> IF n = 0 THEN m ELSE RetireFor(g[n - 1], s)]
    <3> HIDE DEF M, F
    <3> QED  BY <1>1, <2>2
  <2> QED  BY <2>3
<1>7. Await(m, s) = l[k]
  BY DEF Await
<1>8. l[0] = m /\ \A n \in 1..k : l[n] = RetireFor(l[n - 1], s)
  <2> HIDE DEF l, M, F
  <2>1. 0 \in 0..k /\ 1..k \subseteq 0..k
    BY <1>1
  <2>2. l[0] = m
    BY <1>6, <2>1
  <2>3. ASSUME NEW n \in 1..k PROVE l[n] = RetireFor(l[n - 1], s)
    <3>1. n \in 0..Len(m.gpu) /\ n # 0
      BY <1>1
    <3> QED  BY <1>6, <3>1
  <2> QED  BY <2>2, <2>3
<1>9. \A n \in 0..k : l[n] \in M
  <2>1. \A n \in 1..k : l[n - 1] \in M => l[n] \in M
    <3> HIDE DEF l, M, k
    <3> QED  BY <1>3, <1>8
  <2> HIDE DEF l, M, k
  <2> QED  BY <1>1, <1>2, <1>8, <2>1, LoopStays
<1> DEFINE N == {y \in 0..k : TRUE}
           P(n) == ~Busy(l[n], s) \/ Len(l[n].gpu) = k - n
           X == {n \in 0..k : ~P(n)}
<1>10. X = {}
  <2> SUFFICES ASSUME X # {} PROVE FALSE
    OBVIOUS
  <2>1. X \in SUBSET Nat
    OBVIOUS
  <2>2. PICK n \in X : \A i \in X : n <= i
    <3> HIDE DEF X
    <3> QED  BY <2>1, Least
  <2>3. n \in 0..k /\ n # 0
    BY <1>8, <1>1, <2>2
  <2>4. n - 1 \notin X
    <3> HIDE DEF X
    <3> QED  BY <2>1, <2>2, <2>3
  <2>5. n \in 1..k /\ n - 1 \in 0..k /\ P(n - 1)
    <3>1. n \in 1..k /\ n - 1 \in 0..k
      BY <1>1, <2>3
    <3> QED  BY <2>4, <3>1
  <2>6. l[n - 1] \in M /\ l[n] = RetireFor(l[n - 1], s)
    <3> HIDE DEF l, M, k
    <3> QED  BY <1>8, <1>9, <2>5
  <2>7. CASE ~Busy(l[n - 1], s)
    <3>1. l[n] = l[n - 1]
      <4> HIDE DEF l, M, k
      <4> QED  BY <1>3, <2>6, <2>7
    <3> QED  BY <2>2, <2>7, <3>1
  <2>8. CASE Busy(l[n - 1], s)
    <3>1. Len(l[n].gpu) = Len(l[n - 1].gpu) - 1
      <4> HIDE DEF l, M, k
      <4> QED  BY <1>3, <2>6, <2>8
    <3>2. Len(l[n - 1].gpu) = k - (n - 1)
      BY <2>5, <2>8
    <3>3. Len(l[n].gpu) = k - n
      <4> HIDE DEF l
      <4> QED  BY <1>1, <2>3, <3>1, <3>2
    <3> QED  BY <2>2, <3>3
  <2> QED  BY <2>7, <2>8
<1>11. ~Busy(l[k], s)
  <2>1. P(k) /\ l[k] \in M
    <3> HIDE DEF l, M
    <3> QED  BY <1>1, <1>9, <1>10
  <2>2. ASSUME Len(l[k].gpu) = k - k PROVE ~Busy(l[k], s)
    <3> HIDE DEF l
    <3>1. Len(l[k].gpu) = 0 /\ DOMAIN l[k].gpu = 1..Len(l[k].gpu)
      BY <1>1, <2>1, <2>2, OpsOf
    <3> QED  BY <3>1 DEF Busy
  <2> QED  BY <2>1, <2>2
<1>12. l[k] \in M
  <2> HIDE DEF l, M
  <2> QED  BY <1>1, <1>9
<1> HIDE DEF l
<1> QED  BY <1>7, <1>11, <1>12

-----------------------------------------------------------------------------
(* Memory changes hands. *)

\* Pixmaps and the block handler are left alone.
PixmapsKept(m, r) == r.pix = m.pix /\ r.access = m.access /\ r.handler = m.handler

(* The types of the fields of a state. *)
LEMMA Parts ==
  ASSUME NEW m \in State
  PROVE  /\ m.pix \in [Pixmaps -> Memory]
         /\ m.delayed \in Seq(Memory) /\ Len(m.delayed) \in Nat
         /\ \A c \in CachedSizes : m.cache[c] \in Seq(Memory) /\ Len(m.cache[c]) \in Nat
         /\ m.cache \in [CachedSizes -> Seq(Memory)]
         /\ m.live \in SUBSET Segments
         /\ m.seg \in [Segments -> [done : 0..MaxWrites, cpuNew : BOOLEAN, gpuNew : BOOLEAN]]
         /\ FreshSegment \in [done : 0..MaxWrites, cpuNew : BOOLEAN, gpuNew : BOOLEAN]
<1>1. /\ m.pix \in [Pixmaps -> Memory] /\ m.delayed \in Seq(Memory)
      /\ m.cache \in [CachedSizes -> Seq(Memory)] /\ m.live \in SUBSET Segments
      /\ m.seg \in [Segments -> [done : 0..MaxWrites, cpuNew : BOOLEAN, gpuNew : BOOLEAN]]
  BY DEF State
<1>2. \A c \in CachedSizes : m.cache[c] \in Seq(Memory) /\ Len(m.cache[c]) \in Nat
  BY <1>1, LenProperties
<1>3. Len(m.delayed) \in Nat
  BY <1>1, LenProperties
<1>4. FreshSegment \in [done : 0..MaxWrites, cpuNew : BOOLEAN, gpuNew : BOOLEAN]
  BY PixmapMemoryAssumption DEF FreshSegment
<1> QED  BY <1>1, <1>2, <1>3, <1>4

(* What is fine depends on what the SGX knows of the segment and has to do. *)
LEMMA FineLocal ==
  ASSUME NEW m, NEW r, NEW x, r.gpu = m.gpu, Fine(m, x),
         x.heap = "shm" => r.seg[x.seg] = m.seg[x.seg]
  PROVE  Fine(r, x) /\ \A c : Cached(m, x, c) => Cached(r, x, c)
<1>1. \A s : Busy(r, s) <=> Busy(m, s)
  BY DEF Busy
<1>2. Quiet(r, x) /\ \A c : Cached(m, x, c) => Cached(r, x, c)
  BY <1>1 DEF Fine, Quiet, Cached
<1>3. FewFailures => Current(r, x)
  BY DEF Fine, Current
<1>4. FewFailures /\ NoneCached => Flushed(r, x)
  BY DEF Fine, Flushed
<1> QED  BY <1>2, <1>3, <1>4 DEF Fine

(* Memory in hand whose segment the SGX has done with is detached. *)
LEMMA DetachGood ==
  ASSUME NEW m, NEW H, Good(m, H), NEW x \in H,
         x.heap = "shm" => ~Busy(m, x.seg)
  PROVE  /\ Good(Detach(m, {x.seg}), H \ {x})
         /\ PixmapsKept(m, Detach(m, {x.seg}))
<1> DEFINE r == Detach(m, {x.seg})
           G == H \ {x}
<1>1. m \in State /\ AllFine(m, H) /\ Apart(m, H) /\ Attached(m, H) /\ Bounded(m)
  BY DEF Good
<1>2. /\ r.pix = m.pix /\ r.delayed = m.delayed /\ r.cache = m.cache
      /\ r.live = m.live \ {x.seg} /\ r.access = m.access /\ r.handler = m.handler
      /\ r.gpu = m.gpu
      /\ r.seg = [s \in Segments |-> IF s = x.seg THEN FreshSegment ELSE m.seg[s]]
  BY <1>1 DEF Detach, State
<1>3. r \in State
  <2>1. r.live \in SUBSET Segments
    BY <1>1, <1>2, Parts
  <2>2. r.seg \in [Segments -> [done : 0..MaxWrites, cpuNew : BOOLEAN, gpuNew : BOOLEAN]]
    <3>1. \A s \in Segments : (IF s = x.seg THEN FreshSegment ELSE m.seg[s])
            \in [done : 0..MaxWrites, cpuNew : BOOLEAN, gpuNew : BOOLEAN]
      BY <1>1, Parts
    <3> HIDE DEF r
    <3> QED  BY <1>2, <3>1
  <2> QED  BY <1>1, <1>2, <2>1, <2>2 DEF Detach, State
<1> HIDE DEF r
<1>4. \A s : Busy(r, s) <=> Busy(m, s)
  BY <1>2 DEF Busy
<1>5. Sane(x) /\ Fine(m, x)
  BY <1>1 DEF AllFine, Fine
<1>6. ASSUME NEW y, Fine(m, y), ~Shares(y, x)
      PROVE  Fine(r, y) /\ \A c : Cached(m, y, c) => Cached(r, y, c)
  <2>1. y.heap = "shm" => y.seg \in Segments /\ y.seg # NoSegment
    BY <1>6, SegOf DEF Fine, Sane
  <2>2. y.heap = "shm" => r.seg[y.seg] = m.seg[y.seg]
    BY <1>2, <1>6, <2>1 DEF Shares
  <2> QED  BY <1>2, <1>6, <2>2, FineLocal
<1>7. /\ \A p \in Pixmaps : ~Shares(m.pix[p], x)
      /\ \A i \in 1..Len(m.delayed) : ~Shares(m.delayed[i], x)
      /\ \A c \in CachedSizes : \A i \in 1..Len(m.cache[c]) : ~Shares(m.cache[c][i], x)
      /\ \A y \in G : ~Shares(y, x)
  BY <1>1 DEF Apart, Shares
<1>8. AllFine(r, G)
  BY <1>1, <1>2, <1>6, <1>7 DEF AllFine
<1>9. Apart(r, G)
  BY <1>1, <1>2 DEF Apart
<1>10. Attached(r, G)
  <2> SUFFICES ASSUME NEW s \in Segments
               PROVE  /\ s \in r.live <=> Held(r, G, s)
                      /\ s \notin r.live => ~Busy(r, s) /\ ~r.seg[s].gpuNew
    BY DEF Attached
  <2>1. s # NoSegment
    BY PixmapMemoryAssumption DEF NoSegment
  <2>2. CASE s = x.seg
    <3>1. ~Held(r, G, s)
      BY <1>2, <1>7, <2>1, <2>2 DEF Held, Shares
    <3>2. x.heap = "shm"
      BY <1>5, <2>1, <2>2 DEF Sane
    <3>3. ~Busy(r, s) /\ ~r.seg[s].gpuNew
      BY <1>2, <1>4, <2>2, <3>2 DEF FreshSegment
    <3> QED  BY <1>2, <2>2, <3>1, <3>3
  <2>3. CASE s # x.seg
    <3>1. Held(r, G, s) <=> Held(m, H, s)
      BY <1>2, <2>3 DEF Held
    <3> QED  BY <1>1, <1>2, <1>4, <2>3, <3>1 DEF Attached
  <2> QED  BY <2>2, <2>3
<1>11. Bounded(r)
  <2>1. ASSUME NEW s \in Segments PROVE r.seg[s].done + Cardinality(Writes(r, s)) <= MaxWrites
    <3>1. Writes(r, s) = Writes(m, s)
      BY <1>2 DEF Writes
    <3>2. r.seg[s].done <= m.seg[s].done /\ r.seg[s].done \in Int /\ m.seg[s].done \in Int
      <4>1. m.seg[s].done \in 0..MaxWrites
        BY <1>1, Parts
      <4>2. r.seg[s] = m.seg[s] \/ r.seg[s].done = 0
        BY <1>2 DEF FreshSegment
      <4> QED  BY <4>1, <4>2, PixmapMemoryAssumption
    <3>3. m.seg[s].done + Cardinality(Writes(m, s)) <= MaxWrites /\ Cardinality(Writes(m, s)) \in Nat
      BY <1>1, OpsOf DEF Bounded
    <3> QED  BY <3>1, <3>2, <3>3, PixmapMemoryAssumption
  <2> QED  BY <1>1, <1>2, <2>1 DEF Bounded
<1>12. /\ r.pix = m.pix /\ r.access = m.access /\ r.handler = m.handler
       /\ r.delayed # << >> => r.handler
  BY <1>2 DEF Good
<1> QED  BY <1>3, <1>8, <1>9, <1>10, <1>11, <1>12 DEF Good, PixmapsKept, r

(* Or it is kept in the cache, if there is room. *)
LEMMA CacheGood ==
  ASSUME NEW m, NEW H, Good(m, H), NEW x \in H, Cacheable(m, x), ~Busy(m, x.seg)
  PROVE  /\ Good([m EXCEPT !.cache[x.size] = Append(@, x)], H \ {x})
         /\ PixmapsKept(m, [m EXCEPT !.cache[x.size] = Append(@, x)])
<1> DEFINE r == [m EXCEPT !.cache[x.size] = Append(@, x)]
           G == H \ {x}
           k == Len(m.cache[x.size]) + 1
<1>1. m \in State /\ AllFine(m, H) /\ Apart(m, H) /\ Attached(m, H) /\ Bounded(m)
  BY DEF Good
<1>2. /\ r.pix = m.pix /\ r.delayed = m.delayed
      /\ r.cache = [m.cache EXCEPT ![x.size] = Append(@, x)]
      /\ r.live = m.live /\ r.access = m.access /\ r.handler = m.handler
      /\ r.gpu = m.gpu /\ r.seg = m.seg
  BY <1>1 DEF State
<1>3. x.heap = "shm" /\ x.size \in CachedSizes /\ k <= CacheSize /\ x \in Memory /\ k \in Nat
      /\ x.seg # NoSegment
  <2>1. Sane(x)
    BY <1>1 DEF AllFine, Fine
  <2> QED  BY <1>1, <2>1, Parts, PixmapMemoryAssumption DEF Cacheable, Sane
<1>4. /\ Append(m.cache[x.size], x) \in Seq(Memory)
      /\ Len(Append(m.cache[x.size], x)) = k
      /\ \A i \in 1..k : Append(m.cache[x.size], x)[i] = IF i = k THEN x ELSE m.cache[x.size][i]
  <2>1. m.cache[x.size] \in Seq(Memory)
    BY <1>1, <1>3, Parts
  <2> HIDE DEF r
  <2> QED  BY <1>3, <2>1, AppendProperties
<1>5. r \in State
  <2>1. r.cache \in [CachedSizes -> Seq(Memory)]
    <3>1. m.cache \in [CachedSizes -> Seq(Memory)]
      BY <1>1, Parts
    <3> HIDE DEF r
    <3> QED  BY <1>2, <1>4, <3>1
  <2> QED  BY <1>1, <1>2, <2>1 DEF State
<1> HIDE DEF r
<1>6. /\ \A c \in CachedSizes : c # x.size => r.cache[c] = m.cache[c]
      /\ r.cache[x.size] = Append(m.cache[x.size], x)
  BY <1>1, <1>2, <1>3, Parts
<1>7. \A c \in CachedSizes : \A i \in 1..Len(r.cache[c]) :
         \/ c = x.size /\ i = k /\ r.cache[c][i] = x
         \/ i \in 1..Len(m.cache[c]) /\ r.cache[c][i] = m.cache[c][i]
  <2> TAKE c \in CachedSizes
  <2> TAKE i \in 1..Len(r.cache[c])
  <2>1. CASE c = x.size
    <3>1. Len(m.cache[x.size]) \in Nat
      BY <1>1, <1>3, Parts
    <3>2. i \in 1..k /\ r.cache[c][i] = IF i = k THEN x ELSE m.cache[x.size][i]
      BY <1>3, <1>4, <1>6, <2>1
    <3> QED  BY <2>1, <3>1, <3>2
  <2>2. CASE c # x.size
    BY <1>6, <2>2
  <2> QED  BY <2>1, <2>2
<1>8. \A c \in CachedSizes : \A i \in 1..Len(m.cache[c]) :
         i \in 1..Len(r.cache[c]) /\ r.cache[c][i] = m.cache[c][i]
  <2> TAKE c \in CachedSizes
  <2> TAKE i \in 1..Len(m.cache[c])
  <2>1. CASE c = x.size
    <3>1. Len(m.cache[x.size]) \in Nat
      BY <1>1, <1>3, Parts
    <3>2. i \in 1..k /\ i # k
      BY <2>1, <3>1
    <3> QED  BY <1>4, <1>6, <2>1, <3>2
  <2>2. CASE c # x.size
    BY <1>6, <2>2
  <2> QED  BY <2>1, <2>2
<1>9. k \in 1..Len(r.cache[x.size]) /\ r.cache[x.size][k] = x
  BY <1>3, <1>4, <1>6
<1> HIDE DEF k
<1>10. \A y : Fine(m, y) => Fine(r, y) /\ \A c : Cached(m, y, c) => Cached(r, y, c)
  BY <1>2, FineLocal
<1>11. AllFine(r, G)
  <2>1. Fine(m, x) /\ Cached(m, x, x.size)
    BY <1>1, <1>3 DEF AllFine, Cached
  <2>2. \A c \in CachedSizes : \A i \in 1..Len(r.cache[c]) :
          Fine(r, r.cache[c][i]) /\ Cached(r, r.cache[c][i], c)
    BY <1>1, <1>7, <1>10, <2>1 DEF AllFine
  <2> QED  BY <1>1, <1>2, <1>10, <2>2 DEF AllFine
<1>12. Apart(r, G)
  <2>1. \A c, d \in CachedSizes : \A i \in 1..Len(r.cache[c]), j \in 1..Len(r.cache[d]) :
          Shares(r.cache[c][i], r.cache[d][j]) => c = d /\ i = j
    <3> TAKE c, d \in CachedSizes
    <3> TAKE i \in 1..Len(r.cache[c]), j \in 1..Len(r.cache[d])
    <3>1. SUFFICES ASSUME Shares(r.cache[c][i], r.cache[d][j]) PROVE c = d /\ i = j
      OBVIOUS
    <3>2. \A e \in CachedSizes : \A n \in 1..Len(m.cache[e]) :
             ~Shares(x, m.cache[e][n]) /\ ~Shares(m.cache[e][n], x)
      BY <1>1 DEF Apart, Shares
    <3>3. \/ c = x.size /\ i = k /\ r.cache[c][i] = x
          \/ i \in 1..Len(m.cache[c]) /\ r.cache[c][i] = m.cache[c][i]
      BY <1>7
    <3>4. \/ d = x.size /\ j = k /\ r.cache[d][j] = x
          \/ j \in 1..Len(m.cache[d]) /\ r.cache[d][j] = m.cache[d][j]
      BY <1>7
    <3>5. \A e, f \in CachedSizes : \A u \in 1..Len(m.cache[e]), v \in 1..Len(m.cache[f]) :
             Shares(m.cache[e][u], m.cache[f][v]) => e = f /\ u = v
      BY <1>1 DEF Apart
    <3> QED  BY <3>1, <3>2, <3>3, <3>4, <3>5
  <2>2. \A c \in CachedSizes : \A j \in 1..Len(r.cache[c]) :
          /\ \A p \in Pixmaps : ~Shares(r.pix[p], r.cache[c][j])
          /\ \A i \in 1..Len(r.delayed) : ~Shares(r.delayed[i], r.cache[c][j])
          /\ \A y \in G : ~Shares(y, r.cache[c][j])
    BY <1>1, <1>2, <1>7 DEF Apart, Shares
  <2> QED  BY <1>1, <1>2, <2>1, <2>2 DEF Apart
<1>13. Attached(r, G)
  <2>1. \A s : Held(r, G, s) <=> Held(m, H, s)
    <3> TAKE s
    <3>1. Held(r, G, s) => Held(m, H, s)
      BY <1>2, <1>7 DEF Held
    <3>2. Held(m, H, s) => Held(r, G, s)
      BY <1>2, <1>3, <1>8, <1>9 DEF Held
    <3> QED  BY <3>1, <3>2
  <2>2. \A s : Busy(r, s) <=> Busy(m, s)
    BY <1>2 DEF Busy
  <2> QED  BY <1>1, <1>2, <2>1, <2>2 DEF Attached
<1>14. Bounded(r)
  <2>1. \A c \in CachedSizes : Len(r.cache[c]) <= CacheSize
    BY <1>1, <1>3, <1>4, <1>6 DEF Bounded, k
  <2>2. \A s : Writes(r, s) = Writes(m, s)
    BY <1>2 DEF Writes
  <2> QED  BY <1>1, <1>2, <2>1, <2>2 DEF Bounded
<1>15. r.delayed # << >> => r.handler
  BY <1>2 DEF Good
<1> QED  BY <1>2, <1>5, <1>11, <1>12, <1>13, <1>14, <1>15 DEF Good, PixmapsKept, r

(* doDestroyMemory frees memory in hand. *)
LEMMA doDestroyMemoryGood ==
  ASSUME NEW m, NEW H, Good(m, H), NEW x \in H, x.heap = "shm" => ~Busy(m, x.seg)
  PROVE  Good(doDestroyMemory(m, x), H \ {x}) /\ PixmapsKept(m, doDestroyMemory(m, x))
<1>1. CASE Cacheable(m, x)
  <2>1. x.heap = "shm"
    BY <1>1 DEF Cacheable
  <2> QED  BY <1>1, <2>1, CacheGood DEF doDestroyMemory
<1>2. CASE ~Cacheable(m, x)
  BY <1>2, DetachGood DEF doDestroyMemory
<1> QED  BY <1>1, <1>2

(* The head of the delayed list is taken into hand. *)
LEMMA PopGood ==
  ASSUME NEW m, NEW H, Good(m, H), m.delayed # << >>
  PROVE  LET r == [m EXCEPT !.delayed = Tail(@)]
             x == Head(m.delayed)
         IN  /\ Good(r, H \cup {x}) /\ PixmapsKept(m, r) /\ r.gpu = m.gpu
             /\ Fine(m, x) /\ x.heap = "shm" /\ x.seg \in Segments
             /\ x \notin H
<1> DEFINE r == [m EXCEPT !.delayed = Tail(@)]
           x == Head(m.delayed)
           G == H \cup {x}
<1>1. m \in State /\ AllFine(m, H) /\ Apart(m, H) /\ Attached(m, H) /\ Bounded(m)
  BY DEF Good
<1>2. /\ r.pix = m.pix /\ r.delayed = Tail(m.delayed) /\ r.cache = m.cache
      /\ r.live = m.live /\ r.access = m.access /\ r.handler = m.handler
      /\ r.gpu = m.gpu /\ r.seg = m.seg
  BY <1>1 DEF State
<1>3. /\ m.delayed \in Seq(Memory) /\ Len(m.delayed) \in Nat /\ Len(m.delayed) >= 1
      /\ Tail(m.delayed) \in Seq(Memory) /\ Len(Tail(m.delayed)) = Len(m.delayed) - 1
      /\ \A i \in 1..Len(Tail(m.delayed)) : Tail(m.delayed)[i] = m.delayed[i + 1]
      /\ x = m.delayed[1]
  <2>1. m.delayed \in Seq(Memory)
    BY <1>1, Parts
  <2> QED  BY <2>1, HeadTailProperties, EmptySeq
<1>4. r \in State
  BY <1>1, <1>3 DEF State
<1> HIDE DEF r, x
<1>5. /\ \A i \in 1..Len(r.delayed) : i + 1 \in 1..Len(m.delayed) /\ r.delayed[i] = m.delayed[i + 1]
      /\ \A i \in 1..Len(m.delayed) : i = 1 \/ (i - 1 \in 1..Len(r.delayed) /\ r.delayed[i - 1] = m.delayed[i])
      /\ 1 \in 1..Len(m.delayed) /\ m.delayed[1] = x
  BY <1>2, <1>3
<1>6. \A y : Fine(m, y) => Fine(r, y) /\ \A c : Cached(m, y, c) => Cached(r, y, c)
  BY <1>2, FineLocal
<1>7. Fine(m, x) /\ x.mapped /\ Sane(x)
  BY <1>1, <1>5 DEF AllFine, Fine
<1>8. x.heap = "shm" /\ x.seg \in Segments /\ x.seg # NoSegment
  BY <1>7, SegOf DEF Sane
<1>9. /\ \A p \in Pixmaps : ~Shares(m.pix[p], x)
      /\ \A i \in 1..Len(r.delayed) : ~Shares(r.delayed[i], x)
      /\ \A c \in CachedSizes : \A i \in 1..Len(m.cache[c]) : ~Shares(m.cache[c][i], x)
      /\ \A y \in H : ~Shares(y, x)
  <2>1. \A i \in 1..Len(r.delayed) : ~Shares(r.delayed[i], x)
    <3> TAKE i \in 1..Len(r.delayed)
    <3>1. i + 1 \in 1..Len(m.delayed) /\ r.delayed[i] = m.delayed[i + 1] /\ i + 1 # 1
      BY <1>5
    <3>2. Shares(m.delayed[i + 1], m.delayed[1]) => i + 1 = 1
      BY <1>1, <1>5, <3>1 DEF Apart
    <3> QED  BY <1>5, <3>1, <3>2
  <2> QED  BY <1>1, <1>5, <2>1 DEF Apart, Shares
<1>10. x \notin H
  BY <1>8, <1>9 DEF Shares
<1>11. AllFine(r, G)
  <2>1. \A i \in 1..Len(r.delayed) : Fine(r, r.delayed[i]) /\ r.delayed[i].mapped
    BY <1>1, <1>5, <1>6 DEF AllFine
  <2> QED  BY <1>1, <1>2, <1>6, <1>7, <2>1 DEF AllFine
<1>12. Apart(r, G)
  <2>1. \A i, j \in 1..Len(r.delayed) : Shares(r.delayed[i], r.delayed[j]) => i = j
    <3> TAKE i, j \in 1..Len(r.delayed)
    <3>1. Shares(m.delayed[i + 1], m.delayed[j + 1]) => i + 1 = j + 1
      BY <1>1, <1>5 DEF Apart
    <3>2. r.delayed[i] = m.delayed[i + 1] /\ r.delayed[j] = m.delayed[j + 1]
      BY <1>5
    <3>3. i \in Int /\ j \in Int
      OBVIOUS
    <3>4. i + 1 = j + 1 => i = j
      BY <3>3
    <3> QED  BY <3>1, <3>2, <3>4
  <2>2. \A y, z \in G : Shares(y, z) => y = z
    BY <1>1, <1>9 DEF Apart, Shares
  <2>3. \A p \in Pixmaps, i \in 1..Len(r.delayed) : ~Shares(r.pix[p], r.delayed[i])
    BY <1>1, <1>2, <1>5 DEF Apart
  <2>4. \A c \in CachedSizes : \A j \in 1..Len(r.cache[c]) :
          /\ \A p \in Pixmaps : ~Shares(r.pix[p], r.cache[c][j])
          /\ \A i \in 1..Len(r.delayed) : ~Shares(r.delayed[i], r.cache[c][j])
          /\ \A y \in G : ~Shares(y, r.cache[c][j])
    BY <1>1, <1>2, <1>5 DEF Apart
  <2>5. \A y \in G :
          /\ \A p \in Pixmaps : ~Shares(y, r.pix[p])
          /\ \A i \in 1..Len(r.delayed) : ~Shares(y, r.delayed[i])
    BY <1>1, <1>2, <1>5, <1>9 DEF Apart, Shares
  <2> QED  BY <1>1, <1>2, <2>1, <2>2, <2>3, <2>4, <2>5 DEF Apart
<1>13. Attached(r, G)
  <2>1. \A s : Held(r, G, s) <=> Held(m, H, s)
    <3> TAKE s
    <3>1. Held(r, G, s) => Held(m, H, s)
      BY <1>2, <1>5 DEF Held
    <3>2. (\E i \in 1..Len(m.delayed) : m.delayed[i].seg = s) => Held(r, G, s)
      BY <1>5 DEF Held
    <3>3. Held(m, H, s) => Held(r, G, s)
      BY <1>2, <3>2 DEF Held
    <3> QED  BY <3>1, <3>3
  <2>2. \A s : Busy(r, s) <=> Busy(m, s)
    BY <1>2 DEF Busy
  <2> QED  BY <1>1, <1>2, <2>1, <2>2 DEF Attached
<1>14. Bounded(r)
  <2>1. \A s : Writes(r, s) = Writes(m, s)
    BY <1>2 DEF Writes
  <2> QED  BY <1>1, <1>2, <2>1 DEF Bounded
<1>15. r.delayed # << >> => r.handler
  BY <1>2 DEF Good
<1> QED  BY <1>2, <1>4, <1>7, <1>8, <1>10, <1>11, <1>12, <1>13, <1>14, <1>15 DEF Good, PixmapsKept, r, x

(* One entry of the delayed list is freed, or none. *)
LEMMA FreeDelayedGood ==
  ASSUME NEW m, NEW H, Good(m, H), NEW wait
  PROVE  Good(FreeDelayed(m, wait), H) /\ PixmapsKept(m, FreeDelayed(m, wait))
<1> DEFINE x == Head(m.delayed)
           y == IF x.owner = "GPU" THEN Await(m, x.seg) ELSE m
           z == [y EXCEPT !.delayed = Tail(@)]
<1>1. CASE FreeDelayed(m, wait) = m
  BY <1>1 DEF PixmapsKept
<1>2. CASE FreeDelayed(m, wait) # m
  <2>1. m.delayed # << >> /\ FreeDelayed(m, wait) = doDestroyMemory(z, x)
    BY <1>2 DEF FreeDelayed
  <2>2. Fine(m, x) /\ x.heap = "shm" /\ x.seg \in Segments
    BY <2>1, PopGood
  <2>3. Good(y, H) /\ SgxOnly(m, y) /\ ~Busy(y, x.seg)
    <3>1. CASE x.owner = "GPU"
      BY <2>2, <3>1, AwaitGood
    <3>2. CASE x.owner # "GPU"
      <4>1. y = m /\ x.owner = "CPU"
        BY <2>2, <3>2 DEF Fine, Sane, Memory
      <4>2. ~Busy(m, x.seg)
        BY <2>2, <4>1 DEF Fine, Quiet
      <4> QED  BY <4>1, <4>2 DEF SgxOnly, SameHolders, NoBusier
    <3> QED  BY <3>1, <3>2
  <2>4. y.delayed = m.delayed
    BY <2>3 DEF SgxOnly, SameHolders
  <2> HIDE DEF y
  <2>5. /\ Good(z, H \cup {x}) /\ PixmapsKept(y, z) /\ z.gpu = y.gpu
        /\ x \notin H
    BY <2>1, <2>3, <2>4, PopGood
  <2>6. ~Busy(z, x.seg)
    BY <2>3, <2>5 DEF Busy
  <2> HIDE DEF z, x
  <2>7. /\ Good(doDestroyMemory(z, x), (H \cup {x}) \ {x})
        /\ PixmapsKept(z, doDestroyMemory(z, x))
    BY <2>5, <2>6, doDestroyMemoryGood
  <2>8. (H \cup {x}) \ {x} = H
    BY <2>5
  <2> QED  BY <2>1, <2>3, <2>5, <2>7, <2>8 DEF PixmapsKept, SgxOnly, SameHolders
<1> QED  BY <1>1, <1>2

(* PVR2DDelayedMemDestroy frees one entry after the other. *)
LEMMA DelayedMemDestroyGood ==
  ASSUME NEW m, NEW H, Good(m, H), NEW wait
  PROVE  /\ Good(PVR2DDelayedMemDestroy(m, wait), H)
         /\ PixmapsKept(m, PVR2DDelayedMemDestroy(m, wait))
<1> DEFINE M == {y \in State : Good(y, H) /\ PixmapsKept(m, y)}
           F == [y \in M |-> FreeDelayed(y, wait)]
           k == Len(m.delayed)
           l == CHOOSE l : l = [n \in 0..Len(m.delayed) |->
                                  IF n = 0 THEN m ELSE FreeDelayed(l[n - 1], wait)]
<1>1. m \in State /\ k \in Nat
  BY Parts DEF Good
<1>2. m \in M
  BY <1>1 DEF PixmapsKept
<1>3. ASSUME NEW y \in M PROVE FreeDelayed(y, wait) \in M
  <2>1. Good(y, H) /\ PixmapsKept(m, y)
    OBVIOUS
  <2>2. Good(FreeDelayed(y, wait), H) /\ PixmapsKept(y, FreeDelayed(y, wait))
    BY <2>1, FreeDelayedGood
  <2> QED  BY <2>1, <2>2 DEF PixmapsKept, Good
<1>4. F \in [M -> M]
  BY <1>3
<1>5. PICK g \in [0..k -> M] : IsRun(F, m, k, g)
  <2> HIDE DEF M, F, k, l
  <2>1. k \in Nat
    BY <1>1
  <2> QED  BY <1>2, <1>4, <2>1, Rounds
<1>6. l = [n \in 0..Len(m.delayed) |-> IF n = 0 THEN m ELSE FreeDelayed(l[n - 1], wait)]
  <2>1. \A n \in 1..k : g[n - 1] \in M
    BY <1>1, <1>5
  <2>2. g[0] = m /\ \A n \in 1..k : g[n] = FreeDelayed(g[n - 1], wait)
    BY <1>5, <2>1 DEF IsRun
  <2>3. g = [n \in 0..Len(m.delayed) |-> IF n = 0 THEN m ELSE FreeDelayed(g[n - 1], wait)]
    <3> HIDE DEF M, F
    <3> QED  BY <1>1, <2>2
  <2> QED  BY <2>3
<1>7. PVR2DDelayedMemDestroy(m, wait) = l[k]
  BY DEF PVR2DDelayedMemDestroy
<1>8. l[0] = m /\ \A n \in 1..k : l[n] = FreeDelayed(l[n - 1], wait)
  <2> HIDE DEF l, M, F
  <2>1. 0 \in 0..k /\ 1..k \subseteq 0..k
    BY <1>1
  <2>2. l[0] = m
    BY <1>6, <2>1
  <2>3. ASSUME NEW n \in 1..k PROVE l[n] = FreeDelayed(l[n - 1], wait)
    <3>1. n \in 0..Len(m.delayed) /\ n # 0
      BY <1>1
    <3> QED  BY <1>6, <3>1
  <2> QED  BY <2>2, <2>3
<1>9. \A n \in 0..k : l[n] \in M
  <2>1. \A n \in 1..k : l[n - 1] \in M => l[n] \in M
    <3> HIDE DEF l, M, k
    <3> QED  BY <1>3, <1>8
  <2> HIDE DEF l, M, k
  <2> QED  BY <1>1, <1>2, <1>8, <2>1, LoopStays
<1>10. l[k] \in M
  <2> HIDE DEF l, M
  <2> QED  BY <1>1, <1>9
<1> HIDE DEF l
<1> QED  BY <1>7, <1>10

(* Memory in hand is put on the delayed list. *)
LEMMA PushGood ==
  ASSUME NEW m, NEW H, Good(m, H), NEW x \in H, x.mapped
  PROVE  Good([m EXCEPT !.delayed = <<x>> \o @, !.handler = TRUE], H \ {x})
<1> DEFINE r == [m EXCEPT !.delayed = <<x>> \o @, !.handler = TRUE]
           G == H \ {x}
<1>1. m \in State /\ AllFine(m, H) /\ Apart(m, H) /\ Attached(m, H) /\ Bounded(m)
  BY DEF Good
<1>2. /\ r.pix = m.pix /\ r.delayed = <<x>> \o m.delayed /\ r.cache = m.cache
      /\ r.live = m.live /\ r.access = m.access /\ r.handler = TRUE
      /\ r.gpu = m.gpu /\ r.seg = m.seg
  BY <1>1 DEF State
<1>3. Fine(m, x) /\ Sane(x) /\ x \in Memory
  BY <1>1 DEF AllFine, Fine, Sane
<1>4. /\ m.delayed \in Seq(Memory) /\ Len(m.delayed) \in Nat
      /\ <<x>> \o m.delayed \in Seq(Memory)
      /\ Len(<<x>> \o m.delayed) = Len(m.delayed) + 1
      /\ (<<x>> \o m.delayed)[1] = x
      /\ \A i \in 1..Len(m.delayed) : (<<x>> \o m.delayed)[i + 1] = m.delayed[i]
  <2>1. m.delayed \in Seq(Memory) /\ Len(m.delayed) \in Nat
    BY <1>1, Parts
  <2>2. <<x>> \in Seq(Memory) /\ Len(<<x>>) = 1 /\ <<x>>[1] = x
    BY <1>3
  <2> HIDE DEF r
  <2>3. /\ <<x>> \o m.delayed \in Seq(Memory)
        /\ Len(<<x>> \o m.delayed) = 1 + Len(m.delayed)
        /\ \A i \in 1..1 + Len(m.delayed) :
              (<<x>> \o m.delayed)[i] = IF i <= 1 THEN <<x>>[i] ELSE m.delayed[i - 1]
    BY <2>1, <2>2, ConcatProperties
  <2>4. \A i \in 1..Len(m.delayed) : i + 1 \in 1..1 + Len(m.delayed) /\ ~(i + 1 <= 1) /\ i + 1 - 1 = i
    BY <2>1
  <2>5. \A i \in 1..Len(m.delayed) : (<<x>> \o m.delayed)[i + 1] = m.delayed[i]
    BY <2>3, <2>4
  <2>6. 1 \in 1..1 + Len(m.delayed)
    BY <2>1
  <2> QED  BY <2>1, <2>2, <2>3, <2>5, <2>6
<1>5. r \in State
  BY <1>1, <1>4 DEF State
<1> HIDE DEF r
<1>6. /\ \A i \in 1..Len(r.delayed) :
            \/ i = 1 /\ r.delayed[i] = x
            \/ i - 1 \in 1..Len(m.delayed) /\ r.delayed[i] = m.delayed[i - 1]
      /\ \A i \in 1..Len(m.delayed) : i + 1 \in 1..Len(r.delayed) /\ r.delayed[i + 1] = m.delayed[i]
      /\ 1 \in 1..Len(r.delayed) /\ r.delayed[1] = x
  <2>1. ASSUME NEW i \in 1..Len(r.delayed), i # 1
        PROVE  i - 1 \in 1..Len(m.delayed) /\ r.delayed[i] = m.delayed[i - 1]
    <3>1. i - 1 \in 1..Len(m.delayed) /\ i - 1 + 1 = i
      BY <1>2, <1>4, <2>1
    <3> QED  BY <1>2, <1>4, <3>1
  <2> QED  BY <1>2, <1>4, <2>1
<1>7. \A y : Fine(m, y) => Fine(r, y) /\ \A c : Cached(m, y, c) => Cached(r, y, c)
  BY <1>2, FineLocal
<1>8. /\ \A p \in Pixmaps : ~Shares(m.pix[p], x)
      /\ \A i \in 1..Len(m.delayed) : ~Shares(m.delayed[i], x) /\ ~Shares(x, m.delayed[i])
      /\ \A c \in CachedSizes : \A i \in 1..Len(m.cache[c]) : ~Shares(x, m.cache[c][i])
      /\ \A y \in G : ~Shares(y, x)
  BY <1>1 DEF Apart, Shares
<1>9. AllFine(r, G)
  <2>1. \A i \in 1..Len(r.delayed) : Fine(r, r.delayed[i]) /\ r.delayed[i].mapped
    BY <1>1, <1>3, <1>6, <1>7 DEF AllFine
  <2> QED  BY <1>1, <1>2, <1>7, <2>1 DEF AllFine
<1>10. Apart(r, G)
  <2>1. \A i, j \in 1..Len(r.delayed) : Shares(r.delayed[i], r.delayed[j]) => i = j
    <3> TAKE i, j \in 1..Len(r.delayed)
    <3>1. SUFFICES ASSUME Shares(r.delayed[i], r.delayed[j]) PROVE i = j
      OBVIOUS
    <3>2. i \in Int /\ j \in Int
      OBVIOUS
    <3>3. CASE i = 1 \/ j = 1
      BY <1>6, <1>8, <3>1, <3>3
    <3>4. CASE i # 1 /\ j # 1
      <4>1. /\ i - 1 \in 1..Len(m.delayed) /\ r.delayed[i] = m.delayed[i - 1]
            /\ j - 1 \in 1..Len(m.delayed) /\ r.delayed[j] = m.delayed[j - 1]
        BY <1>6, <3>4
      <4>2. i - 1 = j - 1
        BY <1>1, <3>1, <4>1 DEF Apart
      <4> QED  BY <3>2, <4>2
    <3> QED  BY <3>3, <3>4
  <2>2. \A p \in Pixmaps, i \in 1..Len(r.delayed) : ~Shares(r.pix[p], r.delayed[i])
    BY <1>1, <1>2, <1>6, <1>8 DEF Apart
  <2>3. \A c \in CachedSizes : \A j \in 1..Len(r.cache[c]) :
          /\ \A p \in Pixmaps : ~Shares(r.pix[p], r.cache[c][j])
          /\ \A i \in 1..Len(r.delayed) : ~Shares(r.delayed[i], r.cache[c][j])
          /\ \A y \in G : ~Shares(y, r.cache[c][j])
    BY <1>1, <1>2, <1>6, <1>8 DEF Apart
  <2>4. \A y \in G :
          /\ \A p \in Pixmaps : ~Shares(y, r.pix[p])
          /\ \A i \in 1..Len(r.delayed) : ~Shares(y, r.delayed[i])
    BY <1>1, <1>2, <1>6, <1>8 DEF Apart
  <2>5. /\ \A p, q \in Pixmaps : Shares(r.pix[p], r.pix[q]) => p = q
        /\ \A c, d \in CachedSizes : \A i \in 1..Len(r.cache[c]), j \in 1..Len(r.cache[d]) :
              Shares(r.cache[c][i], r.cache[d][j]) => c = d /\ i = j
        /\ \A y, z \in G : Shares(y, z) => y = z
    BY <1>1, <1>2 DEF Apart
  <2> HIDE DEF G
  <2> QED  BY <2>1, <2>2, <2>3, <2>4, <2>5 DEF Apart
<1>11. Attached(r, G)
  <2>1. \A s : Held(r, G, s) <=> Held(m, H, s)
    <3> TAKE s
    <3>1. Held(r, G, s) => Held(m, H, s)
      BY <1>2, <1>6 DEF Held
    <3>2. (\E i \in 1..Len(m.delayed) : m.delayed[i].seg = s) => Held(r, G, s)
      BY <1>6 DEF Held
    <3>3. x.seg = s => Held(r, G, s)
      BY <1>6 DEF Held
    <3>4. Held(m, H, s) => Held(r, G, s)
      BY <1>2, <3>2, <3>3 DEF Held
    <3> QED  BY <3>1, <3>4
  <2>2. \A s : Busy(r, s) <=> Busy(m, s)
    BY <1>2 DEF Busy
  <2> QED  BY <1>1, <1>2, <2>1, <2>2 DEF Attached
<1>12. Bounded(r)
  <2>1. \A s : Writes(r, s) = Writes(m, s)
    BY <1>2 DEF Writes
  <2> QED  BY <1>1, <1>2, <2>1 DEF Bounded
<1> QED  BY <1>2, <1>5, <1>9, <1>10, <1>11, <1>12 DEF Good, r

(* Memory without a segment comes and goes. *)
LEMMA HandGood ==
  ASSUME NEW m, NEW H, Good(m, H), NEW x, x.seg = NoSegment
  PROVE  Good(m, H \ {x}) /\ (Fine(m, x) => Good(m, H \cup {x}))
<1>1. m \in State /\ AllFine(m, H) /\ Apart(m, H) /\ Attached(m, H) /\ Bounded(m)
  BY DEF Good
<1>2. \A y : ~Shares(x, y) /\ ~Shares(y, x)
  BY DEF Shares
<1>3. AllFine(m, H \ {x}) /\ (Fine(m, x) => AllFine(m, H \cup {x}))
  BY <1>1 DEF AllFine
<1>4. Apart(m, H \ {x})
  BY <1>1 DEF Apart
<1>5. Apart(m, H \cup {x})
  <2> DEFINE K == H \cup {x}
  <2>1. \A y \in K : y \in H \/ \A z : ~Shares(y, z) /\ ~Shares(z, y)
    BY <1>2
  <2> HIDE DEF K
  <2>2. Apart(m, K)
    BY <1>1, <2>1 DEF Apart
  <2> QED  BY <2>2 DEF K
<1>6. \A s \in Segments : Held(m, H, s) <=> Held(m, H \ {x}, s)
  BY PixmapMemoryAssumption DEF Held, NoSegment
<1>7. \A s \in Segments : Held(m, H, s) <=> Held(m, H \cup {x}, s)
  BY PixmapMemoryAssumption DEF Held, NoSegment
<1> QED  BY <1>1, <1>3, <1>4, <1>5, <1>6, <1>7 DEF Good, Attached

(* DestroyPVR2DMemory gets rid of memory in hand, now or later. *)
LEMMA DestroyGood ==
  ASSUME NEW m, NEW H, Good(m, H), NEW x \in H
  PROVE  /\ Good(DestroyPVR2DMemory(m, x), H \ {x})
         /\ DestroyPVR2DMemory(m, x).pix = m.pix
         /\ DestroyPVR2DMemory(m, x).access = m.access
<1> DEFINE d == PVR2DDelayedMemDestroy(m, FALSE)
<1>1. Good(d, H) /\ PixmapsKept(m, d) /\ d \in State
  BY DelayedMemDestroyGood DEF Good
<1>2. Fine(d, x) /\ Sane(x)
  BY <1>1 DEF Good, AllFine, Fine
<1> HIDE DEF d
<1>3. CASE x.heap = "none"
  <2>1. x.seg = NoSegment
    BY <1>2, <1>3 DEF Sane
  <2> QED  BY <1>3, <2>1, HandGood DEF DestroyPVR2DMemory
<1>4. CASE x.heap # "none" /\ (~x.mapped \/ QueryBlitsComplete(d, x))
  <2>1. DestroyPVR2DMemory(m, x) = doDestroyMemory(d, x)
    BY <1>4 DEF DestroyPVR2DMemory, d
  <2>2. x.heap = "shm" => ~Busy(d, x.seg)
    BY <1>2, <1>4 DEF QueryBlitsComplete, Fine, Quiet
  <2>3. Good(doDestroyMemory(d, x), H \ {x}) /\ PixmapsKept(d, doDestroyMemory(d, x))
    BY <1>1, <2>2, doDestroyMemoryGood
  <2> QED  BY <1>1, <2>1, <2>3 DEF PixmapsKept
<1>5. CASE x.heap # "none" /\ ~(~x.mapped \/ QueryBlitsComplete(d, x))
  <2>1. DestroyPVR2DMemory(m, x) = [d EXCEPT !.delayed = <<x>> \o @, !.handler = TRUE]
    BY <1>5 DEF DestroyPVR2DMemory, d
  <2>2. /\ [d EXCEPT !.delayed = <<x>> \o @, !.handler = TRUE].pix = d.pix
        /\ [d EXCEPT !.delayed = <<x>> \o @, !.handler = TRUE].access = d.access
    BY <1>1 DEF State
  <2>3. Good([d EXCEPT !.delayed = <<x>> \o @, !.handler = TRUE], H \ {x})
    <3>1. x.mapped
      BY <1>5
    <3> QED  BY <1>1, <3>1, PushGood
  <2> QED  BY <1>1, <2>1, <2>2, <2>3 DEF PixmapsKept
<1> QED  BY <1>3, <1>4, <1>5

(* A pixmap gets memory that was in hand, and its own comes into hand. *)
LEMMA ExchangeGood ==
  ASSUME NEW m, NEW H, Good(m, H), NEW x \in H, NEW p \in Pixmaps
  PROVE  LET r == [m EXCEPT !.pix[p] = x]
         IN  /\ Good(r, (H \ {x}) \cup {m.pix[p]})
             /\ r.pix[p] = x /\ r.access = m.access /\ r.gpu = m.gpu /\ r.seg = m.seg
             /\ \A q \in Pixmaps : q # p => r.pix[q] = m.pix[q]
<1> DEFINE r == [m EXCEPT !.pix[p] = x]
           old == m.pix[p]
           G == (H \ {x}) \cup {old}
<1>1. m \in State /\ AllFine(m, H) /\ Apart(m, H) /\ Attached(m, H) /\ Bounded(m)
  BY DEF Good
<1>2. /\ r.pix = [m.pix EXCEPT ![p] = x] /\ r.delayed = m.delayed /\ r.cache = m.cache
      /\ r.live = m.live /\ r.access = m.access /\ r.handler = m.handler
      /\ r.gpu = m.gpu /\ r.seg = m.seg
  BY <1>1 DEF State
<1>3. Fine(m, x) /\ x \in Memory /\ m.pix \in [Pixmaps -> Memory] /\ Fine(m, old)
  BY <1>1, Parts DEF AllFine, Fine, Sane
<1>4. r \in State
  BY <1>1, <1>3 DEF State
<1> HIDE DEF r
<1>5. r.pix[p] = x /\ \A q \in Pixmaps : q # p => r.pix[q] = m.pix[q]
  BY <1>2, <1>3
<1>6. \A y : Fine(m, y) => Fine(r, y) /\ \A c : Cached(m, y, c) => Cached(r, y, c)
  BY <1>2, FineLocal
<1>7. AllFine(r, G)
  <2>1. \A q \in Pixmaps : Fine(r, r.pix[q])
    BY <1>1, <1>3, <1>5, <1>6 DEF AllFine
  <2> QED  BY <1>1, <1>2, <1>3, <1>6, <2>1 DEF AllFine
<1>8. Apart(r, G)
  <2>1. /\ \A q \in Pixmaps : ~Shares(m.pix[q], x) /\ ~Shares(x, m.pix[q])
        /\ \A y \in H \ {x} : ~Shares(y, x) /\ ~Shares(x, y)
        /\ \A y \in H \ {x}, q \in Pixmaps : ~Shares(y, m.pix[q]) /\ ~Shares(m.pix[q], y)
        /\ \A q \in Pixmaps : q # p => ~Shares(m.pix[q], old) /\ ~Shares(old, m.pix[q])
        /\ \A i \in 1..Len(m.delayed) : ~Shares(x, m.delayed[i]) /\ ~Shares(old, m.delayed[i])
        /\ \A c \in CachedSizes : \A j \in 1..Len(m.cache[c]) :
              ~Shares(x, m.cache[c][j]) /\ ~Shares(old, m.cache[c][j])
    BY <1>1 DEF Apart, Shares
  <2>2. \A q, n \in Pixmaps : Shares(r.pix[q], r.pix[n]) => q = n
    BY <1>1, <1>5, <2>1 DEF Apart
  <2>3. \A y, z \in G : Shares(y, z) => y = z
    <3>1. \A y, z \in H \ {x} : Shares(y, z) => y = z
      BY <1>1 DEF Apart
    <3> QED  BY <2>1, <3>1
  <2>4. \A q \in Pixmaps, i \in 1..Len(r.delayed) : ~Shares(r.pix[q], r.delayed[i])
    BY <1>1, <1>2, <1>5, <2>1 DEF Apart
  <2>5. \A c \in CachedSizes : \A j \in 1..Len(r.cache[c]) :
          /\ \A q \in Pixmaps : ~Shares(r.pix[q], r.cache[c][j])
          /\ \A i \in 1..Len(r.delayed) : ~Shares(r.delayed[i], r.cache[c][j])
          /\ \A y \in G : ~Shares(y, r.cache[c][j])
    BY <1>1, <1>2, <1>5, <2>1 DEF Apart
  <2>6. \A y \in G :
          /\ \A q \in Pixmaps : ~Shares(y, r.pix[q])
          /\ \A i \in 1..Len(r.delayed) : ~Shares(y, r.delayed[i])
    <3>1. \A y \in H \ {x} : \A i \in 1..Len(r.delayed) : ~Shares(y, r.delayed[i])
      BY <1>1, <1>2 DEF Apart
    <3> QED  BY <1>2, <1>5, <2>1, <3>1
  <2>7. /\ \A i, j \in 1..Len(r.delayed) : Shares(r.delayed[i], r.delayed[j]) => i = j
        /\ \A c, d \in CachedSizes : \A i \in 1..Len(r.cache[c]), j \in 1..Len(r.cache[d]) :
              Shares(r.cache[c][i], r.cache[d][j]) => c = d /\ i = j
    BY <1>1, <1>2 DEF Apart
  <2> HIDE DEF G
  <2> QED  BY <2>2, <2>3, <2>4, <2>5, <2>6, <2>7 DEF Apart
<1>9. Attached(r, G)
  <2>1. \A s : Held(r, G, s) <=> Held(m, H, s)
    <3> TAKE s
    <3>1. ((\E q \in Pixmaps : r.pix[q].seg = s) \/ (\E y \in G : y.seg = s))
            <=> ((\E q \in Pixmaps : m.pix[q].seg = s) \/ (\E y \in H : y.seg = s))
      <4>1. x \in H /\ old \in G /\ (\A y \in G : y \in H \/ y = old)
            /\ \A y \in H : y \in G \/ y = x
        OBVIOUS
      <4> HIDE DEF G
      <4> QED  BY <1>5, <4>1
    <3> HIDE DEF G
    <3> QED  BY <1>2, <3>1 DEF Held
  <2>2. \A s : Busy(r, s) <=> Busy(m, s)
    BY <1>2 DEF Busy
  <2> QED  BY <1>1, <1>2, <2>1, <2>2 DEF Attached
<1>10. Bounded(r)
  <2>1. \A s : Writes(r, s) = Writes(m, s)
    BY <1>2 DEF Writes
  <2> QED  BY <1>1, <1>2, <2>1 DEF Bounded
<1>11. r.delayed # << >> => r.handler
  BY <1>2 DEF Good
<1> QED  BY <1>2, <1>4, <1>5, <1>7, <1>8, <1>9, <1>10, <1>11 DEF Good, r

\* From m to r, the memory of p is described or known differently.
Changes(m, r, p) ==
    /\ r.delayed = m.delayed /\ r.cache = m.cache /\ r.live = m.live
    /\ r.handler = m.handler /\ r.gpu = m.gpu
    /\ \A q \in Pixmaps : q # p => r.pix[q] = m.pix[q]
    /\ r.pix[p].seg = m.pix[p].seg
    /\ \A s \in Segments : s # r.pix[p].seg => r.seg[s] = m.seg[s]
    /\ \A s \in Segments : r.seg[s].done <= m.seg[s].done

(* If the memory of p is still fine, all is. *)
LEMMA ChangeGood ==
  ASSUME NEW m, NEW r \in State, NEW H, Good(m, H), NEW p \in Pixmaps, Changes(m, r, p),
         Fine(r, r.pix[p])
  PROVE  Good(r, H)
<1> DEFINE x == r.pix[p]
<1>1. m \in State /\ AllFine(m, H) /\ Apart(m, H) /\ Attached(m, H) /\ Bounded(m)
  BY DEF Good
<1>2. /\ r.delayed = m.delayed /\ r.cache = m.cache /\ r.live = m.live
      /\ r.handler = m.handler /\ r.gpu = m.gpu
      /\ \A q \in Pixmaps : q # p => r.pix[q] = m.pix[q]
      /\ x.seg = m.pix[p].seg
      /\ \A s \in Segments : s # x.seg => r.seg[s] = m.seg[s]
      /\ \A s \in Segments : r.seg[s].done <= m.seg[s].done
  BY DEF Changes
<1>3. \A q \in Pixmaps : r.pix[q].seg = m.pix[q].seg
  BY <1>2
<1>4. ASSUME NEW y, Fine(m, y), ~Shares(y, m.pix[p])
      PROVE  Fine(r, y) /\ \A c : Cached(m, y, c) => Cached(r, y, c)
  <2>1. y.heap = "shm" => y.seg \in Segments /\ y.seg # NoSegment
    BY <1>4, SegOf DEF Fine, Sane
  <2>2. y.heap = "shm" => r.seg[y.seg] = m.seg[y.seg]
    BY <1>2, <1>4, <2>1 DEF Shares
  <2> QED  BY <1>2, <1>4, <2>2, FineLocal
<1>5. /\ \A q \in Pixmaps : q # p => ~Shares(m.pix[q], m.pix[p])
      /\ \A i \in 1..Len(m.delayed) : ~Shares(m.delayed[i], m.pix[p])
      /\ \A c \in CachedSizes : \A i \in 1..Len(m.cache[c]) : ~Shares(m.cache[c][i], m.pix[p])
      /\ \A y \in H : ~Shares(y, m.pix[p])
  BY <1>1 DEF Apart, Shares
<1>6. AllFine(r, H)
  <2>1. \A q \in Pixmaps : Fine(r, r.pix[q])
    BY <1>1, <1>2, <1>4, <1>5 DEF AllFine
  <2>2. \A i \in 1..Len(r.delayed) : Fine(r, r.delayed[i]) /\ r.delayed[i].mapped
    BY <1>1, <1>2, <1>4, <1>5 DEF AllFine
  <2>3. \A c \in CachedSizes : \A i \in 1..Len(r.cache[c]) :
          Fine(r, r.cache[c][i]) /\ Cached(r, r.cache[c][i], c)
    BY <1>1, <1>2, <1>4, <1>5 DEF AllFine
  <2>4. \A y \in H : Fine(r, y)
    BY <1>1, <1>4, <1>5 DEF AllFine
  <2> QED  BY <2>1, <2>2, <2>3, <2>4 DEF AllFine
<1>7. Apart(r, H)
  BY <1>1, <1>2, <1>3 DEF Apart, Shares
<1>8. Attached(r, H)
  <2>1. \A s : Held(r, H, s) <=> Held(m, H, s)
    BY <1>2, <1>3 DEF Held
  <2>2. \A s : Busy(r, s) <=> Busy(m, s)
    BY <1>2 DEF Busy
  <2>3. \A s \in Segments : s \notin m.live => s # x.seg
    BY <1>1, <1>2 DEF Attached, Held
  <2> QED  BY <1>1, <1>2, <2>1, <2>2, <2>3 DEF Attached
<1>9. Bounded(r)
  <2>1. \A s : Writes(r, s) = Writes(m, s)
    BY <1>2 DEF Writes
  <2>2. ASSUME NEW s \in Segments PROVE r.seg[s].done + Cardinality(Writes(r, s)) <= MaxWrites
    <3>1. m.seg[s].done \in 0..MaxWrites /\ r.seg[s].done \in 0..MaxWrites
      BY <1>1 DEF State
    <3>2. Cardinality(Writes(m, s)) \in Nat
      BY <1>1, OpsOf
    <3>3. r.seg[s].done <= m.seg[s].done /\ m.seg[s].done + Cardinality(Writes(m, s)) <= MaxWrites
      BY <1>1, <1>2 DEF Bounded
    <3> QED  BY <2>1, <3>1, <3>2, <3>3, PixmapMemoryAssumption
  <2> QED  BY <1>1, <1>2, <2>2 DEF Bounded
<1>10. r.delayed # << >> => r.handler
  BY <1>2 DEF Good
<1> QED  BY <1>6, <1>7, <1>8, <1>9, <1>10 DEF Good

-----------------------------------------------------------------------------
(* Allocating *)

(* GetFromCache: the last segment of a size is taken out of the cache. *)
LEMMA TakeCachedGood ==
  ASSUME NEW m, NEW H, Good(m, H), NEW size \in CachedSizes, m.cache[size] # << >>
  PROVE  LET r == [m EXCEPT !.cache[size] = Front(@)]
             x == Last(m.cache[size])
         IN  /\ Good(r, H \cup {x}) /\ PixmapsKept(m, r)
             /\ x.heap = "shm" /\ x \notin H
<1> DEFINE r == [m EXCEPT !.cache[size] = Front(@)]
           x == Last(m.cache[size])
           k == Len(m.cache[size])
           G == H \cup {x}
<1>1. m \in State /\ AllFine(m, H) /\ Apart(m, H) /\ Attached(m, H) /\ Bounded(m)
  BY DEF Good
<1>2. /\ r.pix = m.pix /\ r.delayed = m.delayed
      /\ r.cache = [m.cache EXCEPT ![size] = Front(m.cache[size])]
      /\ r.live = m.live /\ r.access = m.access /\ r.handler = m.handler
      /\ r.gpu = m.gpu /\ r.seg = m.seg
  BY <1>1 DEF State
<1>3. /\ k \in Nat /\ k >= 1 /\ x = m.cache[size][k] /\ k <= CacheSize
      /\ Front(m.cache[size]) \in Seq(Memory) /\ Len(Front(m.cache[size])) = k - 1
      /\ \A i \in 1..k - 1 : Front(m.cache[size])[i] = m.cache[size][i]
  <2>1. m.cache[size] \in Seq(Memory) /\ k \in Nat
    BY <1>1, Parts
  <2>2. k >= 1
    BY <2>1, EmptySeq
  <2>3. \A i \in 1..k - 1 : m.cache[size][i] \in Memory
    BY <2>1, <2>2, ElementOfSeq
  <2> HIDE DEF r
  <2>4. /\ SubSeq(m.cache[size], 1, k - 1) \in Seq(Memory)
        /\ Len(SubSeq(m.cache[size], 1, k - 1)) = k - 1
        /\ \A i \in 1..k - 1 : SubSeq(m.cache[size], 1, k - 1)[i] = m.cache[size][i]
    <3>1. k - 1 \in Int /\ 1 \in Int
      BY <2>1
    <3>2. /\ SubSeq(m.cache[size], 1, k - 1) \in Seq(Memory)
          /\ Len(SubSeq(m.cache[size], 1, k - 1)) = IF 1 <= k - 1 THEN k - 1 - 1 + 1 ELSE 0
          /\ \A i \in 1..k - 1 - 1 + 1 : SubSeq(m.cache[size], 1, k - 1)[i] = m.cache[size][1 + i - 1]
      <4> HIDE DEF k
      <4> QED  BY <2>3, <3>1, SubSeqProperties
    <3>3. k - 1 - 1 + 1 = k - 1 /\ \A i \in 1..k - 1 : 1 + i - 1 = i
      BY <2>1
    <3>4. (IF 1 <= k - 1 THEN k - 1 - 1 + 1 ELSE 0) = k - 1
      BY <2>1, <2>2
    <3> QED  BY <3>2, <3>3, <3>4
  <2>5. k <= CacheSize
    BY <1>1 DEF Bounded
  <2> QED  BY <2>1, <2>2, <2>4, <2>5 DEF Front, Last
<1>4. r \in State
  <2>1. r.cache \in [CachedSizes -> Seq(Memory)]
    <3>1. m.cache \in [CachedSizes -> Seq(Memory)]
      BY <1>1, Parts
    <3> HIDE DEF r
    <3> QED  BY <1>2, <1>3, <3>1
  <2> QED  BY <1>1, <1>2, <2>1 DEF State
<1> HIDE DEF r, x
<1>5. /\ \A c \in CachedSizes : c # size => r.cache[c] = m.cache[c]
      /\ r.cache[size] = Front(m.cache[size])
  BY <1>1, <1>2, Parts
<1>6. \A c \in CachedSizes : \A i \in 1..Len(r.cache[c]) :
         /\ i \in 1..Len(m.cache[c]) /\ r.cache[c][i] = m.cache[c][i]
         /\ c = size => i # k
  <2> TAKE c \in CachedSizes
  <2> TAKE i \in 1..Len(r.cache[c])
  <2>1. CASE c = size
    <3>1. i \in 1..k - 1
      BY <1>3, <1>5, <2>1
    <3> QED  BY <1>3, <1>5, <2>1, <3>1
  <2>2. CASE c # size
    BY <1>5, <2>2
  <2> QED  BY <2>1, <2>2
<1>7. \A c \in CachedSizes : \A i \in 1..Len(m.cache[c]) :
         \/ c = size /\ i = k
         \/ i \in 1..Len(r.cache[c]) /\ r.cache[c][i] = m.cache[c][i]
  <2> TAKE c \in CachedSizes
  <2> TAKE i \in 1..Len(m.cache[c])
  <2>1. CASE c = size
    <3>1. i = k \/ i \in 1..k - 1
      BY <1>3, <2>1
    <3> QED  BY <1>3, <1>5, <2>1, <3>1
  <2>2. CASE c # size
    BY <1>5, <2>2
  <2> QED  BY <2>1, <2>2
<1>8. k \in 1..Len(m.cache[size]) /\ m.cache[size][k] = x
  BY <1>3
<1> HIDE DEF k
<1>9. \A y : Fine(m, y) => Fine(r, y) /\ \A c : Cached(m, y, c) => Cached(r, y, c)
  BY <1>2, FineLocal
<1>10. Fine(m, x) /\ x.heap = "shm" /\ x.seg # NoSegment
  BY <1>1, <1>8 DEF AllFine, Fine, Sane, Cached
<1>11. /\ \A p \in Pixmaps : ~Shares(m.pix[p], x) /\ ~Shares(x, m.pix[p])
       /\ \A i \in 1..Len(m.delayed) : ~Shares(m.delayed[i], x) /\ ~Shares(x, m.delayed[i])
       /\ \A y \in H : ~Shares(y, x) /\ ~Shares(x, y)
  BY <1>1, <1>8 DEF Apart, Shares
<1>12. \A c \in CachedSizes : \A i \in 1..Len(r.cache[c]) : ~Shares(x, r.cache[c][i])
  <2> TAKE c \in CachedSizes
  <2> TAKE i \in 1..Len(r.cache[c])
  <2>1. Shares(m.cache[size][k], m.cache[c][i]) => size = c /\ k = i
    BY <1>1, <1>6, <1>8 DEF Apart
  <2> QED  BY <1>6, <1>8, <2>1
<1>13. x \notin H
  BY <1>10, <1>11 DEF Shares
<1>14. AllFine(r, G)
  <2>1. \A c \in CachedSizes : \A i \in 1..Len(r.cache[c]) :
          Fine(r, r.cache[c][i]) /\ Cached(r, r.cache[c][i], c)
    BY <1>1, <1>6, <1>9 DEF AllFine
  <2> QED  BY <1>1, <1>2, <1>9, <1>10, <2>1 DEF AllFine
<1>15. Apart(r, G)
  <2>1. \A c, d \in CachedSizes : \A i \in 1..Len(r.cache[c]), j \in 1..Len(r.cache[d]) :
          Shares(r.cache[c][i], r.cache[d][j]) => c = d /\ i = j
    BY <1>1, <1>6 DEF Apart
  <2>2. \A c \in CachedSizes : \A j \in 1..Len(r.cache[c]) :
          /\ \A p \in Pixmaps : ~Shares(r.pix[p], r.cache[c][j])
          /\ \A i \in 1..Len(r.delayed) : ~Shares(r.delayed[i], r.cache[c][j])
          /\ \A y \in G : ~Shares(y, r.cache[c][j])
    BY <1>1, <1>2, <1>6, <1>12 DEF Apart
  <2>3. \A y, z \in G : Shares(y, z) => y = z
    BY <1>1, <1>11 DEF Apart
  <2>4. \A y \in G :
          /\ \A p \in Pixmaps : ~Shares(y, r.pix[p])
          /\ \A i \in 1..Len(r.delayed) : ~Shares(y, r.delayed[i])
    BY <1>1, <1>2, <1>11 DEF Apart
  <2>5. /\ \A p, q \in Pixmaps : Shares(r.pix[p], r.pix[q]) => p = q
        /\ \A i, j \in 1..Len(r.delayed) : Shares(r.delayed[i], r.delayed[j]) => i = j
        /\ \A p \in Pixmaps, i \in 1..Len(r.delayed) : ~Shares(r.pix[p], r.delayed[i])
    BY <1>1, <1>2 DEF Apart
  <2> HIDE DEF G
  <2> QED  BY <2>1, <2>2, <2>3, <2>4, <2>5 DEF Apart
<1>16. Attached(r, G)
  <2>1. \A s : Held(r, G, s) <=> Held(m, H, s)
    <3> TAKE s
    <3>1. Held(r, G, s) => Held(m, H, s)
      BY <1>2, <1>6, <1>8 DEF Held
    <3>2. Held(m, H, s) => Held(r, G, s)
      BY <1>2, <1>7, <1>8 DEF Held
    <3> QED  BY <3>1, <3>2
  <2>2. \A s : Busy(r, s) <=> Busy(m, s)
    BY <1>2 DEF Busy
  <2> QED  BY <1>1, <1>2, <2>1, <2>2 DEF Attached
<1>17. Bounded(r)
  <2>1. \A c \in CachedSizes : Len(r.cache[c]) <= CacheSize
    <3>1. Len(r.cache[size]) <= CacheSize
      BY <1>3, <1>5, PixmapMemoryAssumption
    <3> QED  BY <1>1, <1>5, <3>1 DEF Bounded
  <2>2. \A s : Writes(r, s) = Writes(m, s)
    BY <1>2 DEF Writes
  <2> QED  BY <1>1, <1>2, <2>1, <2>2 DEF Bounded
<1>18. r.delayed # << >> => r.handler
  BY <1>2 DEF Good
<1> QED  BY <1>2, <1>4, <1>10, <1>13, <1>14, <1>15, <1>16, <1>17, <1>18 DEF Good, PixmapsKept, r, x

(* A free segment is attached. *)
LEMMA TakeFreshGood ==
  ASSUME NEW m, NEW H, Good(m, H), NEW s \in FreeSegments(m), NEW size \in Nat
  PROVE  LET r == [m EXCEPT !.live = @ \cup {s}]
             x == NewSegment(s, size)
         IN  /\ Good(r, H \cup {x}) /\ PixmapsKept(m, r)
             /\ x.heap = "shm" /\ x.owner = "CPU" /\ x.cpuWrites /\ x \notin H
<1> DEFINE r == [m EXCEPT !.live = @ \cup {s}]
           x == NewSegment(s, size)
           G == H \cup {x}
<1>1. m \in State /\ AllFine(m, H) /\ Apart(m, H) /\ Attached(m, H) /\ Bounded(m)
  BY DEF Good
<1>2. /\ r.pix = m.pix /\ r.delayed = m.delayed /\ r.cache = m.cache
      /\ r.live = m.live \cup {s} /\ r.access = m.access /\ r.handler = m.handler
      /\ r.gpu = m.gpu /\ r.seg = m.seg
  BY <1>1 DEF State
<1>3. s \in Segments /\ s \notin m.live /\ s # NoSegment
  BY PixmapMemoryAssumption DEF FreeSegments, NoSegment
<1>4. r \in State
  BY <1>1, <1>3 DEF State
<1>5. /\ x.heap = "shm" /\ x.seg = s /\ x.size = size /\ x.mapped = FALSE
      /\ x.owner = "CPU" /\ x.cpuWrites = TRUE /\ x.seen = 0
      /\ x \in [heap : {"shm"}, seg : {s}, size : {size}, mapped : {FALSE}, owner : {"CPU"},
               cpuWrites : {TRUE}, seen : {0}]
  BY DEF NewSegment, NoMemory
<1> HIDE DEF r, x
<1>6. ~Held(m, H, s) /\ ~Busy(m, s) /\ ~m.seg[s].gpuNew
  BY <1>1, <1>3 DEF Attached
<1>7. Fine(m, x)
  <2>1. Sane(x)
    <3>1. 0 \in 0..MaxWrites /\ s \in Segments \cup {NoSegment} /\ FALSE \in BOOLEAN
      BY <1>3, PixmapMemoryAssumption
    <3>2. x \in Memory
      BY <1>5, <3>1 DEF Memory
    <3> QED  BY <1>3, <1>5, <3>2 DEF Sane
  <2>2. Quiet(m, x) /\ Current(m, x) /\ Flushed(m, x)
    BY <1>5, <1>6 DEF Quiet, Current, Flushed
  <2> QED  BY <2>1, <2>2 DEF Fine
<1>8. \A y : Fine(m, y) => Fine(r, y) /\ \A c : Cached(m, y, c) => Cached(r, y, c)
  BY <1>2, FineLocal
<1>9. /\ \A p \in Pixmaps : ~Shares(m.pix[p], x) /\ ~Shares(x, m.pix[p])
      /\ \A i \in 1..Len(m.delayed) : ~Shares(x, m.delayed[i])
      /\ \A c \in CachedSizes : \A i \in 1..Len(m.cache[c]) : ~Shares(x, m.cache[c][i])
      /\ \A y \in H : ~Shares(y, x) /\ ~Shares(x, y) /\ y # x
  BY <1>5, <1>6 DEF Held, Shares
<1>10. AllFine(r, G)
  BY <1>1, <1>2, <1>7, <1>8 DEF AllFine
<1>11. Apart(r, G)
  <2>1. \A y, z \in G : Shares(y, z) => y = z
    BY <1>1, <1>9 DEF Apart
  <2> QED  BY <1>1, <1>2, <1>9, <2>1 DEF Apart
<1>12. Attached(r, G)
  <2>1. \A t : Held(r, G, t) <=> Held(m, H, t) \/ t = s
    BY <1>2, <1>5 DEF Held
  <2>2. \A t : Busy(r, t) <=> Busy(m, t)
    BY <1>2 DEF Busy
  <2> QED  BY <1>1, <1>2, <2>1, <2>2 DEF Attached
<1>13. Bounded(r)
  <2>1. \A t : Writes(r, t) = Writes(m, t)
    BY <1>2 DEF Writes
  <2> QED  BY <1>1, <1>2, <2>1 DEF Bounded
<1>14. r.delayed # << >> => r.handler
  BY <1>2 DEF Good
<1> QED  BY <1>2, <1>4, <1>5, <1>9, <1>10, <1>11, <1>12, <1>13, <1>14 DEF Good, PixmapsKept, r, x

(* PVR2DAllocSHM gives one or the other to a pixmap. *)
LEMMA AllocSHMGood ==
  ASSUME NEW m, NEW H, Good(m, H), NEW p \in Pixmaps, NEW size \in Nat, CanAlloc(m, size)
  PROVE  LET r == PVR2DAllocSHM(m, p, size)
         IN  /\ Good(r, H \cup {m.pix[p]})
             /\ r.pix[p].heap = "shm" /\ r.access = m.access
             /\ size \notin CachedSizes => r.pix[p].owner = "CPU" /\ r.pix[p].cpuWrites
<1>1. CASE size \in CachedSizes /\ m.cache[size] # << >>
  <2> DEFINE n == [m EXCEPT !.cache[size] = Front(@)]
             x == Last(m.cache[size])
  <2>1. Good(n, H \cup {x}) /\ PixmapsKept(m, n) /\ x.heap = "shm" /\ x \notin H
    BY <1>1, TakeCachedGood
  <2>2. PVR2DAllocSHM(m, p, size) = [n EXCEPT !.pix[p] = x]
    BY <1>1 DEF PVR2DAllocSHM
  <2> DEFINE K == H \cup {x}
  <2> HIDE DEF n, x
  <2>3. ((H \cup {x}) \ {x}) \cup {n.pix[p]} = H \cup {m.pix[p]}
    BY <2>1 DEF PixmapsKept
  <2>4. LET r == [n EXCEPT !.pix[p] = x]
        IN  Good(r, H \cup {m.pix[p]}) /\ r.pix[p] = x /\ r.access = n.access
    <3>1. Good(n, K) /\ x \in K /\ (K \ {x}) \cup {n.pix[p]} = H \cup {m.pix[p]}
      BY <2>1, <2>3
    <3> HIDE DEF K
    <3>2. LET r == [n EXCEPT !.pix[p] = x]
          IN  Good(r, (K \ {x}) \cup {n.pix[p]}) /\ r.pix[p] = x /\ r.access = n.access
      BY <3>1, ExchangeGood
    <3> QED  BY <3>1, <3>2
  <2> QED  BY <1>1, <2>1, <2>2, <2>4 DEF PixmapsKept
<1>2. CASE ~(size \in CachedSizes /\ m.cache[size] # << >>)
  <2> DEFINE s == CHOOSE s \in FreeSegments(m) : TRUE
             n == [m EXCEPT !.live = @ \cup {s}]
             x == NewSegment(s, size)
  <2>1. s \in FreeSegments(m)
    BY <1>2 DEF CanAlloc
  <2>2. PVR2DAllocSHM(m, p, size) = [n EXCEPT !.pix[p] = x]
    BY <1>2 DEF PVR2DAllocSHM
  <2> HIDE DEF s
  <2>3. /\ Good(n, H \cup {x}) /\ PixmapsKept(m, n) /\ x.heap = "shm" /\ x.owner = "CPU"
        /\ x.cpuWrites /\ x \notin H
    BY <2>1, TakeFreshGood
  <2> DEFINE K == H \cup {x}
  <2> HIDE DEF n, x
  <2>4. ((H \cup {x}) \ {x}) \cup {n.pix[p]} = H \cup {m.pix[p]}
    BY <2>3 DEF PixmapsKept
  <2>5. LET r == [n EXCEPT !.pix[p] = x]
        IN  Good(r, H \cup {m.pix[p]}) /\ r.pix[p] = x /\ r.access = n.access
    <3>1. Good(n, K) /\ x \in K /\ (K \ {x}) \cup {n.pix[p]} = H \cup {m.pix[p]}
      BY <2>3, <2>4
    <3> HIDE DEF K
    <3>2. LET r == [n EXCEPT !.pix[p] = x]
          IN  Good(r, (K \ {x}) \cup {n.pix[p]}) /\ r.pix[p] = x /\ r.access = n.access
      BY <3>1, ExchangeGood
    <3> QED  BY <3>1, <3>2
  <2> QED  BY <2>2, <2>3, <2>5 DEF PixmapsKept
<1> QED  BY <1>1, <1>2

-----------------------------------------------------------------------------
(* Ownership *)

\* From m to r, p gets another owner, or its memory another description.
SameMemory(m, r, p) ==
    /\ r.access = m.access
    /\ \A q \in Pixmaps : q # p => r.pix[q] = m.pix[q]
    /\ r.pix[p].seg = m.pix[p].seg /\ r.pix[p].heap = m.pix[p].heap
    /\ r.pix[p].mapped = m.pix[p].mapped
SameOps(m, r) == r.gpu = m.gpu /\ \A s \in Segments : r.seg[s].done = m.seg[s].done

(* What a flush does to a state, *)
LEMMA FlushFields ==
  ASSUME NEW m \in State, NEW p \in Pixmaps, Sane(m.pix[p])
  PROVE  LET r == PVR2DFlushCache(m, p)
             x == m.pix[p]
             out == x.mapped /\ x.owner = "CPU" /\ x.cpuWrites
             in  == x.mapped /\ x.owner = "GPU" /\ m.seg[x.seg].done # x.seen
         IN  /\ r \in State /\ Changes(m, r, p) /\ SameMemory(m, r, p) /\ SameOps(m, r)
             /\ r.pix[p].owner = x.owner
             /\ r.pix[p].cpuWrites <=> x.cpuWrites /\ ~out /\ ~in
             /\ r.pix[p].seen = IF in THEN m.seg[x.seg].done ELSE x.seen
             /\ x.seg \in Segments =>
                  /\ r.seg[x.seg].cpuNew <=> m.seg[x.seg].cpuNew /\ ~out
                  /\ r.seg[x.seg].gpuNew <=> m.seg[x.seg].gpuNew /\ ~in
<1> DEFINE r == PVR2DFlushCache(m, p)
           x == m.pix[p]
           out == x.mapped /\ x.owner = "CPU" /\ x.cpuWrites
           in  == x.mapped /\ x.owner = "GPU" /\ m.seg[x.seg].done # x.seen
           s == x.seg
<1>1. /\ m.pix \in [Pixmaps -> Memory] /\ x \in Memory
      /\ m.seg \in [Segments -> [done : 0..MaxWrites, cpuNew : BOOLEAN, gpuNew : BOOLEAN]]
  BY Parts
<1>2. x.mapped => s \in Segments
  BY SegOf DEF Sane
<1>3. \A t \in Segments : m.seg[t].done \in Int
  BY <1>1, PixmapMemoryAssumption
<1>4. CASE out
  <2>1. r = [m EXCEPT !.pix[p].cpuWrites = FALSE, !.seg[s].cpuNew = FALSE]
    BY <1>4 DEF PVR2DFlushCache
  <2>2. /\ r.pix = [m.pix EXCEPT ![p].cpuWrites = FALSE]
        /\ r.seg = [m.seg EXCEPT ![s].cpuNew = FALSE]
        /\ r.access = m.access /\ r.delayed = m.delayed /\ r.cache = m.cache
        /\ r.live = m.live /\ r.handler = m.handler /\ r.gpu = m.gpu
    BY <2>1 DEF State
  <2>3. s \in Segments
    BY <1>2, <1>4
  <2>4. r \in State
    <3>1. [m.pix EXCEPT ![p].cpuWrites = FALSE] \in [Pixmaps -> Memory]
      BY <1>1 DEF Memory
    <3>2. [m.seg EXCEPT ![s].cpuNew = FALSE]
             \in [Segments -> [done : 0..MaxWrites, cpuNew : BOOLEAN, gpuNew : BOOLEAN]]
      BY <1>1, <2>3
    <3> QED  BY <2>1, <3>1, <3>2 DEF State
  <2> HIDE DEF r
  <2>5. /\ r.pix[p].seg = s /\ r.pix[p].heap = x.heap /\ r.pix[p].mapped = x.mapped
        /\ r.pix[p].owner = x.owner /\ r.pix[p].seen = x.seen /\ r.pix[p].cpuWrites = FALSE
        /\ \A q \in Pixmaps : q # p => r.pix[q] = m.pix[q]
    BY <1>1, <2>2 DEF Memory
  <2>6. /\ r.seg[s].done = m.seg[s].done /\ r.seg[s].cpuNew = FALSE
        /\ r.seg[s].gpuNew = m.seg[s].gpuNew
        /\ \A t \in Segments : t # s => r.seg[t] = m.seg[t]
    BY <1>1, <2>2, <2>3
  <2>7. ~in
    BY <1>4
  <2>8. \A t \in Segments : r.seg[t].done = m.seg[t].done
    BY <2>6
  <2>10. \A t \in Segments : r.seg[t].done <= m.seg[t].done
    BY <1>3, <2>8
  <2>11. SameMemory(m, r, p) /\ SameOps(m, r)
    BY <2>2, <2>5, <2>8 DEF SameMemory, SameOps
  <2>12. Changes(m, r, p)
    BY <2>2, <2>5, <2>6, <2>10 DEF Changes
  <2>9. Changes(m, r, p) /\ SameMemory(m, r, p) /\ SameOps(m, r)
    BY <2>11, <2>12
  <2> QED  BY <1>4, <2>4, <2>5, <2>6, <2>7, <2>9 DEF r
<1>5. CASE in
  <2>1. r = [m EXCEPT !.pix[p].cpuWrites = FALSE, !.pix[p].seen = m.seg[s].done,
                      !.seg[s].gpuNew = FALSE]
    BY <1>5 DEF PVR2DFlushCache
  <2>2. /\ r.pix = [[m.pix EXCEPT ![p].cpuWrites = FALSE] EXCEPT ![p].seen = m.seg[s].done]
        /\ r.seg = [m.seg EXCEPT ![s].gpuNew = FALSE]
        /\ r.access = m.access /\ r.delayed = m.delayed /\ r.cache = m.cache
        /\ r.live = m.live /\ r.handler = m.handler /\ r.gpu = m.gpu
    BY <2>1 DEF State
  <2>3. s \in Segments
    BY <1>2, <1>5
  <2>4. r \in State
    <3>1. [m.pix EXCEPT ![p].cpuWrites = FALSE] \in [Pixmaps -> Memory]
      BY <1>1 DEF Memory
    <3>2. m.seg[s].done \in 0..MaxWrites
      BY <1>1, <2>3
    <3> DEFINE f == [m.pix EXCEPT ![p].cpuWrites = FALSE]
               d == m.seg[s].done
    <3>3. [f EXCEPT ![p].seen = d] \in [Pixmaps -> Memory]
      <4> f \in [Pixmaps -> Memory] /\ d \in 0..MaxWrites
        BY <3>1, <3>2
      <4> HIDE DEF f, d
      <4> QED  BY DEF Memory
    <3>4. [m.seg EXCEPT ![s].gpuNew = FALSE]
             \in [Segments -> [done : 0..MaxWrites, cpuNew : BOOLEAN, gpuNew : BOOLEAN]]
      BY <1>1, <2>3
    <3> QED  BY <2>1, <3>3, <3>4 DEF State
  <2> HIDE DEF r
  <2>5. /\ r.pix[p].seg = s /\ r.pix[p].heap = x.heap /\ r.pix[p].mapped = x.mapped
        /\ r.pix[p].owner = x.owner /\ r.pix[p].seen = m.seg[s].done
        /\ r.pix[p].cpuWrites = FALSE
        /\ \A q \in Pixmaps : q # p => r.pix[q] = m.pix[q]
    BY <1>1, <2>2 DEF Memory
  <2>6. /\ r.seg[s].done = m.seg[s].done /\ r.seg[s].cpuNew = m.seg[s].cpuNew
        /\ r.seg[s].gpuNew = FALSE
        /\ \A t \in Segments : t # s => r.seg[t] = m.seg[t]
    BY <1>1, <2>2, <2>3
  <2>7. ~out
    BY <1>5
  <2>8. \A t \in Segments : r.seg[t].done = m.seg[t].done
    BY <2>6
  <2>10. \A t \in Segments : r.seg[t].done <= m.seg[t].done
    BY <1>3, <2>8
  <2>11. SameMemory(m, r, p) /\ SameOps(m, r)
    BY <2>2, <2>5, <2>8 DEF SameMemory, SameOps
  <2>12. Changes(m, r, p)
    BY <2>2, <2>5, <2>6, <2>10 DEF Changes
  <2>9. Changes(m, r, p) /\ SameMemory(m, r, p) /\ SameOps(m, r)
    BY <2>11, <2>12
  <2> QED  BY <1>5, <2>4, <2>5, <2>6, <2>7, <2>9 DEF r
<1>6. CASE ~out /\ ~in
  <2>1. r = m
    BY <1>6 DEF PVR2DFlushCache
  <2>2. Changes(m, r, p) /\ SameMemory(m, r, p) /\ SameOps(m, r)
    BY <1>3, <2>1 DEF Changes, SameMemory, SameOps
  <2> HIDE DEF r
  <2> QED  BY <1>6, <2>1, <2>2 DEF r
<1> QED  BY <1>4, <1>5, <1>6

NewOwner(m, p, o) == [m EXCEPT !.pix[p].owner = o]

(* and what a new owner does. *)
LEMMA OwnerFields ==
  ASSUME NEW m \in State, NEW p \in Pixmaps, NEW o \in {"CPU", "GPU"}
  PROVE  LET r == NewOwner(m, p, o)
             x == m.pix[p]
         IN  /\ r \in State /\ Changes(m, r, p) /\ SameMemory(m, r, p) /\ SameOps(m, r)
             /\ r.pix[p].owner = o /\ r.pix[p].cpuWrites = x.cpuWrites
             /\ r.pix[p].seen = x.seen /\ r.pix[p].size = x.size /\ r.seg = m.seg
<1> DEFINE r == NewOwner(m, p, o)
<1>1. /\ r.pix = [m.pix EXCEPT ![p].owner = o] /\ r.seg = m.seg
      /\ r.access = m.access /\ r.delayed = m.delayed /\ r.cache = m.cache
      /\ r.live = m.live /\ r.handler = m.handler /\ r.gpu = m.gpu
  BY DEF State, NewOwner
<1>2. m.pix \in [Pixmaps -> Memory] /\ \A t \in Segments : m.seg[t].done \in Int
  BY Parts, PixmapMemoryAssumption
<1>3. [m.pix EXCEPT ![p].owner = o] \in [Pixmaps -> Memory]
  BY <1>2 DEF Memory
<1>4. r \in State
  BY <1>3 DEF State, NewOwner
<1> HIDE DEF r
<1>5. /\ r.pix[p].owner = o /\ r.pix[p].cpuWrites = m.pix[p].cpuWrites
      /\ r.pix[p].seen = m.pix[p].seen /\ r.pix[p].size = m.pix[p].size
      /\ r.pix[p].seg = m.pix[p].seg /\ r.pix[p].heap = m.pix[p].heap
      /\ r.pix[p].mapped = m.pix[p].mapped
      /\ \A q \in Pixmaps : q # p => r.pix[q] = m.pix[q]
  BY <1>1, <1>2 DEF Memory
<1>6. SameMemory(m, r, p) /\ SameOps(m, r)
  BY <1>1, <1>5 DEF SameMemory, SameOps
<1>7. \A t \in Segments : r.seg[t].done <= m.seg[t].done
  BY <1>1, <1>2
<1>8. Changes(m, r, p)
  BY <1>1, <1>5, <1>7 DEF Changes
<1> QED  BY <1>1, <1>4, <1>5, <1>6, <1>8 DEF r

(* Two such changes are one. *)
LEMMA ChangesTwice ==
  ASSUME NEW m \in State, NEW n \in State, NEW r \in State, NEW p \in Pixmaps,
         Changes(m, n, p), Changes(n, r, p)
  PROVE  Changes(m, r, p)
<1>1. \A s \in Segments : m.seg[s].done \in Int /\ n.seg[s].done \in Int /\ r.seg[s].done \in Int
  BY Parts, PixmapMemoryAssumption
<1>2. \A s \in Segments : r.seg[s].done <= m.seg[s].done
  BY <1>1 DEF Changes
<1> QED  BY <1>2 DEF Changes

(* What stays over both stays. *)
LEMMA SameTwice ==
  ASSUME NEW m, NEW n, NEW r, NEW p \in Pixmaps,
         SameMemory(m, n, p), SameMemory(n, r, p), SameOps(m, n), SameOps(n, r)
  PROVE  SameMemory(m, r, p) /\ SameOps(m, r)
BY DEF SameMemory, SameOps

(* A size stays what it is. *)
LEMMA FlushSize ==
  ASSUME NEW m \in State, NEW p \in Pixmaps
  PROVE  PVR2DFlushCache(m, p).pix[p].size = m.pix[p].size
<1>1. m.pix \in [Pixmaps -> Memory] /\ m.pix[p] \in Memory
  BY Parts
<1> QED  BY <1>1 DEF PVR2DFlushCache, State, Memory

(* The SGX gets a pixmap, which is flushed on the way. *)
LEMMA OwnershipGPUGood ==
  ASSUME NEW m, NEW H, Good(m, H), NEW p \in Pixmaps, m.pix[p].heap = "shm",
         FewFailures => m.pix[p].mapped
  PROVE  LET r == PVR2DPixmapOwnership_GPU(m, p)
         IN  /\ Good(r, H) /\ SameMemory(m, r, p) /\ SameOps(m, r)
             /\ r.pix[p].owner = "GPU"
<1> DEFINE r == PVR2DPixmapOwnership_GPU(m, p)
           f == PVR2DFlushCache(m, p)
           x == m.pix[p]
           s == x.seg
<1>1. m \in State /\ Fine(m, x) /\ Sane(x) /\ s \in Segments /\ x \in Memory
  BY SegOf DEF Good, AllFine, Fine, Sane
<1>2. CASE x.owner = "GPU"
  BY <1>2 DEF PVR2DPixmapOwnership_GPU, SameMemory, SameOps
<1>3. CASE x.owner = "CPU"
  <2>1. r = NewOwner(f, p, "GPU")
    BY <1>3 DEF PVR2DPixmapOwnership_GPU, NewOwner
  <2>2. /\ f \in State /\ Changes(m, f, p) /\ SameMemory(m, f, p) /\ SameOps(m, f)
        /\ f.pix[p].seen = x.seen
        /\ f.seg[s].cpuNew <=> m.seg[s].cpuNew /\ ~(x.mapped /\ x.cpuWrites)
        /\ f.seg[s].gpuNew <=> m.seg[s].gpuNew
        /\ f.pix[p].size = x.size
    BY <1>1, <1>3, FlushFields, FlushSize
  <2> HIDE DEF f
  <2>3. /\ r \in State /\ Changes(f, r, p) /\ SameMemory(f, r, p) /\ SameOps(f, r)
        /\ r.pix[p].owner = "GPU" /\ r.pix[p].seen = f.pix[p].seen /\ r.seg = f.seg
        /\ r.pix[p].size = f.pix[p].size
    BY <2>1, <2>2, OwnerFields
  <2> HIDE DEF r
  <2>4. Changes(m, r, p) /\ SameMemory(m, r, p) /\ SameOps(m, r)
    BY <1>1, <2>2, <2>3, ChangesTwice, SameTwice
  <2>5. /\ r.pix[p].seg = s /\ r.pix[p].heap = "shm" /\ r.pix[p].mapped = x.mapped
        /\ r.pix[p].size = x.size /\ r.pix[p].seen = x.seen /\ r.pix[p] \in Memory
        /\ r.gpu = m.gpu /\ r.seg[s].done = m.seg[s].done
        /\ r.seg[s].cpuNew <=> m.seg[s].cpuNew /\ ~(x.mapped /\ x.cpuWrites)
        /\ r.seg[s].gpuNew <=> m.seg[s].gpuNew
    BY <1>1, <2>2, <2>3, <2>4, Parts DEF SameMemory, SameOps
  <2>6. Fine(r, r.pix[p])
    <3>1. Sane(r.pix[p])
      BY <1>1, <2>3, <2>5 DEF Sane
    <3>2. Quiet(r, r.pix[p])
      BY <1>1, <1>3, <2>5 DEF Fine, Quiet, Busy
    <3>3. ASSUME FewFailures PROVE Current(r, r.pix[p])
      <4>1. Current(m, x) /\ x.mapped
        BY <1>1, <3>3 DEF Fine
      <4> HIDE DEF x, s
      <4>2. ~m.seg[s].gpuNew /\ x.seen <= m.seg[s].done
        BY <1>3, <4>1 DEF Current, x, s
      <4> QED  BY <2>5, <4>1, <4>2 DEF Current
    <3>4. ASSUME FewFailures, NoneCached PROVE Flushed(r, r.pix[p])
      <4>1. m.seg[s].cpuNew => x.cpuWrites /\ x.mapped
        BY <1>1, <3>4 DEF Fine, Flushed
      <4>2. ~r.seg[s].cpuNew
        BY <2>5, <4>1
      <4> QED  BY <2>5, <4>2 DEF Flushed
    <3> QED  BY <3>1, <3>2, <3>3, <3>4 DEF Fine
  <2>7. Good(r, H)
    BY <2>3, <2>4, <2>6, ChangeGood
  <2> QED  BY <2>3, <2>4, <2>7 DEF r
<1> QED  BY <1>1, <1>2, <1>3 DEF Memory

(* The CPU gets it back when the SGX has done with it. *)
LEMMA OwnershipCPUGood ==
  ASSUME NEW m, NEW H, Good(m, H), NEW p \in Pixmaps
  PROVE  LET r == PVR2DPixmapOwnership_CPU(m, p)
         IN  /\ Good(r, H) /\ SameMemory(m, r, p)
             /\ r.pix[p].owner = "CPU"
             /\ m.pix[p].owner = "CPU" => r.pix = m.pix
<1> DEFINE r == PVR2DPixmapOwnership_CPU(m, p)
           x == m.pix[p]
           n == IF x.mapped THEN Await(m, x.seg) ELSE m
           f == PVR2DFlushCache(n, p)
           s == x.seg
<1>1. m \in State /\ Fine(m, x) /\ Sane(x) /\ x \in Memory /\ (x.heap = "shm" => s \in Segments)
  BY SegOf DEF Good, AllFine, Fine, Sane
<1>2. Good(n, H) /\ SgxOnly(m, n) /\ (x.mapped => ~Busy(n, s))
  <2>1. CASE x.mapped
    <3>1. s \in Segments
      BY <1>1, <2>1 DEF Sane
    <3> QED  BY <2>1, <3>1, AwaitGood
  <2>2. CASE ~x.mapped
    BY <2>2 DEF SgxOnly, SameHolders, NoBusier
  <2> QED  BY <2>1, <2>2
<1>3. n.pix = m.pix /\ n.access = m.access /\ n \in State
  BY <1>2 DEF SgxOnly, SameHolders, Good
<1>4. SameMemory(m, n, p)
  BY <1>3 DEF SameMemory
<1>5. CASE x.owner = "CPU"
  <2>1. r = n
    BY <1>5 DEF PVR2DPixmapOwnership_CPU
  <2> HIDE DEF n, r
  <2> QED  BY <1>2, <1>3, <1>4, <1>5, <2>1 DEF r
<1>6. CASE x.owner = "GPU"
  <2>1. r = NewOwner(f, p, "CPU")
    BY <1>6 DEF PVR2DPixmapOwnership_CPU, NewOwner
  <2> HIDE DEF n
  <2>2. x.heap = "shm" /\ s \in Segments /\ n.pix[p] = x /\ Fine(n, x)
    BY <1>1, <1>2, <1>3, <1>6 DEF Sane, Good, AllFine
  <2>3. /\ f \in State /\ Changes(n, f, p) /\ SameMemory(n, f, p) /\ SameOps(n, f)
        /\ f.pix[p].seen = IF x.mapped /\ n.seg[s].done # x.seen THEN n.seg[s].done ELSE x.seen
        /\ f.seg[s].cpuNew <=> n.seg[s].cpuNew
        /\ f.seg[s].gpuNew <=> n.seg[s].gpuNew /\ ~(x.mapped /\ n.seg[s].done # x.seen)
        /\ f.pix[p].size = x.size
    BY <1>1, <1>3, <1>6, <2>2, FlushFields, FlushSize
  <2> HIDE DEF f
  <2>4. /\ r \in State /\ Changes(f, r, p) /\ SameMemory(f, r, p) /\ SameOps(f, r)
        /\ r.pix[p].owner = "CPU" /\ r.pix[p].seen = f.pix[p].seen /\ r.seg = f.seg
        /\ r.pix[p].size = f.pix[p].size
    BY <2>1, <2>3, OwnerFields
  <2> HIDE DEF r
  <2>5. Changes(n, r, p) /\ SameMemory(n, r, p) /\ SameOps(n, r)
    BY <1>3, <2>3, <2>4, ChangesTwice, SameTwice
  <2>6. /\ r.pix[p].seg = s /\ r.pix[p].heap = "shm" /\ r.pix[p].mapped = x.mapped
        /\ r.pix[p].size = x.size /\ r.pix[p] \in Memory
        /\ r.gpu = n.gpu /\ r.seg[s].done = n.seg[s].done
        /\ r.pix[p].seen = IF x.mapped /\ n.seg[s].done # x.seen THEN n.seg[s].done ELSE x.seen
        /\ r.seg[s].cpuNew <=> n.seg[s].cpuNew
        /\ r.seg[s].gpuNew <=> n.seg[s].gpuNew /\ ~(x.mapped /\ n.seg[s].done # x.seen)
    BY <2>2, <2>3, <2>4, <2>5, Parts DEF SameMemory, SameOps
  <2>7. Fine(r, r.pix[p])
    <3>1. Sane(r.pix[p])
      BY <1>1, <2>2, <2>4, <2>6 DEF Sane
    <3>2. Quiet(r, r.pix[p])
      BY <1>2, <2>2, <2>6 DEF Fine, Quiet, Busy
    <3>3. ASSUME FewFailures PROVE Current(r, r.pix[p])
      <4>1. Current(n, x)
        BY <2>2, <3>3 DEF Fine
      <4>2. n.seg[s].done \in Int /\ x.seen \in Int
        <5>1. n.seg[s].done \in 0..MaxWrites
          BY <1>3, <2>2, Parts
        <5>2. x.seen \in 0..MaxWrites
          BY <1>1 DEF Memory
        <5> QED  BY <5>1, <5>2, PixmapMemoryAssumption
      <4>3. x.mapped /\ x.seen <= n.seg[s].done /\ (n.seg[s].gpuNew => x.seen < n.seg[s].done)
        BY <1>6, <2>2, <4>1 DEF Current
      <4>4. ~r.seg[s].gpuNew /\ r.pix[p].mapped /\ r.pix[p].seen = r.seg[s].done
        BY <2>6, <4>2, <4>3
      <4>5. r.seg[s].done <= r.seg[s].done
        BY <2>6, <4>2
      <4> QED  BY <2>6, <4>4, <4>5 DEF Current
    <3>4. ASSUME FewFailures, NoneCached PROVE Flushed(r, r.pix[p])
      BY <1>6, <2>2, <2>6, <3>4 DEF Fine, Flushed
    <3> QED  BY <3>1, <3>2, <3>3, <3>4 DEF Fine
  <2>8. Good(r, H)
    BY <1>2, <2>4, <2>5, <2>7, ChangeGood
  <2>9. SameMemory(m, r, p)
    BY <1>3, <2>5 DEF SameMemory
  <2> QED  BY <1>6, <2>4, <2>8, <2>9 DEF r
<1> QED  BY <1>1, <1>5, <1>6 DEF Memory

\* What p is, and who has which pixmap in use, stays.
Keeps(m, r, p) ==
    /\ r.access = m.access
    /\ r.pix[p].heap = m.pix[p].heap /\ r.pix[p].seg = m.pix[p].seg

\* bCPUWrites is set.
MarkWrites(m, p) == [m EXCEPT !.pix[p].cpuWrites = TRUE]

(* Memory may be marked as written at any time. *)
LEMMA MarkGood ==
  ASSUME NEW m, NEW H, Good(m, H), NEW p \in Pixmaps
  PROVE  LET r == MarkWrites(m, p)
         IN  /\ Good(r, H) /\ SameMemory(m, r, p) /\ r.seg = m.seg /\ r.gpu = m.gpu
             /\ r.pix[p].owner = m.pix[p].owner /\ r.pix[p].cpuWrites
<1> DEFINE r == MarkWrites(m, p)
           x == m.pix[p]
<1>1. m \in State /\ Fine(m, x)
  BY DEF Good, AllFine
<1>2. /\ r.pix = [m.pix EXCEPT ![p].cpuWrites = TRUE] /\ r.seg = m.seg
      /\ r.access = m.access /\ r.delayed = m.delayed /\ r.cache = m.cache
      /\ r.live = m.live /\ r.handler = m.handler /\ r.gpu = m.gpu
  BY <1>1 DEF State, MarkWrites
<1>3. m.pix \in [Pixmaps -> Memory] /\ \A t \in Segments : m.seg[t].done \in Int
  BY <1>1, Parts, PixmapMemoryAssumption
<1>4. [m.pix EXCEPT ![p].cpuWrites = TRUE] \in [Pixmaps -> Memory]
  BY <1>3 DEF Memory
<1>5. r \in State
  BY <1>1, <1>4 DEF State, MarkWrites
<1> HIDE DEF r
<1>6. /\ r.pix[p].owner = x.owner /\ r.pix[p].cpuWrites = TRUE
      /\ r.pix[p].seen = x.seen /\ r.pix[p].size = x.size /\ r.pix[p].seg = x.seg
      /\ r.pix[p].heap = x.heap /\ r.pix[p].mapped = x.mapped
      /\ \A q \in Pixmaps : q # p => r.pix[q] = m.pix[q]
      /\ r.pix[p] \in Memory
  BY <1>2, <1>3, <1>4 DEF Memory
<1>7. SameMemory(m, r, p)
  BY <1>2, <1>6 DEF SameMemory
<1>8. \A t \in Segments : r.seg[t].done <= m.seg[t].done
  BY <1>2, <1>3
<1>9. Changes(m, r, p)
  BY <1>2, <1>6, <1>8 DEF Changes
<1> HIDE DEF x
<1>10. Fine(r, r.pix[p])
  <2>1. Sane(r.pix[p])
    BY <1>1, <1>6 DEF Fine, Sane
  <2>2. Quiet(r, r.pix[p])
    BY <1>1, <1>2, <1>6 DEF Fine, Quiet, Busy
  <2>3. FewFailures => Current(r, r.pix[p])
    BY <1>1, <1>2, <1>6 DEF Fine, Current
  <2>4. FewFailures /\ NoneCached => Flushed(r, r.pix[p])
    BY <1>1, <1>2, <1>6 DEF Fine, Flushed
  <2> QED  BY <2>1, <2>2, <2>3, <2>4 DEF Fine
<1>11. Good(r, H)
  BY <1>5, <1>9, <1>10, ChangeGood
<1> QED  BY <1>2, <1>6, <1>7, <1>11 DEF r, x

(* The CPU writes into memory that it owns and that is marked. *)
LEMMA CpuWritesGood ==
  ASSUME NEW m, NEW H, Good(m, H), NEW p \in Pixmaps,
         FewFailures /\ NoneCached => m.pix[p].owner = "CPU" /\ m.pix[p].cpuWrites
  PROVE  Good(CpuWrites(m, p), H) /\ CpuWrites(m, p).pix = m.pix
         /\ CpuWrites(m, p).access = m.access
<1> DEFINE r == CpuWrites(m, p)
           x == m.pix[p]
           s == x.seg
<1>1. m \in State /\ Fine(m, x) /\ Sane(x)
  BY DEF Good, AllFine, Fine
<1>2. CASE x.heap # "shm"
  BY <1>2 DEF CpuWrites
<1>3. CASE x.heap = "shm"
  <2>1. /\ r.seg = [m.seg EXCEPT ![s].cpuNew = TRUE] /\ r.pix = m.pix
        /\ r.access = m.access /\ r.delayed = m.delayed /\ r.cache = m.cache
        /\ r.live = m.live /\ r.handler = m.handler /\ r.gpu = m.gpu
    BY <1>1, <1>3 DEF State, CpuWrites
  <2>2. s \in Segments
    BY <1>1, <1>3, SegOf
  <2>3. m.seg \in [Segments -> [done : 0..MaxWrites, cpuNew : BOOLEAN, gpuNew : BOOLEAN]]
    BY <1>1, Parts
  <2>4. [m.seg EXCEPT ![s].cpuNew = TRUE]
           \in [Segments -> [done : 0..MaxWrites, cpuNew : BOOLEAN, gpuNew : BOOLEAN]]
    BY <2>2, <2>3
  <2>5. r \in State
    BY <1>1, <1>3, <2>4 DEF State, CpuWrites
  <2> HIDE DEF r
  <2>6. /\ r.seg[s].done = m.seg[s].done /\ r.seg[s].gpuNew = m.seg[s].gpuNew
        /\ \A t \in Segments : t # s => r.seg[t] = m.seg[t]
    BY <2>1, <2>2, <2>3
  <2>7. \A t \in Segments : r.seg[t].done <= m.seg[t].done
    <3>1. \A t \in Segments : m.seg[t].done \in Int
      BY <2>3, PixmapMemoryAssumption
    <3> QED  BY <2>6, <3>1
  <2>8. Changes(m, r, p)
    BY <2>1, <2>6, <2>7 DEF Changes
  <2>9. Fine(r, r.pix[p])
    <3>1. Quiet(r, x)
      BY <1>1, <2>1 DEF Fine, Quiet, Busy
    <3>2. FewFailures => Current(r, x)
      BY <1>1, <2>6 DEF Fine, Current
    <3>3. FewFailures /\ NoneCached => Flushed(r, x)
      BY DEF Flushed
    <3> QED  BY <1>1, <2>1, <3>1, <3>2, <3>3 DEF Fine
  <2>10. Good(r, H)
    BY <2>5, <2>8, <2>9, ChangeGood
  <2> QED  BY <2>1, <2>10 DEF r
<1> QED  BY <1>2, <1>3

(* A pixmap is given to the CPU for a software operation, *)
LEMMA PrepareAccessGood ==
  ASSUME NEW m, NEW H, Good(m, H), NEW p \in Pixmaps, NEW index
  PROVE  LET r == PVR2DPrepareAccess(m, p, index)
         IN  Good(r, H) /\ r.access = m.access
<1> DEFINE o == PVR2DPixmapOwnership_CPU(m, p)
           n == MarkWrites(o, p)
<1>1. Good(o, H) /\ SameMemory(m, o, p) /\ o.pix[p].owner = "CPU"
  BY OwnershipCPUGood
<1> HIDE DEF o
<1>2. /\ Good(n, H) /\ n.access = o.access
      /\ n.pix[p].owner = "CPU" /\ n.pix[p].cpuWrites
  BY <1>1, MarkGood DEF SameMemory
<1>3. PVR2DPrepareAccess(m, p, index) = o \/ PVR2DPrepareAccess(m, p, index) = CpuWrites(n, p)
  BY DEF PVR2DPrepareAccess, o, MarkWrites
<1> HIDE DEF n
<1>4. Good(CpuWrites(n, p), H) /\ CpuWrites(n, p).access = n.access
  BY <1>2, CpuWritesGood
<1> QED  BY <1>1, <1>2, <1>3, <1>4 DEF SameMemory

(* and goes back to the SGX afterwards. *)
LEMMA FinishAccessGood ==
  ASSUME NEW m, NEW H, Good(m, H), NEW p \in Pixmaps
  PROVE  Good(PVR2DFinishAccess(m, p), H) /\ PVR2DFinishAccess(m, p).access = m.access
<1>1. CASE m.pix[p].mapped
  <2>1. m.pix[p].heap = "shm"
    BY <1>1 DEF Good, AllFine, Fine, Sane
  <2> QED  BY <1>1, <2>1, OwnershipGPUGood DEF PVR2DFinishAccess, SameMemory
<1>2. CASE ~m.pix[p].mapped
  BY <1>2 DEF PVR2DFinishAccess
<1> QED  BY <1>1, <1>2

(* Who uses which pixmap is of no consequence for the memory. *)
LEMMA AccessGood ==
  ASSUME NEW m, NEW H, Good(m, H), NEW p \in Pixmaps, NEW a \in {"none", "src", "dst"}
  PROVE  Good([m EXCEPT !.access[p] = a], H)
<1> DEFINE r == [m EXCEPT !.access[p] = a]
<1>1. m \in State
  BY DEF Good
<1>2. /\ r.pix = m.pix /\ r.delayed = m.delayed /\ r.cache = m.cache /\ r.seg = m.seg
      /\ r.live = m.live /\ r.handler = m.handler /\ r.gpu = m.gpu
      /\ r \in State
  BY <1>1 DEF State
<1> HIDE DEF r
<1>3. \A x : Fine(m, x) => Fine(r, x) /\ \A c : Cached(m, x, c) => Cached(r, x, c)
  BY <1>2, FineLocal
<1>4. AllFine(r, H)
  BY <1>2, <1>3 DEF Good, AllFine
<1>5. Apart(r, H)
  BY <1>2 DEF Good, Apart
<1>6. Attached(r, H)
  BY <1>2 DEF Good, Attached, Held, Busy
<1>7. Bounded(r)
  BY <1>2 DEF Good, Bounded, Writes
<1>8. r.delayed # << >> => r.handler
  BY <1>2 DEF Good
<1>9. Good(r, H)
  BY <1>2, <1>4, <1>5, <1>6, <1>7, <1>8 DEF Good
<1> QED  BY <1>9 DEF r

(* The block handler stays wrapped while there is something left to free. *)
LEMMA HandlerGood ==
  ASSUME NEW m, NEW H, Good(m, H)
  PROVE  Good([m EXCEPT !.handler = m.delayed # << >>], H)
<1> DEFINE r == [m EXCEPT !.handler = m.delayed # << >>]
<1>1. m \in State
  BY DEF Good
<1>2. /\ r.pix = m.pix /\ r.delayed = m.delayed /\ r.cache = m.cache /\ r.seg = m.seg
      /\ r.live = m.live /\ r.gpu = m.gpu /\ r.handler = (m.delayed # << >>)
  BY <1>1 DEF State
<1>10. r \in State
  <2>1. (m.delayed # << >>) \in BOOLEAN
    OBVIOUS
  <2> DEFINE b == m.delayed # << >>
  <2> HIDE DEF b
  <2>2. ASSUME b \in BOOLEAN PROVE [m EXCEPT !.handler = b] \in State
    BY <1>1, <2>2 DEF State
  <2> QED  BY <2>1, <2>2 DEF b
<1> HIDE DEF r
<1>3. \A x : Fine(m, x) => Fine(r, x) /\ \A c : Cached(m, x, c) => Cached(r, x, c)
  BY <1>2, FineLocal
<1>4. AllFine(r, H)
  BY <1>2, <1>3 DEF Good, AllFine
<1>5. Apart(r, H)
  BY <1>2 DEF Good, Apart
<1>6. Attached(r, H)
  BY <1>2 DEF Good, Attached, Held, Busy
<1>7. Bounded(r)
  BY <1>2 DEF Good, Bounded, Writes
<1>8. r.delayed # << >> => r.handler
  BY <1>2
<1>9. Good(r, H)
  BY <1>4, <1>5, <1>6, <1>7, <1>8, <1>10 DEF Good
<1> QED  BY <1>9 DEF r

-----------------------------------------------------------------------------
(* Mapping memory *)

(* The cache is emptied. *)
LEMMA CleanupGood ==
  ASSUME NEW m, Good(m, {})
  PROVE  /\ Good(CleanupSharedSegments(m), {})
         /\ PixmapsKept(m, CleanupSharedSegments(m))
<1> DEFINE K == UNION {{m.cache[c][i].seg : i \in DOMAIN m.cache[c]} : c \in CachedSizes}
           r == CleanupSharedSegments(m)
<1>1. m \in State /\ AllFine(m, {}) /\ Apart(m, {}) /\ Attached(m, {}) /\ Bounded(m)
  BY DEF Good
<1>2. /\ r.pix = m.pix /\ r.delayed = m.delayed /\ r.access = m.access
      /\ r.handler = m.handler /\ r.gpu = m.gpu /\ r.live = m.live \ K
      /\ r.cache = [c \in CachedSizes |-> << >>]
      /\ r.seg = [s \in Segments |-> IF s \in K THEN FreshSegment ELSE m.seg[s]]
  BY <1>1 DEF CleanupSharedSegments, Detach, State
<1>3. r \in State
  <2>1. r.seg \in [Segments -> [done : 0..MaxWrites, cpuNew : BOOLEAN, gpuNew : BOOLEAN]]
    <3>1. \A s \in Segments : (IF s \in K THEN FreshSegment ELSE m.seg[s])
            \in [done : 0..MaxWrites, cpuNew : BOOLEAN, gpuNew : BOOLEAN]
      BY <1>1, Parts
    <3> HIDE DEF r, K
    <3> QED  BY <1>2, <3>1
  <2>2. r.cache \in [CachedSizes -> Seq(Memory)]
    <3> HIDE DEF r, K
    <3> QED  BY <1>2
  <2>3. r.live \in SUBSET Segments
    BY <1>1, <1>2, Parts
  <2> QED  BY <1>1, <2>1, <2>2, <2>3 DEF State, CleanupSharedSegments, Detach
<1>4. \A s : s \in K <=> \E c \in CachedSizes : \E i \in 1..Len(m.cache[c]) : m.cache[c][i].seg = s
  <2>1. \A c \in CachedSizes : DOMAIN m.cache[c] = 1..Len(m.cache[c])
    BY <1>1, Parts, LenProperties
  <2> QED  BY <2>1
<1> HIDE DEF r, K
<1>5. \A c \in CachedSizes : Len(r.cache[c]) = 0
  BY <1>2
<1>6. ASSUME NEW y, Fine(m, y), y.heap = "shm" => y.seg \notin K PROVE Fine(r, y)
  <2>1. y.heap = "shm" => r.seg[y.seg] = m.seg[y.seg]
    BY <1>2, <1>6, SegOf DEF Fine
  <2> QED  BY <1>2, <1>6, <2>1, FineLocal
<1>7. /\ \A p \in Pixmaps : m.pix[p].heap = "shm" => m.pix[p].seg \notin K
      /\ \A i \in 1..Len(m.delayed) : m.delayed[i].heap = "shm" => m.delayed[i].seg \notin K
  <2>1. \A y : Fine(m, y) /\ y.heap = "shm" => y.seg # NoSegment
    BY DEF Fine, Sane
  <2>2. \A p \in Pixmaps : Fine(m, m.pix[p])
    BY <1>1 DEF AllFine
  <2>3. \A i \in 1..Len(m.delayed) : Fine(m, m.delayed[i])
    BY <1>1 DEF AllFine
  <2>4. ASSUME NEW p \in Pixmaps, m.pix[p].heap = "shm" PROVE m.pix[p].seg \notin K
    BY <1>1, <1>4, <2>1, <2>2, <2>4 DEF Apart, Shares
  <2>5. ASSUME NEW i \in 1..Len(m.delayed), m.delayed[i].heap = "shm"
        PROVE  m.delayed[i].seg \notin K
    BY <1>1, <1>4, <2>1, <2>3, <2>5 DEF Apart, Shares
  <2> QED  BY <2>4, <2>5
<1>8. AllFine(r, {})
  BY <1>1, <1>2, <1>5, <1>6, <1>7 DEF AllFine
<1>9. Apart(r, {})
  BY <1>1, <1>2, <1>5 DEF Apart
<1>10. Attached(r, {})
  <2> SUFFICES ASSUME NEW s \in Segments
               PROVE  /\ s \in r.live <=> Held(r, {}, s)
                      /\ s \notin r.live => ~Busy(r, s) /\ ~r.seg[s].gpuNew
    BY DEF Attached
  <2>0. s # NoSegment
    BY PixmapMemoryAssumption DEF NoSegment
  <2>1. Busy(r, s) <=> Busy(m, s)
    BY <1>2 DEF Busy
  <2>2. CASE s \in K
    <3>1. ~Busy(m, s)
      BY <1>1, <1>4, <2>2 DEF AllFine, Cached
    <3>2. r.seg[s] = FreshSegment /\ s \notin r.live
      BY <1>2, <2>2
    <3>3. ~Held(r, {}, s)
      <4>1. \A p \in Pixmaps : m.pix[p].seg # s
        <5>1. \A p \in Pixmaps : m.pix[p].seg # NoSegment => m.pix[p].heap = "shm"
          BY <1>1 DEF AllFine, Fine, Sane
        <5> QED  BY <1>7, <2>0, <2>2, <5>1
      <4>2. \A i \in 1..Len(m.delayed) : m.delayed[i].seg # s
        <5>1. \A i \in 1..Len(m.delayed) : m.delayed[i].seg # NoSegment => m.delayed[i].heap = "shm"
          BY <1>1 DEF AllFine, Fine, Sane
        <5> QED  BY <1>7, <2>0, <2>2, <5>1
      <4> QED  BY <1>2, <1>5, <4>1, <4>2 DEF Held
    <3> QED  BY <2>1, <3>1, <3>2, <3>3 DEF FreshSegment
  <2>3. CASE s \notin K
    <3>1. Held(r, {}, s) <=> Held(m, {}, s)
      BY <1>2, <1>4, <1>5, <2>3 DEF Held
    <3>2. r.seg[s] = m.seg[s] /\ (s \in r.live <=> s \in m.live)
      BY <1>2, <2>3
    <3> QED  BY <1>1, <2>1, <3>1, <3>2 DEF Attached
  <2> QED  BY <2>2, <2>3
<1>11. Bounded(r)
  <2>1. ASSUME NEW s \in Segments PROVE r.seg[s].done + Cardinality(Writes(r, s)) <= MaxWrites
    <3>1. Writes(r, s) = Writes(m, s)
      BY <1>2 DEF Writes
    <3>2. r.seg[s].done <= m.seg[s].done /\ r.seg[s].done \in Int /\ m.seg[s].done \in Int
      <4>1. m.seg[s].done \in 0..MaxWrites
        BY <1>1, Parts
      <4>2. r.seg[s] = m.seg[s] \/ r.seg[s].done = 0
        BY <1>2 DEF FreshSegment
      <4> QED  BY <4>1, <4>2, PixmapMemoryAssumption
    <3>3. m.seg[s].done + Cardinality(Writes(m, s)) <= MaxWrites /\ Cardinality(Writes(m, s)) \in Nat
      BY <1>1, OpsOf DEF Bounded
    <3> QED  BY <3>1, <3>2, <3>3, PixmapMemoryAssumption
  <2>2. \A c \in CachedSizes : Len(r.cache[c]) <= CacheSize
    BY <1>5, PixmapMemoryAssumption
  <2> QED  BY <1>1, <1>2, <2>1, <2>2 DEF Bounded
<1>12. r.delayed # << >> => r.handler
  BY <1>2 DEF Good
<1>13. Good(r, {}) /\ PixmapsKept(m, r)
  BY <1>2, <1>3, <1>8, <1>9, <1>10, <1>11, <1>12 DEF Good, PixmapsKept
<1> QED  BY <1>13 DEF r

(* The pixmaps the SGX does not use lose their mapping.  What becomes of    *)
(* their owner is open: see FewFailures.                                    *)
LEMMA UnmapAllGood ==
  ASSUME NEW m, Good(m, {}), ~FewFailures
  PROVE  LET r == PVR2DUnmapAllPixmaps(m)
         IN  /\ Good(r, {}) /\ r.access = m.access
             /\ \A q \in Pixmaps :
                   /\ r.pix[q].heap = m.pix[q].heap /\ r.pix[q].seg = m.pix[q].seg
                   /\ ~m.pix[q].mapped => r.pix[q] = m.pix[q]
<1> DEFINE r == PVR2DUnmapAllPixmaps(m)
           Un(x) == IF QueryBlitsComplete(m, x) THEN [x EXCEPT !.mapped = FALSE] ELSE x
<1>1. m \in State /\ AllFine(m, {}) /\ Apart(m, {}) /\ Attached(m, {}) /\ Bounded(m)
  BY DEF Good
<1>2. /\ r.pix = [p \in Pixmaps |-> Un(m.pix[p])]
      /\ r.delayed = m.delayed /\ r.access = m.access /\ r.cache = m.cache
      /\ r.handler = m.handler /\ r.gpu = m.gpu /\ r.live = m.live /\ r.seg = m.seg
  BY <1>1 DEF PVR2DUnmapAllPixmaps, State
<1>3. \A x \in Memory :
         /\ Un(x) \in Memory /\ Un(x).heap = x.heap /\ Un(x).seg = x.seg
         /\ Un(x).size = x.size /\ Un(x).owner = x.owner
         /\ (Un(x).mapped => x.mapped)
         /\ Un(x).mapped = x.mapped \/ (Un(x).mapped = FALSE /\ QueryBlitsComplete(m, x))
         /\ ~x.mapped => Un(x) = x
  BY DEF Memory
<1>4. m.pix \in [Pixmaps -> Memory]
  BY <1>1, Parts
<1>5. r \in State
  <2>1. [p \in Pixmaps |-> Un(m.pix[p])] \in [Pixmaps -> Memory]
    BY <1>3, <1>4
  <2>2. r = [m EXCEPT !.pix = [p \in Pixmaps |-> Un(m.pix[p])]]
    BY DEF PVR2DUnmapAllPixmaps
  <2> DEFINE f == [p \in Pixmaps |-> Un(m.pix[p])]
  <2> HIDE DEF f, r
  <2>3. r = [m EXCEPT !.pix = f] /\ f \in [Pixmaps -> Memory]
    BY <2>1, <2>2 DEF f
  <2> QED  BY <1>1, <2>3 DEF State
<1> HIDE DEF r, Un
<1>6. \A q \in Pixmaps :
         /\ r.pix[q] = Un(m.pix[q]) /\ m.pix[q] \in Memory
         /\ r.pix[q].heap = m.pix[q].heap /\ r.pix[q].seg = m.pix[q].seg
         /\ ~m.pix[q].mapped => r.pix[q] = m.pix[q]
  BY <1>2, <1>3, <1>4
<1>7. \A y : Fine(m, y) => Fine(r, y) /\ \A c : Cached(m, y, c) => Cached(r, y, c)
  BY <1>2, FineLocal
<1>8. ASSUME NEW q \in Pixmaps PROVE Fine(r, r.pix[q])
  <2> DEFINE x == m.pix[q]
             u == r.pix[q]
  <2>1. /\ Fine(m, x) /\ Sane(x) /\ x \in Memory
        /\ u = Un(x)
    BY <1>1, <1>6 DEF AllFine, Fine
  <2> HIDE DEF x, u
  <2>2. /\ u \in Memory /\ u.heap = x.heap /\ u.seg = x.seg /\ u.size = x.size
        /\ u.owner = x.owner /\ (u.mapped => x.mapped)
        /\ u.mapped = x.mapped \/ (u.mapped = FALSE /\ QueryBlitsComplete(m, x))
    BY <1>3, <2>1
  <2>3. Sane(u)
    BY <2>1, <2>2 DEF Sane
  <2>4. Quiet(r, u)
    BY <1>2, <2>1, <2>2 DEF Fine, Quiet, Busy, QueryBlitsComplete
  <2> QED  BY <2>3, <2>4 DEF Fine, u
<1>9. AllFine(r, {})
  BY <1>1, <1>2, <1>7, <1>8 DEF AllFine
<1>10. Apart(r, {})
  BY <1>1, <1>2, <1>6 DEF Apart, Shares
<1>11. Attached(r, {})
  BY <1>1, <1>2, <1>6 DEF Attached, Held, Busy
<1>12. Bounded(r)
  <2>1. \A s : Writes(r, s) = Writes(m, s)
    BY <1>2 DEF Writes
  <2> QED  BY <1>1, <1>2, <2>1 DEF Bounded
<1>13. r.delayed # << >> => r.handler
  BY <1>2 DEF Good
<1>14. Good(r, {})
  BY <1>5, <1>9, <1>10, <1>11, <1>12, <1>13 DEF Good
<1> QED  BY <1>2, <1>6, <1>14 DEF r

\* PVR2DMemWrap succeeds.
MemWrap(m, p) == [m EXCEPT !.pix[p].mapped = TRUE, !.seg[m.pix[p].seg].done = 0]

(* Memory that is not mapped gets a mapping. *)
LEMMA MapGood ==
  ASSUME NEW m, NEW H, Good(m, H), NEW p \in Pixmaps, m.pix[p].heap = "shm",
         ~m.pix[p].mapped
  PROVE  LET r == MemWrap(m, p)
         IN  /\ Good(r, H) /\ r.access = m.access
             /\ \A q \in Pixmaps : q # p => r.pix[q] = m.pix[q]
             /\ r.pix[p].heap = "shm" /\ r.pix[p].seg = m.pix[p].seg
             /\ r.pix[p].mapped
<1> DEFINE r == MemWrap(m, p)
           x == m.pix[p]
           s == x.seg
<1>1. m \in State /\ Fine(m, x) /\ Sane(x) /\ s \in Segments /\ x \in Memory
  BY SegOf DEF Good, AllFine, Fine, Sane
<1>2. /\ r.pix = [m.pix EXCEPT ![p].mapped = TRUE]
      /\ r.seg = [m.seg EXCEPT ![s].done = 0]
      /\ r.access = m.access /\ r.delayed = m.delayed /\ r.cache = m.cache
      /\ r.live = m.live /\ r.handler = m.handler /\ r.gpu = m.gpu
  BY <1>1 DEF State, MemWrap
<1>3. /\ m.pix \in [Pixmaps -> Memory]
      /\ m.seg \in [Segments -> [done : 0..MaxWrites, cpuNew : BOOLEAN, gpuNew : BOOLEAN]]
      /\ 0 \in 0..MaxWrites
  BY <1>1, Parts, PixmapMemoryAssumption
<1>4. [m.pix EXCEPT ![p].mapped = TRUE] \in [Pixmaps -> Memory]
  BY <1>3 DEF Memory
<1>5. [m.seg EXCEPT ![s].done = 0]
        \in [Segments -> [done : 0..MaxWrites, cpuNew : BOOLEAN, gpuNew : BOOLEAN]]
  BY <1>1, <1>3
<1>6. r \in State
  BY <1>1, <1>4, <1>5 DEF State, MemWrap
<1> HIDE DEF r
<1>7. /\ r.pix[p].owner = x.owner /\ r.pix[p].cpuWrites = x.cpuWrites
      /\ r.pix[p].seen = x.seen /\ r.pix[p].size = x.size /\ r.pix[p].seg = s
      /\ r.pix[p].heap = x.heap /\ r.pix[p].mapped = TRUE
      /\ \A q \in Pixmaps : q # p => r.pix[q] = m.pix[q]
      /\ r.pix[p] \in Memory
  BY <1>2, <1>3, <1>4 DEF Memory
<1>8. /\ r.seg[s].done = 0 /\ r.seg[s].gpuNew = m.seg[s].gpuNew
      /\ r.seg[s].cpuNew = m.seg[s].cpuNew
      /\ \A t \in Segments : t # s => r.seg[t] = m.seg[t]
  BY <1>1, <1>2, <1>3
<1>9. \A t \in Segments : r.seg[t].done <= m.seg[t].done
  <2>1. \A t \in Segments : m.seg[t].done \in Int /\ 0 <= m.seg[t].done
    BY <1>3, PixmapMemoryAssumption
  <2> QED  BY <1>8, <2>1
<1>10. Changes(m, r, p)
  BY <1>2, <1>7, <1>8, <1>9 DEF Changes
<1>11. Fine(r, r.pix[p])
  <2>1. Sane(r.pix[p])
    BY <1>1, <1>7 DEF Sane
  <2>2. Quiet(r, r.pix[p])
    BY <1>1, <1>2, <1>7 DEF Fine, Quiet, Busy
  <2>3. ASSUME FewFailures PROVE Current(r, r.pix[p])
    <3>1. Current(m, x) /\ x.heap = "shm" /\ ~x.mapped
      BY <1>1, <2>3 DEF Fine
    <3>2. x.owner = "CPU" /\ x.seen = 0 /\ ~m.seg[s].gpuNew
      BY <3>1 DEF Current
    <3> QED  BY <1>7, <1>8, <3>2 DEF Current
  <2>4. FewFailures /\ NoneCached => Flushed(r, r.pix[p])
    BY <1>1, <1>7, <1>8 DEF Fine, Flushed
  <2> QED  BY <2>1, <2>2, <2>3, <2>4 DEF Fine
<1>12. Good(r, H)
  BY <1>6, <1>10, <1>11, ChangeGood
<1> QED  BY <1>2, <1>7, <1>12 DEF r

\* From m to v pixmaps may lose their mapping, and p may get one.
Validates(m, v, p, cleanup) ==
    /\ Good(v, {}) /\ v.access = m.access
    /\ \A q \in Pixmaps : v.pix[q].heap = m.pix[q].heap
    /\ v.pix[p].seg = m.pix[p].seg
    /\ ~cleanup => \A q \in Pixmaps : q # p => v.pix[q] = m.pix[q]
    /\ m.pix[p].mapped => v = m
    /\ FewFailures /\ m.pix[p].heap = "shm" => v.pix[p].mapped

(* PVR2DValidate does no more than that, and maps p if few tries fail. *)
LEMMA ValidateGood ==
  ASSUME NEW m, Good(m, {}), NEW p \in Pixmaps, NEW cleanup \in BOOLEAN,
         NEW n \in 0..MaxWrapFailures
  PROVE  Validates(m, PVR2DValidate(m, p, cleanup, n), p, cleanup)
<1> DEFINE x  == m.pix[p]
           m1 == IF n >= 1 THEN PVR2DDelayedMemDestroy(m, FALSE) ELSE m
           m2 == IF n >= 2 THEN PVR2DDelayedMemDestroy(m1, TRUE) ELSE m1
           c  == CleanupSharedSegments(m2)
           m3 == IF n >= 3 /\ cleanup THEN PVR2DUnmapAllPixmaps(c) ELSE m2
           v  == PVR2DValidate(m, p, cleanup, n)
<1>1. CASE x.mapped \/ x.heap # "shm"
  <2>1. v = m
    BY <1>1 DEF PVR2DValidate
  <2> HIDE DEF v
  <2>2. Validates(m, v, p, cleanup)
    BY <1>1, <2>1 DEF Validates
  <2> QED  BY <2>2 DEF v
<1>2. CASE ~(x.mapped \/ x.heap # "shm")
  <2>1. v = IF n <= 2 \/ (n = 3 /\ cleanup) THEN MemWrap(m3, p) ELSE m3
    <3>1. x.seg = m3.pix[p].seg => v = IF n <= 2 \/ (n = 3 /\ cleanup) THEN MemWrap(m3, p) ELSE m3
      BY <1>2 DEF PVR2DValidate, MemWrap
    <3>2. Good(m1, {}) /\ m1.pix = m.pix
      BY DelayedMemDestroyGood DEF PixmapsKept
    <3> HIDE DEF m1
    <3>3. Good(m2, {}) /\ m2.pix = m.pix
      BY <3>2, DelayedMemDestroyGood DEF PixmapsKept
    <3> HIDE DEF m2
    <3>4. n >= 3 => ~FewFailures
      BY PixmapMemoryAssumption DEF FewFailures
    <3>5. Good(c, {}) /\ c.pix = m2.pix
      BY <3>3, CleanupGood DEF PixmapsKept
    <3> HIDE DEF c
    <3>6. m3.pix[p].seg = x.seg
      BY <3>3, <3>4, <3>5, UnmapAllGood
    <3> QED  BY <3>1, <3>6
  <2> HIDE DEF v
  <2>2. Good(m1, {}) /\ PixmapsKept(m, m1)
    BY DelayedMemDestroyGood DEF PixmapsKept
  <2> HIDE DEF m1
  <2>3. Good(m2, {}) /\ PixmapsKept(m1, m2)
    BY <2>2, DelayedMemDestroyGood DEF PixmapsKept
  <2> HIDE DEF m2
  <2>4. n >= 3 => ~FewFailures
    BY PixmapMemoryAssumption DEF FewFailures
  <2>5. Good(c, {}) /\ PixmapsKept(m2, c)
    BY <2>3, CleanupGood
  <2> HIDE DEF c
  <2>6. m2.pix = m.pix /\ c.pix = m.pix /\ m2.access = m.access /\ c.access = m.access
    BY <2>2, <2>3, <2>5 DEF PixmapsKept
  <2>7. /\ Good(m3, {}) /\ m3.access = m.access
        /\ \A q \in Pixmaps : m3.pix[q].heap = m.pix[q].heap
        /\ m3.pix[p] = x
        /\ ~cleanup => m3.pix = m.pix
    <3>1. CASE n >= 3 /\ cleanup
      <4>1. m3 = PVR2DUnmapAllPixmaps(c)
        BY <3>1
      <4> HIDE DEF m3
      <4> QED  BY <1>2, <2>4, <2>5, <2>6, <3>1, <4>1, UnmapAllGood
    <3>2. CASE ~(n >= 3 /\ cleanup)
      BY <2>3, <2>6, <3>2
    <3> QED  BY <3>1, <3>2
  <2> HIDE DEF m3
  <2>8. LET r == MemWrap(m3, p)
        IN  /\ Good(r, {}) /\ r.access = m3.access
            /\ \A q \in Pixmaps : q # p => r.pix[q] = m3.pix[q]
            /\ r.pix[p].heap = "shm" /\ r.pix[p].seg = m3.pix[p].seg
            /\ r.pix[p].mapped
    BY <1>2, <2>7, MapGood
  <2>9. FewFailures => v = MemWrap(m3, p)
    BY <2>1, PixmapMemoryAssumption DEF FewFailures
  <2>10. v = MemWrap(m3, p) \/ v = m3
    BY <2>1
  <2>11. Good(v, {}) /\ v.access = m.access /\ v.pix[p].seg = x.seg
    BY <2>7, <2>8, <2>10
  <2>12. \A q \in Pixmaps : v.pix[q].heap = m.pix[q].heap
    BY <1>2, <2>7, <2>8, <2>10
  <2>13. ~cleanup => \A q \in Pixmaps : q # p => v.pix[q] = m.pix[q]
    BY <2>7, <2>8, <2>10
  <2>14. FewFailures => v.pix[p].mapped
    BY <2>8, <2>9
  <2> QED  BY <1>2, <2>11, <2>12, <2>13, <2>14 DEF v, Validates
<1> QED  BY <1>1, <1>2

\* The SGX may work on the memory of p.
Ready(m, p) == m.pix[p].mapped /\ m.pix[p].owner = "GPU"

(* The SGX gets one more operation on memory that it may work on. *)
LEMMA QueueGood ==
  ASSUME NEW m, Good(m, {}), NEW p \in Pixmaps, Ready(m, p), NEW src,
         src # NoSegment => \E q \in Pixmaps : Ready(m, q) /\ m.pix[q].seg = src,
         CanQueue(m, m.pix[p].seg)
  PROVE  Good(Queue(m, src, m.pix[p].seg), {})
<1> DEFINE dst == m.pix[p].seg
           op == [src |-> src, dst |-> dst]
           r == Queue(m, src, dst)
           k == Len(m.gpu)
<1>1. m \in State /\ AllFine(m, {}) /\ Apart(m, {}) /\ Attached(m, {}) /\ Bounded(m)
  BY DEF Good
<1>2. /\ r.pix = m.pix /\ r.delayed = m.delayed /\ r.cache = m.cache
      /\ r.live = m.live /\ r.access = m.access /\ r.handler = m.handler
      /\ r.gpu = Append(m.gpu, op) /\ r.seg = m.seg
  BY <1>1 DEF State, Queue
<1>3. ASSUME NEW q \in Pixmaps, Ready(m, q)
      PROVE  m.pix[q].seg \in Segments /\ m.pix[q].seg # NoSegment
  <2>1. Sane(m.pix[q]) /\ m.pix[q].mapped
    BY <1>1, <1>3 DEF AllFine, Fine, Ready
  <2>2. m.pix[q].heap = "shm"
    BY <2>1 DEF Sane
  <2> QED  BY <2>1, <2>2, SegOf DEF Sane
<1>4. op \in Op /\ dst \in Segments
  <2>1. dst \in Segments /\ src \in Segments \cup {NoSegment}
    BY <1>3
  <2> QED  BY <2>1 DEF Op
<1>5. /\ m.gpu \in Seq(Op) /\ k \in Nat
      /\ r.gpu \in Seq(Op) /\ Len(r.gpu) = k + 1
      /\ \A i \in 1..k + 1 : r.gpu[i] = IF i = k + 1 THEN op ELSE m.gpu[i]
      /\ DOMAIN r.gpu = 1..k + 1 /\ DOMAIN m.gpu = 1..k
  <2>1. m.gpu \in Seq(Op) /\ k \in Nat
    BY <1>1, OpsOf DEF State
  <2>2. /\ Append(m.gpu, op) \in Seq(Op) /\ Len(Append(m.gpu, op)) = k + 1
        /\ \A i \in 1..k + 1 : Append(m.gpu, op)[i] = IF i = k + 1 THEN op ELSE m.gpu[i]
    <3> HIDE DEF op, r
    <3> QED  BY <1>4, <2>1, AppendProperties
  <2> HIDE DEF r, op
  <2> QED  BY <1>2, <2>1, <2>2, LenProperties
<1>6. r \in State
  BY <1>1, <1>2, <1>5 DEF State, Queue
<1>7. op.src = src /\ op.dst = dst
  OBVIOUS
<1> HIDE DEF r, op
<1>8. \A s : Busy(r, s) <=> (Busy(m, s) \/ s = src \/ s = dst)
  <2> TAKE s
  <2>1. ASSUME Busy(r, s), ~Busy(m, s) PROVE s = src \/ s = dst
    <3>1. PICK i \in 1..k + 1 : Uses(r.gpu[i], s)
      BY <1>5, <2>1 DEF Busy
    <3>2. i = k + 1
      BY <1>5, <2>1, <3>1 DEF Busy
    <3> QED  BY <1>5, <1>7, <3>1, <3>2 DEF Uses
  <2>2. ASSUME Busy(m, s) PROVE Busy(r, s)
    <3>1. PICK i \in 1..k : Uses(m.gpu[i], s)
      BY <1>5, <2>2 DEF Busy
    <3>2. i \in 1..k + 1 /\ i # k + 1
      BY <1>5
    <3> QED  BY <1>5, <3>1, <3>2 DEF Busy
  <2>3. ASSUME s = src \/ s = dst PROVE Busy(r, s)
    <3>1. k + 1 \in 1..k + 1
      BY <1>5
    <3> QED  BY <1>5, <1>7, <2>3, <3>1 DEF Busy, Uses
  <2> QED  BY <2>1, <2>2, <2>3
<1>9. ASSUME NEW y, y.seg # NoSegment, y.seg = src \/ y.seg = dst
      PROVE  \E q \in Pixmaps : Shares(y, m.pix[q]) /\ Ready(m, q)
  BY <1>9 DEF Shares
<1> DEFINE Clear(y) == \A q \in Pixmaps : Ready(m, q) => ~Shares(y, m.pix[q])
<1>10. ASSUME NEW y, Fine(m, y), (y.mapped /\ y.owner # "CPU") \/ Clear(y) PROVE Fine(r, y)
  <2>1. Quiet(r, y)
    <3>1. SUFFICES ASSUME y.heap = "shm", ~y.mapped \/ y.owner = "CPU" PROVE ~Busy(r, y.seg)
      BY DEF Quiet
    <3>2. ~Busy(m, y.seg) /\ y.seg # NoSegment
      BY <1>10, <3>1 DEF Fine, Quiet, Sane
    <3>3. Clear(y)
      BY <1>10, <3>1
    <3> QED  BY <1>8, <1>9, <3>2, <3>3
  <2>2. FewFailures => Current(r, y)
    BY <1>2, <1>10 DEF Fine, Current
  <2>3. FewFailures /\ NoneCached => Flushed(r, y)
    BY <1>2, <1>10 DEF Fine, Flushed
  <2> QED  BY <1>10, <2>1, <2>2, <2>3 DEF Fine
<1>11. ASSUME NEW q \in Pixmaps PROVE Fine(r, r.pix[q])
  <2>1. Fine(m, m.pix[q])
    BY <1>1 DEF AllFine
  <2>2. Ready(m, q) \/ Clear(m.pix[q])
    BY <1>1 DEF Apart
  <2> HIDE DEF Clear
  <2> QED  BY <1>2, <1>10, <2>1, <2>2 DEF Ready
<1>12. ASSUME NEW i \in 1..Len(m.delayed) PROVE Fine(r, m.delayed[i])
  <2>1. Fine(m, m.delayed[i]) /\ Clear(m.delayed[i])
    BY <1>1 DEF AllFine, Apart, Shares
  <2> HIDE DEF Clear
  <2> QED  BY <1>10, <2>1
<1>13. ASSUME NEW c \in CachedSizes, NEW i \in 1..Len(m.cache[c])
       PROVE  Fine(r, m.cache[c][i]) /\ Cached(r, m.cache[c][i], c)
  <2>1. Fine(m, m.cache[c][i]) /\ Cached(m, m.cache[c][i], c) /\ Clear(m.cache[c][i])
    BY <1>1 DEF AllFine, Apart, Shares
  <2>2. m.cache[c][i].seg # NoSegment
    BY <2>1 DEF Fine, Sane, Cached
  <2>3. Cached(r, m.cache[c][i], c)
    BY <1>8, <1>9, <2>1, <2>2 DEF Cached
  <2> HIDE DEF Clear
  <2> QED  BY <1>10, <2>1, <2>3
<1>14. AllFine(r, {})
  BY <1>1, <1>2, <1>11, <1>12, <1>13 DEF AllFine
<1>15. Apart(r, {})
  BY <1>1, <1>2 DEF Apart
<1>16. Attached(r, {})
  <2>1. \A s : Held(r, {}, s) <=> Held(m, {}, s)
    BY <1>2 DEF Held
  <2>2. ASSUME NEW s \in Segments, s = src \/ s = dst PROVE s \in m.live
    <3>1. s # NoSegment
      BY PixmapMemoryAssumption DEF NoSegment
    <3>2. \E q \in Pixmaps : m.pix[q].seg = s
      BY <2>2, <3>1
    <3> QED  BY <1>1, <3>2 DEF Attached, Held
  <2> QED  BY <1>1, <1>2, <1>8, <2>1, <2>2 DEF Attached
<1>17. Bounded(r)
  <2>1. ASSUME NEW s \in Segments PROVE r.seg[s].done + Cardinality(Writes(r, s)) <= MaxWrites
    <3>1. IsFiniteSet(Writes(m, s)) /\ Cardinality(Writes(m, s)) \in Nat
      BY <1>1, OpsOf
    <3>2. m.seg[s].done \in Int /\ MaxWrites \in Int
      <4>1. m.seg[s].done \in 0..MaxWrites
        BY <1>1, Parts
      <4> QED  BY <4>1, PixmapMemoryAssumption
    <3>3. CASE s = dst
      <4>1. Writes(r, s) = Writes(m, s) \cup {k + 1}
        BY <1>5, <1>7, <3>3 DEF Writes
      <4>2. k + 1 \notin Writes(m, s)
        BY <1>5 DEF Writes
      <4>3. Cardinality(Writes(r, s)) = Cardinality(Writes(m, s)) + 1
        BY <3>1, <4>1, <4>2, FS_AddElement
      <4>4. m.seg[s].done + Cardinality(Writes(m, s)) < MaxWrites
        BY <1>5, <3>3 DEF CanQueue, Writes
      <4> QED  BY <1>2, <3>1, <3>2, <4>3, <4>4
    <3>4. CASE s # dst
      <4>1. Writes(r, s) = Writes(m, s)
        BY <1>5, <1>7, <3>4 DEF Writes
      <4> QED  BY <1>1, <1>2, <4>1 DEF Bounded
    <3> QED  BY <3>3, <3>4
  <2>2. Len(r.gpu) <= MaxQueued
    BY <1>5, PixmapMemoryAssumption DEF CanQueue
  <2> QED  BY <1>1, <1>2, <2>1, <2>2 DEF Bounded
<1>18. r.delayed # << >> => r.handler
  BY <1>2 DEF Good
<1>19. Good(r, {})
  BY <1>6, <1>14, <1>15, <1>16, <1>17, <1>18 DEF Good
<1> QED  BY <1>19 DEF r

-----------------------------------------------------------------------------
(* What the handlers do with the memory of a pixmap *)

(* Memory without a segment replaces whatever the pixmap had, which comes   *)
(* into hand.                                                               *)
LEMMA ReplaceGood ==
  ASSUME NEW m, NEW H, Good(m, H), NEW p \in Pixmaps, NEW x, x.seg = NoSegment,
         Fine(m, x), x \notin H
  PROVE  LET r == [m EXCEPT !.pix[p] = x]
         IN  Good(r, H \cup {m.pix[p]}) /\ r.access = m.access
<1> DEFINE K == H \cup {x}
<1>1. Good(m, K)
  BY HandGood
<1>2. x \in K /\ (K \ {x}) \cup {m.pix[p]} = H \cup {m.pix[p]}
  OBVIOUS
<1> HIDE DEF K
<1>3. LET r == [m EXCEPT !.pix[p] = x]
      IN  /\ Good(r, (K \ {x}) \cup {m.pix[p]})
          /\ r.pix[p] = x /\ r.access = m.access
  BY <1>1, <1>2, ExchangeGood
<1> QED  BY <1>2, <1>3

(* Such memory comes from malloc. *)
LEMMA AllocNormalGood ==
  ASSUME NEW m, Good(m, {}), NEW p \in Pixmaps, NEW size \in MallocSizes
  PROVE  Good(PVR2DAllocNormal(m, p, size), {m.pix[p]})
         /\ PVR2DAllocNormal(m, p, size).access = m.access
<1> DEFINE x == [NoMemory EXCEPT !.heap = "malloc", !.size = size, !.cpuWrites = TRUE]
<1>1. size \in Nat /\ 0 \in 0..MaxWrites
  BY PixmapMemoryAssumption
<1>2. x \in Memory /\ x.heap = "malloc" /\ x.seg = NoSegment /\ ~x.mapped /\ x.owner = "CPU"
      /\ x.size = size
  BY <1>1 DEF NoMemory, Memory
<1>3. PVR2DAllocNormal(m, p, size) = [m EXCEPT !.pix[p] = x]
  BY DEF PVR2DAllocNormal
<1> HIDE DEF x
<1>4. Fine(m, x)
  BY <1>2 DEF Fine, Sane, Quiet, Current, Flushed, NoSegment
<1>5. LET r == [m EXCEPT !.pix[p] = x]
      IN  Good(r, {} \cup {m.pix[p]}) /\ r.access = m.access
  BY <1>2, <1>4, ReplaceGood
<1>6. {} \cup {m.pix[p]} = {m.pix[p]}
  OBVIOUS
<1> QED  BY <1>3, <1>5, <1>6

(* The memory of a pixmap comes into hand. *)
LEMMA GiveUpGood ==
  ASSUME NEW m, Good(m, {}), NEW p \in Pixmaps
  PROVE  Good([m EXCEPT !.pix[p] = NoMemory], {m.pix[p]})
<1>1. 0 \in 0..MaxWrites
  BY PixmapMemoryAssumption
<1>2. NoMemory \in Memory /\ NoMemory.heap = "none" /\ NoMemory.seg = NoSegment
      /\ ~NoMemory.mapped /\ NoMemory.owner = "CPU"
  BY <1>1 DEF NoMemory, Memory
<1>3. Fine(m, NoMemory)
  BY <1>2 DEF Fine, Sane, Quiet, Current, Flushed
<1>4. Good([m EXCEPT !.pix[p] = NoMemory], {} \cup {m.pix[p]})
  BY <1>2, <1>3, ReplaceGood
<1>5. {} \cup {m.pix[p]} = {m.pix[p]}
  OBVIOUS
<1> QED  BY <1>4, <1>5

(* A pixmap gets other memory, and the old goes. *)
LEMMA AllocatePixmapMemGood ==
  ASSUME NEW m, Good(m, {}), NEW p \in Pixmaps, NEW heap, NEW size,
         \/ heap = "shm" /\ size \in ShmSizes /\ CanAlloc(m, size)
         \/ heap = "malloc" /\ size \in MallocSizes
  PROVE  Good(PVR2DAllocatePixmapMem(m, p, heap, size), {})
<1> DEFINE new == IF heap = "shm" THEN PVR2DAllocSHM(m, p, size)
                                 ELSE PVR2DAllocNormal(m, p, size)
           old == m.pix[p]
<1>1. Good(new, {old})
  <2>1. CASE heap = "shm"
    <3>1. size \in Nat /\ CanAlloc(m, size)
      BY <2>1, PixmapMemoryAssumption
    <3>2. Good(PVR2DAllocSHM(m, p, size), {} \cup {old})
      BY <3>1, AllocSHMGood
    <3> QED  BY <2>1, <3>2
  <2>2. CASE heap = "malloc"
    BY <2>2, AllocNormalGood
  <2> QED  BY <2>1, <2>2
<1>2. PVR2DAllocatePixmapMem(m, p, heap, size) = DestroyPVR2DMemory(new, old)
  BY DEF PVR2DAllocatePixmapMem
<1> HIDE DEF new, old
<1>3. Good(DestroyPVR2DMemory(new, old), {old} \ {old})
  BY <1>1, DestroyGood
<1>4. {old} \ {old} = {}
  OBVIOUS
<1> QED  BY <1>2, <1>3, <1>4

(* A migrated pixmap has a segment, and its content in it. *)
LEMMA MovedGood ==
  ASSUME NEW m, Good(m, {}), NEW p \in Pixmaps, m.pix[p].heap = "malloc",
         CanAlloc(m, m.pix[p].size)
  PROVE  Good(Moved(m, p), {}) /\ Moved(m, p).access = m.access
         /\ Moved(m, p).pix[p].heap = "shm"
<1> DEFINE old == m.pix[p]
           a == PVR2DAllocSHM(m, p, old.size)
           n == PVR2DPixmapOwnership_CPU(a, p)
           w == CpuWrites(n, p)
<1>1. old.size \in Nat /\ old.size \in MallocSizes
  BY PixmapMemoryAssumption DEF Good, AllFine, Fine, Sane
<1>2. /\ Good(a, {} \cup {old}) /\ a.pix[p].heap = "shm" /\ a.access = m.access
      /\ NoneCached => a.pix[p].owner = "CPU" /\ a.pix[p].cpuWrites
  BY <1>1, AllocSHMGood DEF NoneCached
<1>3. {} \cup {old} = {old}
  OBVIOUS
<1>4. Moved(m, p) = DestroyPVR2DMemory(w, old)
  BY DEF Moved
<1> HIDE DEF a, old
<1>5. /\ Good(n, {old}) /\ n.pix[p].heap = "shm" /\ n.access = m.access
      /\ NoneCached => n.pix[p].owner = "CPU" /\ n.pix[p].cpuWrites
  <2>1. Good(a, {old})
    BY <1>2, <1>3
  <2>2. /\ Good(n, {old}) /\ SameMemory(a, n, p)
        /\ a.pix[p].owner = "CPU" => n.pix = a.pix
    BY <2>1, OwnershipCPUGood
  <2> QED  BY <1>2, <2>2 DEF SameMemory
<1> HIDE DEF n
<1>6. Good(w, {old}) /\ w.pix = n.pix /\ w.access = n.access
  BY <1>5, CpuWritesGood
<1> HIDE DEF w
<1>7. /\ Good(DestroyPVR2DMemory(w, old), {old} \ {old})
      /\ DestroyPVR2DMemory(w, old).pix = w.pix
      /\ DestroyPVR2DMemory(w, old).access = w.access
  BY <1>6, DestroyGood
<1>8. {old} \ {old} = {}
  OBVIOUS
<1> QED  BY <1>4, <1>5, <1>6, <1>7, <1>8

(* PrepareCopy maps the destination and then the source. *)
LEMMA PrepareCopyGood ==
  ASSUME Good(mem, {}), NEW src \in Pixmaps, NEW dst \in Pixmaps,
         NEW n \in 0..MaxWrapFailures
  PROVE  LET v == PrepareCopy(src, dst, n)
         IN  /\ Good(v, {}) /\ v.access = mem.access
             /\ CopyAccepted(v, src, dst) =>
                  /\ v.pix[dst].mapped /\ v.pix[src].heap = "shm"
                  /\ FewFailures => v.pix[src].mapped
<1> DEFINE d == PVR2DValidate(mem, dst, TRUE, n)
           v == PrepareCopy(src, dst, n)
           s == PVR2DValidate(d, src, FALSE, n)
<1>1. v = IF Validated(d, dst, TRUE) THEN s ELSE d
  BY DEF PrepareCopy
<1>2. Good(d, {}) /\ d.access = mem.access
  <2>1. Validates(mem, d, dst, TRUE)
    BY ValidateGood
  <2> QED  BY <2>1 DEF Validates
<1> HIDE DEF d
<1>3. /\ Good(s, {}) /\ s.access = d.access
      /\ \A q \in Pixmaps : s.pix[q].heap = d.pix[q].heap
      /\ \A q \in Pixmaps : q # src => s.pix[q] = d.pix[q]
      /\ d.pix[src].mapped => s = d
      /\ FewFailures /\ d.pix[src].heap = "shm" => s.pix[src].mapped
  <2>1. Validates(d, s, src, FALSE)
    BY <1>2, ValidateGood
  <2> QED  BY <2>1 DEF Validates
<1> HIDE DEF s, v
<1>4. \A q \in Pixmaps : s.pix[q].mapped => s.pix[q].heap = "shm"
  BY <1>3 DEF Good, AllFine, Fine, Sane
<1>5. CASE Validated(d, dst, TRUE)
  <2>1. v = s /\ d.pix[dst].mapped
    BY <1>1, <1>5 DEF Validated
  <2>2. s.pix[dst].mapped
    <3>1. CASE dst = src
      BY <1>3, <2>1, <3>1
    <3>2. CASE dst # src
      BY <1>3, <2>1, <3>2
    <3> QED  BY <3>1, <3>2
  <2>3. CopyAccepted(v, src, dst) => s.pix[src].heap = "shm"
    BY <1>4, <2>1 DEF CopyAccepted, Validated
  <2> QED  BY <1>2, <1>3, <2>1, <2>2, <2>3 DEF v
<1>6. CASE ~Validated(d, dst, TRUE)
  BY <1>1, <1>2, <1>6 DEF CopyAccepted, v
<1> QED  BY <1>5, <1>6

-----------------------------------------------------------------------------
(* Every step of the module preserves the invariant. *)

(* A flush does not take the SGX's room for operations. *)
LEMMA CpuCanQueue ==
  ASSUME NEW m, NEW r, SameOps(m, r), NEW s \in Segments, CanQueue(m, s)
  PROVE  CanQueue(r, s)
BY DEF SameOps, CanQueue

(* Nothing is allocated at first. *)
LEMMA InitGood == Init => Good(mem, {})
<1> SUFFICES ASSUME Init PROVE Good(mem, {})
  OBVIOUS
<1>1. /\ mem.pix = [p \in Pixmaps |-> NoMemory] /\ mem.access = [p \in Pixmaps |-> "none"]
      /\ mem.delayed = << >> /\ mem.handler = FALSE /\ mem.live = {}
      /\ mem.cache = [s \in CachedSizes |-> << >>]
      /\ mem.seg = [s \in Segments |-> FreshSegment] /\ mem.gpu = << >>
  BY DEF Init
<1>2. 0 \in 0..MaxWrites /\ 0 <= MaxWrites /\ 0 <= CacheSize /\ 0 <= MaxQueued
      /\ NoSegment \notin Segments
  BY PixmapMemoryAssumption DEF NoSegment
<1>3. NoMemory \in Memory /\ NoMemory.heap = "none" /\ NoMemory.seg = NoSegment
      /\ ~NoMemory.mapped /\ NoMemory.owner = "CPU"
  BY <1>2 DEF NoMemory, Memory
<1>4. FreshSegment \in [done : 0..MaxWrites, cpuNew : BOOLEAN, gpuNew : BOOLEAN]
      /\ FreshSegment.done = 0 /\ FreshSegment.gpuNew = FALSE
  BY <1>2 DEF FreshSegment
<1>5. mem \in State
  <2>1. /\ [p \in Pixmaps |-> NoMemory] \in [Pixmaps -> Memory]
        /\ [s \in CachedSizes |-> << >>] \in [CachedSizes -> Seq(Memory)]
        /\ [s \in Segments |-> FreshSegment]
             \in [Segments -> [done : 0..MaxWrites, cpuNew : BOOLEAN, gpuNew : BOOLEAN]]
    BY <1>3, <1>4
  <2>2. << >> \in Seq(Op) /\ << >> \in Seq(Memory)
    OBVIOUS
  <2> QED  BY <2>1, <2>2 DEF Init, State
<1>6. \A s : ~Busy(mem, s)
  BY <1>1 DEF Busy
<1>7. Len(mem.delayed) = 0 /\ Len(mem.gpu) = 0 /\ \A c \in CachedSizes : Len(mem.cache[c]) = 0
  BY <1>1
<1>8. \A p \in Pixmaps : mem.pix[p] = NoMemory
  BY <1>1
<1>9. Fine(mem, NoMemory)
  BY <1>3 DEF Fine, Sane, Quiet, Current, Flushed
<1>10. AllFine(mem, {})
  BY <1>7, <1>8, <1>9 DEF AllFine
<1>11. Apart(mem, {})
  BY <1>3, <1>7, <1>8 DEF Apart, Shares
<1>12. Attached(mem, {})
  BY <1>1, <1>2, <1>3, <1>4, <1>6, <1>7, <1>8 DEF Attached, Held
<1>13. Bounded(mem)
  <2>1. ASSUME NEW s \in Segments PROVE mem.seg[s].done + Cardinality(Writes(mem, s)) <= MaxWrites
    <3>1. Writes(mem, s) = {}
      BY <1>7 DEF Writes
    <3>2. Cardinality({}) = 0
      BY FS_EmptySet
    <3>3. mem.seg[s].done = 0
      BY <1>1, <1>4
    <3> QED  BY <1>2, <3>1, <3>2, <3>3
  <2> QED  BY <1>2, <1>7, <2>1 DEF Bounded
<1> QED  BY <1>1, <1>5, <1>10, <1>11, <1>12, <1>13 DEF Good

(* A pixmap is created, resized or destroyed. *)
LEMMA ModifyPixmapHeaderGood ==
  ASSUME Good(mem, {}), NEW p \in Pixmaps, NEW heap, NEW size,
         \/ heap = "shm" /\ size \in ShmSizes
         \/ heap = "malloc" /\ size \in MallocSizes,
         PVR2DModifyPixmapHeader(p, heap, size)
  PROVE  Good(mem', {})
<1>1. mem' = PVR2DAllocatePixmapMem(mem, p, heap, size)
      /\ (heap = "shm" => CanAlloc(mem, size))
  BY DEF PVR2DModifyPixmapHeader
<1>2. Good(PVR2DAllocatePixmapMem(mem, p, heap, size), {})
  BY <1>1, AllocatePixmapMemGood
<1> QED  BY <1>1, <1>2

(* Its memory is freed or put on the delayed list. *)
LEMMA DestroyPixmapGood ==
  ASSUME Good(mem, {}), NEW p \in Pixmaps, PVR2DDestroyPixmap(p)
  PROVE  Good(mem', {})
<1> DEFINE g == [mem EXCEPT !.pix[p] = NoMemory]
           old == mem.pix[p]
<1>1. mem' = DestroyPVR2DMemory(g, old)
  BY DEF PVR2DDestroyPixmap
<1>2. Good(g, {old})
  BY GiveUpGood
<1> HIDE DEF g, old
<1>3. Good(DestroyPVR2DMemory(g, old), {old} \ {old})
  BY <1>2, DestroyGood
<1>4. {old} \ {old} = {}
  OBVIOUS
<1> QED  BY <1>1, <1>3, <1>4

(* EXA draws with the CPU. *)
LEMMA PrepareAccessStep ==
  ASSUME Good(mem, {}), NEW p \in Pixmaps, NEW index \in {"src", "dst"},
         PrepareAccess(p, index)
  PROVE  Good(mem', {})
<1> DEFINE r == PVR2DPrepareAccess(mem, p, index)
<1>1. mem' = [r EXCEPT !.access[p] = index]
  BY DEF PrepareAccess
<1>2. Good(r, {})
  BY PrepareAccessGood
<1> HIDE DEF r
<1>3. index \in {"none", "src", "dst"}
  OBVIOUS
<1>4. Good([r EXCEPT !.access[p] = index], {})
  BY <1>2, <1>3, AccessGood
<1> QED  BY <1>1, <1>4

(* The pixmap goes back to the SGX if it is mapped. *)
LEMMA FinishAccessStep ==
  ASSUME Good(mem, {}), NEW p \in Pixmaps, FinishAccess(p)
  PROVE  Good(mem', {})
<1> DEFINE r == PVR2DFinishAccess(mem, p)
<1>1. mem' = [r EXCEPT !.access[p] = "none"]
  BY DEF FinishAccess
<1>2. Good(r, {})
  BY FinishAccessGood
<1> HIDE DEF r
<1>3. "none" \in {"none", "src", "dst"}
  OBVIOUS
<1>4. Good([r EXCEPT !.access[p] = "none"], {})
  BY <1>2, <1>3, AccessGood
<1> QED  BY <1>1, <1>4

(* A solid fill is refused, done by the CPU or given to the SGX. *)
LEMMA SolidRefusedGood ==
  ASSUME Good(mem, {}), NEW p \in Pixmaps, NEW n \in 0..MaxWrapFailures,
         SolidRefused(p, n)
  PROVE  Good(mem', {})
<1>1. Validates(mem, PVR2DValidate(mem, p, TRUE, n), p, TRUE)
  BY ValidateGood
<1> QED  BY <1>1 DEF SolidRefused, Validates

(* The CPU takes the pixmap and keeps it. *)
LEMMA SolidBySoftwareGood ==
  ASSUME Good(mem, {}), NEW p \in Pixmaps, NEW n \in 0..MaxWrapFailures,
         SolidBySoftware(p, n)
  PROVE  Good(mem', {})
<1> DEFINE v == PVR2DValidate(mem, p, TRUE, n)
           o == PVR2DPixmapOwnership_CPU(v, p)
           w == MarkWrites(o, p)
<1>1. mem' = CpuWrites(w, p)
  BY DEF SolidBySoftware, MarkWrites
<1>2. Good(v, {})
  <2>1. Validates(mem, v, p, TRUE)
    BY ValidateGood
  <2> QED  BY <2>1 DEF Validates
<1> HIDE DEF v
<1>3. Good(o, {}) /\ o.pix[p].owner = "CPU"
  BY <1>2, OwnershipCPUGood
<1> HIDE DEF o
<1>4. Good(w, {}) /\ w.pix[p].owner = "CPU" /\ w.pix[p].cpuWrites
  BY <1>3, MarkGood
<1> HIDE DEF w
<1>5. Good(CpuWrites(w, p), {})
  BY <1>4, CpuWritesGood
<1> QED  BY <1>1, <1>5

(* The SGX gets the pixmap and the operation. *)
LEMMA SolidByHardwareGood ==
  ASSUME Good(mem, {}), NEW p \in Pixmaps, NEW n \in 0..MaxWrapFailures,
         SolidByHardware(p, n)
  PROVE  Good(mem', {})
<1> DEFINE v == PVR2DValidate(mem, p, TRUE, n)
           o == PVR2DPixmapOwnership_GPU(v, p)
           s == v.pix[p].seg
<1>1. mem' = Queue(o, NoSegment, s) /\ v.pix[p].mapped /\ CanQueue(v, s)
  BY DEF SolidByHardware, Validated
<1>2. Good(v, {})
  <2>1. Validates(mem, v, p, TRUE)
    BY ValidateGood
  <2> QED  BY <2>1 DEF Validates
<1> HIDE DEF v
<1>3. v.pix[p].heap = "shm" /\ s \in Segments
  BY <1>1, <1>2, SegOf DEF Good, AllFine, Fine, Sane
<1>4. Good(o, {}) /\ SameMemory(v, o, p) /\ SameOps(v, o) /\ o.pix[p].owner = "GPU"
  BY <1>1, <1>2, <1>3, OwnershipGPUGood
<1> HIDE DEF o
<1>5. o.pix[p].seg = s /\ Ready(o, p) /\ CanQueue(o, s)
  BY <1>1, <1>3, <1>4, CpuCanQueue DEF SameMemory, Ready
<1>6. Good(Queue(o, NoSegment, o.pix[p].seg), {})
  BY <1>4, <1>5, QueueGood
<1> QED  BY <1>1, <1>5, <1>6

(* So is a copy. *)
LEMMA CopyRefusedGood ==
  ASSUME Good(mem, {}), NEW src \in Pixmaps, NEW dst \in Pixmaps,
         NEW n \in 0..MaxWrapFailures, CopyRefused(src, dst, n)
  PROVE  Good(mem', {})
<1>1. Good(PrepareCopy(src, dst, n), {})
  BY PrepareCopyGood
<1> QED  BY <1>1 DEF CopyRefused

(* The CPU takes both pixmaps, and gives back those that are mapped. *)
LEMMA CopyBySoftwareGood ==
  ASSUME Good(mem, {}), NEW src \in Pixmaps, NEW dst \in Pixmaps,
         NEW n \in 0..MaxWrapFailures, CopyBySoftware(src, dst, n)
  PROVE  Good(mem', {})
<1> DEFINE v == PrepareCopy(src, dst, n)
           a == PVR2DPrepareAccess(v, dst, "dst")
           b == PVR2DPrepareAccess(a, src, "src")
           c == PVR2DFinishAccess(b, src)
<1>1. mem' = PVR2DFinishAccess(c, dst)
  BY DEF CopyBySoftware
<1>2. Good(v, {})
  BY PrepareCopyGood
<1> HIDE DEF v
<1>3. Good(a, {})
  BY <1>2, PrepareAccessGood
<1> HIDE DEF a
<1>4. Good(b, {})
  BY <1>3, PrepareAccessGood
<1> HIDE DEF b
<1>5. Good(c, {})
  BY <1>4, FinishAccessGood
<1> HIDE DEF c
<1>6. Good(PVR2DFinishAccess(c, dst), {})
  BY <1>5, FinishAccessGood
<1> QED  BY <1>1, <1>6

(* The SGX gets both, and the operation if the source is mapped. *)
LEMMA CopyByHardwareGood ==
  ASSUME Good(mem, {}), NEW src \in Pixmaps, NEW dst \in Pixmaps,
         NEW n \in 0..MaxWrapFailures, CopyByHardware(src, dst, n)
  PROVE  Good(mem', {})
<1> DEFINE v == PrepareCopy(src, dst, n)
           d == PVR2DPixmapOwnership_GPU(v, dst)
           o == PVR2DPixmapOwnership_GPU(d, src)
           s == v.pix[dst].seg
           t == v.pix[src].seg
<1>1. /\ mem' = IF v.pix[src].mapped THEN Queue(o, t, s) ELSE o
      /\ CopyAccepted(v, src, dst) /\ CanQueue(v, s)
  BY DEF CopyByHardware
<1>2. /\ Good(v, {}) /\ v.pix[dst].mapped /\ v.pix[src].heap = "shm"
      /\ FewFailures => v.pix[src].mapped
  BY <1>1, PrepareCopyGood
<1> HIDE DEF v
<1>3. v.pix[dst].heap = "shm" /\ s \in Segments
  BY <1>2, SegOf DEF Good, AllFine, Fine, Sane
<1>4. Good(d, {}) /\ SameMemory(v, d, dst) /\ SameOps(v, d) /\ d.pix[dst].owner = "GPU"
  BY <1>2, <1>3, OwnershipGPUGood
<1> HIDE DEF d
<1>5. /\ d.pix[src].heap = "shm" /\ (d.pix[src].mapped <=> v.pix[src].mapped)
      /\ d.pix[src].seg = t /\ d.pix[dst].seg = s /\ Ready(d, dst)
  BY <1>2, <1>4 DEF SameMemory, Ready
<1>6. Good(o, {}) /\ SameMemory(d, o, src) /\ SameOps(d, o) /\ o.pix[src].owner = "GPU"
  BY <1>2, <1>4, <1>5, OwnershipGPUGood
<1> HIDE DEF o
<1>7. /\ o.pix[src].mapped <=> v.pix[src].mapped
      /\ o.pix[src].seg = t /\ o.pix[dst].seg = s /\ Ready(o, dst)
  <2>1. CASE src = dst
    BY <1>5, <1>6, <2>1 DEF SameMemory, Ready
  <2>2. CASE src # dst
    BY <1>5, <1>6, <2>2 DEF SameMemory, Ready
  <2> QED  BY <2>1, <2>2
<1>8. CanQueue(o, s)
  BY <1>1, <1>3, <1>4, <1>6, CpuCanQueue
<1>9. CASE v.pix[src].mapped
  <2>1. Ready(o, src) /\ o.pix[src].seg = t
    BY <1>6, <1>7, <1>9 DEF Ready
  <2>2. Good(Queue(o, t, o.pix[dst].seg), {})
    BY <1>6, <1>7, <1>8, <2>1, QueueGood
  <2> QED  BY <1>1, <1>7, <1>9, <2>2
<1>10. CASE ~v.pix[src].mapped
  BY <1>1, <1>6, <1>10
<1> QED  BY <1>9, <1>10

(* A client gets a pixmap. *)
LEMMA MigratePixmapGood ==
  ASSUME Good(mem, {}), NEW p \in Pixmaps, NEW n \in 0..MaxWrapFailures,
         pvr2d_dri2_migrate_pixmap(p, n)
  PROVE  Good(mem', {})
<1> DEFINE u == IF mem.pix[p].heap = "malloc" THEN Moved(mem, p) ELSE mem
           v == PVR2DValidate(u, p, TRUE, n)
<1>1. /\ mem' = IF v.pix[p].mapped THEN PVR2DPixmapOwnership_GPU(v, p) ELSE v
      /\ mem.pix[p].heap = "malloc" => CanAlloc(mem, mem.pix[p].size)
  BY DEF pvr2d_dri2_migrate_pixmap, Validated
<1>2. Good(u, {})
  BY <1>1, MovedGood
<1> HIDE DEF u
<1>3. Good(v, {})
  <2>1. Validates(u, v, p, TRUE)
    BY <1>2, ValidateGood
  <2> QED  BY <2>1 DEF Validates
<1> HIDE DEF v
<1>4. CASE v.pix[p].mapped
  <2>1. v.pix[p].heap = "shm"
    BY <1>3, <1>4 DEF Good, AllFine, Fine, Sane
  <2>2. Good(PVR2DPixmapOwnership_GPU(v, p), {})
    BY <1>3, <1>4, <2>1, OwnershipGPUGood
  <2> QED  BY <1>1, <1>4, <2>2
<1>5. CASE ~v.pix[p].mapped
  BY <1>1, <1>3, <1>5
<1> QED  BY <1>4, <1>5

(* The server is about to sleep. *)
LEMMA BlockHandlerGood ==
  ASSUME Good(mem, {}), PVR2DBlockHandler
  PROVE  Good(mem', {})
<1> DEFINE d == PVR2DDelayedMemDestroy(mem, FALSE)
<1>1. mem' = [d EXCEPT !.handler = d.delayed # << >>]
  BY DEF PVR2DBlockHandler
<1>2. Good(d, {})
  BY DelayedMemDestroyGood
<1> HIDE DEF d
<1>3. Good([d EXCEPT !.handler = d.delayed # << >>], {})
  BY <1>2, HandlerGood
<1> QED  BY <1>1, <1>3

(* The SGX finishes an operation. *)
LEMMA BlitCompletesGood ==
  ASSUME Good(mem, {}), BlitCompletes
  PROVE  Good(mem', {})
BY RetireGood DEF BlitCompletes

(* Pixmap memory stays in order: every segment has one holder, what the SGX *)
(* works on is attached and mapped, and each pixmap, entry of the delayed   *)
(* list and of the cache is in a state that the code which frees, maps or   *)
(* flushes it expects.                                                      *)
THEOREM PixmapInvariant == Spec => []PixmapInv
<1>1. Init => PixmapInv
  BY InitGood DEF PixmapInv
<1>2. PixmapInv /\ [Next]_mem => PixmapInv'
  <2> SUFFICES ASSUME Good(mem, {}), [Next]_mem PROVE Good(mem', {})
    BY DEF PixmapInv
  <2>1. CASE UNCHANGED mem
    BY <2>1
  <2>2. ASSUME NEW p \in Pixmaps, NEW size \in ShmSizes,
               PVR2DModifyPixmapHeader(p, "shm", size)
        PROVE  Good(mem', {})
    BY <2>2, ModifyPixmapHeaderGood
  <2>3. ASSUME NEW p \in Pixmaps, NEW size \in MallocSizes,
               PVR2DModifyPixmapHeader(p, "malloc", size)
        PROVE  Good(mem', {})
    BY <2>3, ModifyPixmapHeaderGood
  <2>4. ASSUME NEW p \in Pixmaps, PVR2DDestroyPixmap(p) PROVE Good(mem', {})
    BY <2>4, DestroyPixmapGood
  <2>5. ASSUME NEW p \in Pixmaps, NEW index \in {"src", "dst"}, PrepareAccess(p, index)
        PROVE  Good(mem', {})
    BY <2>5, PrepareAccessStep
  <2>6. ASSUME NEW p \in Pixmaps, FinishAccess(p) PROVE Good(mem', {})
    BY <2>6, FinishAccessStep
  <2>7. ASSUME NEW p \in Pixmaps, NEW f \in 0..MaxWrapFailures, SolidRefused(p, f)
        PROVE  Good(mem', {})
    BY <2>7, SolidRefusedGood
  <2>8. ASSUME NEW p \in Pixmaps, NEW f \in 0..MaxWrapFailures, SolidBySoftware(p, f)
        PROVE  Good(mem', {})
    BY <2>8, SolidBySoftwareGood
  <2>9. ASSUME NEW p \in Pixmaps, NEW f \in 0..MaxWrapFailures, SolidByHardware(p, f)
        PROVE  Good(mem', {})
    BY <2>9, SolidByHardwareGood
  <2>10. ASSUME NEW p \in Pixmaps, NEW f \in 0..MaxWrapFailures, NEW q \in Pixmaps,
                CopyRefused(q, p, f)
         PROVE  Good(mem', {})
    BY <2>10, CopyRefusedGood
  <2>11. ASSUME NEW p \in Pixmaps, NEW f \in 0..MaxWrapFailures, NEW q \in Pixmaps,
                CopyBySoftware(q, p, f)
         PROVE  Good(mem', {})
    BY <2>11, CopyBySoftwareGood
  <2>12. ASSUME NEW p \in Pixmaps, NEW f \in 0..MaxWrapFailures, NEW q \in Pixmaps,
                CopyByHardware(q, p, f)
         PROVE  Good(mem', {})
    BY <2>12, CopyByHardwareGood
  <2>13. ASSUME NEW p \in Pixmaps, NEW f \in 0..MaxWrapFailures,
                pvr2d_dri2_migrate_pixmap(p, f)
         PROVE  Good(mem', {})
    BY <2>13, MigratePixmapGood
  <2>14. CASE PVR2DBlockHandler
    BY <2>14, BlockHandlerGood
  <2>15. CASE BlitCompletes
    BY <2>15, BlitCompletesGood
  <2> QED
    BY <2>1, <2>2, <2>3, <2>4, <2>5, <2>6, <2>7, <2>8, <2>9, <2>10, <2>11, <2>12,
       <2>13, <2>14, <2>15 DEF Next
<1> QED  BY <1>1, <1>2, PTL DEF Spec

-----------------------------------------------------------------------------
(* What the inductive invariant says of the properties of PixmapMemory. *)

(* Whoever holds memory is a pixmap, an entry of the delayed list or one of *)
(* the cache.                                                               *)
LEMMA HolderCases ==
  ASSUME mem \in State, NEW h \in Holders
  PROVE  \/ \E p \in Pixmaps : h = <<"pix", p>> /\ MemoryOf(h) = mem.pix[p]
         \/ \E i \in 1..Len(mem.delayed) :
               h = <<"delayed", i>> /\ MemoryOf(h) = mem.delayed[i]
         \/ \E c \in CachedSizes : \E i \in 1..Len(mem.cache[c]) :
               h = <<"cache", c, i>> /\ MemoryOf(h) = mem.cache[c][i]
<1>1. DOMAIN mem.delayed = 1..Len(mem.delayed)
  BY Parts, LenProperties
<1>2. \A c \in CachedSizes : DOMAIN mem.cache[c] = 1..Len(mem.cache[c])
  BY Parts, LenProperties
<1>3. CASE \E p \in Pixmaps : h = <<"pix", p>>
  BY <1>3 DEF MemoryOf
<1>4. CASE \E i \in DOMAIN mem.delayed : h = <<"delayed", i>>
  BY <1>1, <1>4 DEF MemoryOf
<1>5. CASE \E c \in CachedSizes : \E i \in DOMAIN mem.cache[c] : h = <<"cache", c, i>>
  BY <1>2, <1>5 DEF MemoryOf
<1> QED  BY <1>3, <1>4, <1>5 DEF Holders

(* And each of these is a holder. *)
LEMMA HoldersAll ==
  ASSUME mem \in State
  PROVE  /\ \A p \in Pixmaps :
               <<"pix", p>> \in Holders /\ MemoryOf(<<"pix", p>>) = mem.pix[p]
         /\ \A i \in 1..Len(mem.delayed) :
               /\ <<"delayed", i>> \in Holders
               /\ MemoryOf(<<"delayed", i>>) = mem.delayed[i]
         /\ \A c \in CachedSizes : \A i \in 1..Len(mem.cache[c]) :
               /\ <<"cache", c, i>> \in Holders
               /\ MemoryOf(<<"cache", c, i>>) = mem.cache[c][i]
<1>1. DOMAIN mem.delayed = 1..Len(mem.delayed)
  BY Parts, LenProperties
<1>2. \A c \in CachedSizes : DOMAIN mem.cache[c] = 1..Len(mem.cache[c])
  BY Parts, LenProperties
<1>3. \A p \in Pixmaps : <<"pix", p>> \in Holders /\ MemoryOf(<<"pix", p>>) = mem.pix[p]
  BY DEF Holders, MemoryOf
<1>4. \A i \in 1..Len(mem.delayed) : <<"delayed", i>> \in Holders
                                     /\ MemoryOf(<<"delayed", i>>) = mem.delayed[i]
  BY <1>1 DEF Holders, MemoryOf
<1>5. \A c \in CachedSizes : \A i \in 1..Len(mem.cache[c]) :
         /\ <<"cache", c, i>> \in Holders
         /\ MemoryOf(<<"cache", c, i>>) = mem.cache[c][i]
  BY <1>2 DEF Holders, MemoryOf
<1> QED  BY <1>3, <1>4, <1>5

(* What every holder has is fine. *)
LEMMA HoldersFine ==
  ASSUME Good(mem, {}), NEW h \in Holders
  PROVE  Fine(mem, MemoryOf(h))
<1>1. mem \in State /\ AllFine(mem, {})
  BY DEF Good
<1> QED  BY <1>1, HolderCases DEF AllFine

(* Two holders never have the same segment. *)
LEMMA HoldersApart ==
  ASSUME Good(mem, {}), NEW g \in Holders, NEW h \in Holders,
         Shares(MemoryOf(g), MemoryOf(h))
  PROVE  g = h
<1> DEFINE x == MemoryOf(g)
           y == MemoryOf(h)
<1>1. mem \in State /\ Apart(mem, {})
  BY DEF Good
<1>2. \/ \E p \in Pixmaps : g = <<"pix", p>> /\ x = mem.pix[p]
      \/ \E i \in 1..Len(mem.delayed) : g = <<"delayed", i>> /\ x = mem.delayed[i]
      \/ \E c \in CachedSizes : \E i \in 1..Len(mem.cache[c]) :
            g = <<"cache", c, i>> /\ x = mem.cache[c][i]
  BY <1>1, HolderCases
<1>3. \/ \E p \in Pixmaps : h = <<"pix", p>> /\ y = mem.pix[p]
      \/ \E i \in 1..Len(mem.delayed) : h = <<"delayed", i>> /\ y = mem.delayed[i]
      \/ \E c \in CachedSizes : \E i \in 1..Len(mem.cache[c]) :
            h = <<"cache", c, i>> /\ y = mem.cache[c][i]
  BY <1>1, HolderCases
<1>4. Shares(x, y) /\ Shares(y, x)
  BY DEF Shares
<1> HIDE DEF x, y
<1>5. CASE \E p \in Pixmaps : g = <<"pix", p>> /\ x = mem.pix[p]
  <2>1. PICK p \in Pixmaps : g = <<"pix", p>> /\ x = mem.pix[p]
    BY <1>5
  <2>2. \A i \in 1..Len(mem.delayed) : y # mem.delayed[i]
    BY <1>1, <1>4, <2>1 DEF Apart
  <2>3. \A c \in CachedSizes : \A i \in 1..Len(mem.cache[c]) : y # mem.cache[c][i]
    BY <1>1, <1>4, <2>1 DEF Apart
  <2>4. PICK q \in Pixmaps : h = <<"pix", q>> /\ y = mem.pix[q]
    BY <1>3, <2>2, <2>3
  <2>5. p = q
    BY <1>1, <1>4, <2>1, <2>4 DEF Apart
  <2> QED  BY <2>1, <2>4, <2>5
<1>6. CASE \E i \in 1..Len(mem.delayed) : g = <<"delayed", i>> /\ x = mem.delayed[i]
  <2>1. PICK i \in 1..Len(mem.delayed) : g = <<"delayed", i>> /\ x = mem.delayed[i]
    BY <1>6
  <2>2. \A p \in Pixmaps : y # mem.pix[p]
    BY <1>1, <1>4, <2>1 DEF Apart
  <2>3. \A c \in CachedSizes : \A j \in 1..Len(mem.cache[c]) : y # mem.cache[c][j]
    BY <1>1, <1>4, <2>1 DEF Apart
  <2>4. PICK j \in 1..Len(mem.delayed) : h = <<"delayed", j>> /\ y = mem.delayed[j]
    BY <1>3, <2>2, <2>3
  <2>5. i = j
    BY <1>1, <1>4, <2>1, <2>4 DEF Apart
  <2> QED  BY <2>1, <2>4, <2>5
<1>7. CASE \E c \in CachedSizes : \E i \in 1..Len(mem.cache[c]) :
              g = <<"cache", c, i>> /\ x = mem.cache[c][i]
  <2>1. PICK c \in CachedSizes : \E i \in 1..Len(mem.cache[c]) :
              g = <<"cache", c, i>> /\ x = mem.cache[c][i]
    BY <1>7
  <2>2. PICK i \in 1..Len(mem.cache[c]) : g = <<"cache", c, i>> /\ x = mem.cache[c][i]
    BY <2>1
  <2>3. \A p \in Pixmaps : y # mem.pix[p]
    BY <1>1, <1>4, <2>2 DEF Apart
  <2>4. \A j \in 1..Len(mem.delayed) : y # mem.delayed[j]
    BY <1>1, <1>4, <2>2 DEF Apart
  <2>5. PICK d \in CachedSizes : \E j \in 1..Len(mem.cache[d]) :
              h = <<"cache", d, j>> /\ y = mem.cache[d][j]
    BY <1>3, <2>3, <2>4
  <2>6. PICK j \in 1..Len(mem.cache[d]) : h = <<"cache", d, j>> /\ y = mem.cache[d][j]
    BY <2>5
  <2>7. c = d /\ i = j
    BY <1>1, <1>4, <2>2, <2>6 DEF Apart
  <2> QED  BY <2>2, <2>6, <2>7
<1> QED  BY <1>2, <1>5, <1>6, <1>7

(* A segment is attached if and only if somebody holds it. *)
LEMMA HeldIs ==
  ASSUME Good(mem, {}), NEW s \in Segments
  PROVE  s \in mem.live <=> \E h \in Holders : MemoryOf(h).seg = s
<1>1. mem \in State /\ (s \in mem.live <=> Held(mem, {}, s))
  BY DEF Good, Attached
<1>2. Held(mem, {}, s) => \E h \in Holders : MemoryOf(h).seg = s
  BY <1>1, HoldersAll DEF Held
<1>3. ASSUME NEW h \in Holders, MemoryOf(h).seg = s PROVE Held(mem, {}, s)
  BY <1>1, <1>3, HolderCases DEF Held
<1> QED  BY <1>1, <1>2, <1>3

(* Every value of the state has its type, and the SGX and the cache never   *)
(* get more than they have room for (sgx_cache.c:156-167).                  *)
THEOREM PixmapTypeCorrect == Spec => []TypeOK
<1>1. PixmapInv => TypeOK
  BY DEF PixmapInv, Good, Bounded, TypeOK
<1> QED  BY <1>1, PixmapInvariant, PTL

(* The block handler stays wrapped while there is memory to be freed later. *)
THEOREM DelayedStaysWatched == Spec => []DelayedIsWatched
<1>1. PixmapInv => DelayedIsWatched
  BY DEF PixmapInv, Good, DelayedIsWatched
<1> QED  BY <1>1, PixmapInvariant, PTL

(* No segment is leaked, freed twice or shown to two pixmaps, whatever is   *)
(* resized, destroyed, cached or migrated, and when.                        *)
THEOREM SegmentsStayHeldOnce == Spec => []SegmentsHeldOnce
<1>1. PixmapInv => SegmentsHeldOnce
  <2> SUFFICES ASSUME Good(mem, {}), NEW s \in Segments
               PROVE  Cardinality({h \in Holders : MemoryOf(h).seg = s})
                        = (IF s \in mem.live THEN 1 ELSE 0)
    BY DEF PixmapInv, SegmentsHeldOnce
  <2> DEFINE W == {h \in Holders : MemoryOf(h).seg = s}
  <2>1. CASE s \in mem.live
    <3>1. PICK h \in Holders : MemoryOf(h).seg = s
      BY <2>1, HeldIs
    <3>2. s # NoSegment
      BY PixmapMemoryAssumption DEF NoSegment
    <3>3. \A g \in Holders : MemoryOf(g).seg = s => g = h
      BY <3>1, <3>2, HoldersApart DEF Shares
    <3>4. W = {h}
      BY <3>1, <3>3
    <3>5. Cardinality({h}) = 1
      BY FS_Singleton
    <3> QED  BY <2>1, <3>4, <3>5
  <2>2. CASE s \notin mem.live
    <3>1. W = {}
      BY <2>2, HeldIs
    <3>2. Cardinality({}) = 0
      BY FS_EmptySet
    <3> QED  BY <2>2, <3>1, <3>2
  <2> QED  BY <2>1, <2>2
<1> QED  BY <1>1, PixmapInvariant, PTL

(* What the SGX works on stays attached and mapped, however the pixmap that *)
(* had it is destroyed, resized or migrated meanwhile.                      *)
THEOREM BusyMemoryStays == Spec => []BusyMemoryKept
<1>1. PixmapInv => BusyMemoryKept
  <2> SUFFICES ASSUME Good(mem, {}), NEW s \in Segments, Busy(mem, s)
               PROVE  \E h \in Holders : MemoryOf(h).seg = s /\ MemoryOf(h).mapped
    BY DEF PixmapInv, BusyMemoryKept
  <2>1. s \in mem.live
    BY DEF Good, Attached
  <2>2. PICK h \in Holders : MemoryOf(h).seg = s
    BY <2>1, HeldIs
  <2>3. Fine(mem, MemoryOf(h)) /\ s # NoSegment
    BY HoldersFine, PixmapMemoryAssumption DEF NoSegment
  <2>4. MemoryOf(h).heap = "shm"
    BY <2>2, <2>3 DEF Fine, Sane
  <2>5. MemoryOf(h).mapped
    BY <2>2, <2>3, <2>4 DEF Fine, Quiet
  <2> QED  BY <2>2, <2>5
<1> QED  BY <1>1, PixmapInvariant, PTL

(* The CPU finds what the SGX wrote, and the SGX is done with what          *)
(* the CPU owns, unless mapping memory fails so often that other pixmaps    *)
(* lose theirs (see FewFailures).                                           *)
THEOREM CpuOwnedStaysCurrent == FewFailures => (Spec => []CpuOwnedIsCurrent)
<1>1. FewFailures /\ PixmapInv => CpuOwnedIsCurrent
  <2> SUFFICES ASSUME FewFailures, Good(mem, {}), NEW h \in Holders
               PROVE  LET x == MemoryOf(h) IN
                      x.heap = "shm" /\ x.owner = "CPU" =>
                        ~Busy(mem, x.seg) /\ ~mem.seg[x.seg].gpuNew
    BY DEF PixmapInv, CpuOwnedIsCurrent
  <2>1. Fine(mem, MemoryOf(h))
    BY HoldersFine
  <2> QED  BY <2>1 DEF Fine, Quiet, Current
<1>2. ASSUME FewFailures PROVE Spec => []CpuOwnedIsCurrent
  <2>1. PixmapInv => CpuOwnedIsCurrent
    BY <1>1, <1>2
  <2> QED  BY <2>1, PixmapInvariant, PTL
<1> QED  BY <1>2

(* The SGX finds what the CPU wrote, under the same condition and if        *)
(* migrated memory does not come from the cache (see NoneCached).           *)
THEOREM GpuOwnedStaysFlushed == FewFailures /\ NoneCached => (Spec => []GpuOwnedIsFlushed)
<1>1. FewFailures /\ NoneCached /\ PixmapInv => GpuOwnedIsFlushed
  <2> SUFFICES ASSUME FewFailures, NoneCached, Good(mem, {}), NEW h \in Holders
               PROVE  LET x == MemoryOf(h) IN
                      x.heap = "shm" /\ x.owner = "GPU" => ~mem.seg[x.seg].cpuNew
    BY DEF PixmapInv, GpuOwnedIsFlushed
  <2>1. Fine(mem, MemoryOf(h))
    BY HoldersFine
  <2> QED  BY <2>1 DEF Fine, Flushed
<1>2. ASSUME FewFailures /\ NoneCached PROVE Spec => []GpuOwnedIsFlushed
  <2>1. PixmapInv => GpuOwnedIsFlushed
    BY <1>1, <1>2
  <2> QED  BY <2>1, PixmapInvariant, PTL
<1> QED  BY <1>2
=============================================================================
