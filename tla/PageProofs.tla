----------------------------- MODULE PageProofs -----------------------------
(***************************************************************************)
(* The two pages of shared memory.  First the resolve page, for any number *)
(* of workers, any MAX_ADDRS, any counter width and any number of          *)
(* publications and restarts.  Then the scores page, for any fleet, any    *)
(* counter width and any number of writes and restarts; two assumptions    *)
(* mark where the code's promise ends there: every worker has a slot of    *)
(* its own, and none dies inside `write`.                                  *)
(***************************************************************************)
EXTENDS ResolvePage, ScorePage, Integers, TLAPS

\* The solver gets more than its 5 seconds, for slow machines.
USE SMTT(30)
-----------------------------------------------------------------------------
(* Arithmetic of a counter, which `publish` and `write` advance with
   wrapping_add and a reader loads twice. *)

\* Division with remainder.
LEMMA DivMod ==
  ASSUME NEW n \in Nat, NEW m \in Nat \ {0}
  PROVE  /\ n % m \in 0..(m - 1)
         /\ n \div m \in Nat
         /\ n = (m * (n \div m)) + (n % m)
  BY SMT

\* A multiple of m between 0 and m - 1 is 0.
LEMMA NoMultiple ==
  ASSUME NEW m \in Nat \ {0}, NEW k \in Int, m * k < m, m * k >= 0
  PROVE  m * k = 0
  BY SMT

\* The remainder is unique.
LEMMA ModUnique ==
  ASSUME NEW m \in Nat \ {0}, NEW a \in Nat, NEW q \in Int, NEW r \in 0..(m-1), a = (m * q) + r
  PROVE  a % m = r
  BY SMT

\* Adding one to a wrapped counter is adding one and wrapping: the counter of a
\* page counts the stores made to it (wrapping_add, shared.rs:243, 427).
LEMMA ModSucc ==
  ASSUME NEW n \in Nat, NEW m \in Nat \ {0}
  PROVE  ((n % m) + 1) % m = (n + 1) % m
<1> DEFINE q == n \div m
           r == n % m
<1>1. r \in 0..(m - 1) /\ q \in Nat /\ n = (m * q) + r
  BY DivMod, Zenon
<1> HIDE DEF q, r
<1>2. CASE r + 1 < m
  <2>1. (n + 1) % m = r + 1
    BY <1>1, <1>2, ModUnique
  <2>2. (r + 1) % m = r + 1
    BY <1>1, <1>2, SMT
  <2> QED BY <2>1, <2>2, Zenon DEF r
<1>3. CASE r + 1 = m
  <2>1. (r + 1) % m = 0
    BY <1>1, <1>3, SMT
  <2>2. n + 1 = (m * (q + 1)) + 0
    BY <1>1, <1>3, SMT
  <2>3. (n + 1) % m = 0
    BY <2>2, <1>1, ModUnique
  <2> QED BY <2>1, <2>3, Zenon DEF r
<1> QED BY <1>1, <1>2, <1>3, SMT

\* Two loads less than one wrap apart are equal only if nothing was stored
\* in between: the comparison first == second (shared.rs:332, 489).
LEMMA ModInjective ==
  ASSUME NEW a \in Nat, NEW b \in Nat, NEW m \in Nat \ {0},
         a <= b, b - a < m, a % m = b % m
  PROVE  a = b
<1> DEFINE p == a \div m
           q == b \div m
           r == a % m
<1>1. r \in 0..(m - 1) /\ p \in Nat /\ a = (m * p) + r
  BY DivMod, Zenon
<1>2. r \in 0..(m - 1) /\ q \in Nat /\ b = (m * q) + r
  BY DivMod, Zenon
<1> HIDE DEF p, q, r
<1>3. b - a = m * (q - p)
  BY <1>1, <1>2, SMT
<1>4. m * (q - p) = 0
  BY <1>1, <1>2, <1>3, NoMultiple
<1> QED BY <1>3, <1>4

\* Wrapping keeps the parity: an odd counter is odd (first % 2 == 1,
\* shared.rs:311, 471).
LEMMA ModParity ==
  ASSUME NEW c \in Nat, NEW h \in Nat \ {0}
  PROVE  ((2 * c + 1) % (2 * h)) % 2 = 1
<1> DEFINE n == 2 * c + 1
           m == 2 * h
           q == n \div m
           r == n % m
<1>1. n \in Nat /\ m \in Nat \ {0}
  OBVIOUS
<1>2. r \in 0..(m - 1) /\ q \in Nat /\ n = (m * q) + r
  <2> HIDE DEF n, m
  <2> QED BY <1>1, DivMod, Zenon
<1> HIDE DEF q, r
<1>3. h * q \in Int /\ r = 2 * (c - h * q) + 1
  BY <1>2, SMT
<1>4. r % 2 = 1
  BY <1>2, <1>3
<1> QED BY <1>4, Zenon DEF r
-----------------------------------------------------------------------------
(* The resolve page. *)

Bit(p) == IF p THEN 1 ELSE 0

\* TypeOK by its two halves: what publish writes, and what the workers hold.
PageTypes ==
  /\ seq \in 0..(SeqModulus - 1)
  /\ mem \in [Word -> PubNumber]
  /\ sizes \in Seq(Slot)
  /\ unstored \subseteq Word
  /\ publishing \in BOOLEAN
  /\ odd \in BOOLEAN
  /\ committed \in PubNumber

ReaderTypes ==
  /\ unread \in [Readers -> SUBSET Word]
  /\ reading \in [Readers -> BOOLEAN]
  /\ first \in [Readers -> 0..(SeqModulus - 1)]
  /\ start \in [Readers -> PubNumber]
  /\ got \in [Readers -> [Word -> PubNumber]]
  /\ last_seq \in [Readers -> 0..(SeqModulus - 1)]
  /\ view \in [Readers -> Views]
  /\ restarts \in 0..MaxRestarts

\* What publish keeps of its counter: it has stored it once per publication
\* begun and once per publication committed, and no word on the page or in a
\* worker's hands is newer than the publications begun.
CounterInv ==
  /\ Len(sizes) = committed + Bit(publishing)
  /\ publishing => committed < MaxPublish
  /\ odd => publishing
  /\ seq = (2 * committed + Bit(odd)) % SeqModulus
  /\ \A w \in Word : mem[w] <= Len(sizes)
  /\ \A r \in Readers : \A w \in Word : got[r][w] <= Len(sizes)

Typed == PageTypes /\ ReaderTypes /\ CounterInv

\* The words of the page: those of the publication in force unless the counter
\* is odd, and those of the one under way as far as they have been stored.
PageInv ==
  /\ publishing => \A w \in Written(sizes[committed + 1]) :
                     w \in unstored \/ mem[w] = committed + 1
  /\ ~odd => \A w \in Written(SizeOf(committed)) : mem[w] = committed

\* A read pass that no publish has disturbed holds words of the publication in
\* force, and too few publications overlap it for the counter to wrap.
PassInv(r) ==
  /\ start[r] \in 1..committed
  /\ committed + Bit(publishing) - start[r] <= MaxLag
  /\ first[r] = (2 * start[r]) % SeqModulus
  /\ start[r] = committed /\ ~odd =>
       \A w \in Written(SizeOf(committed)) : w \in unread[r] \/ got[r][w] = committed

ReaderInv == \A r \in Readers : reading[r] => PassInv(r)
-----------------------------------------------------------------------------
(* The words. *)

\* publish stores every word read_if_changed puts into its result, the count
\* first of all.
LEMMA WordFacts ==
  ASSUME NEW n \in 0..MaxAddrs
  PROVE  /\ Written(n) \subseteq Word
         /\ Count \in Written(n)
         /\ OutputWords(n) \subseteq Written(n)
  BY ResolvePageAssumption, SeqlockAssumption DEF Written, Word, Count, OutputWords, Slot

\* A worker's set of addresses, before and after its first read.
LEMMA ViewFacts ==
  /\ NoView \in Views
  /\ \A n \in 0..MaxAddrs : \A v \in [OutputWords(n) -> PubNumber] : v \in Views
  BY Zenon DEF Views

\* SizeOf is a size.
LEMMA SizeFacts ==
  ASSUME PageTypes, NEW k \in 0..Len(sizes)
  PROVE  SizeOf(k) \in 0..MaxAddrs
  BY ResolvePageAssumption DEF PageTypes, SizeOf, Slot
-----------------------------------------------------------------------------
(* Types and the counter. *)

USE DEF Bit

\* ResolveWriter::create and map_readonly establish the invariant.
LEMMA InitTyped == ASSUME Init PROVE Typed
<1> USE ResolvePageAssumption, SeqlockAssumption
<1>1. SeqModulus \in Nat \ {0} /\ 0 % SeqModulus = 0
  BY DEF SeqModulus
<1>2. PageTypes
  <2>1. mem \in [Word -> PubNumber] /\ committed \in PubNumber
    BY DEF Init, PubNumber
  <2>2. seq \in 0..(SeqModulus - 1) /\ sizes \in Seq(Slot) /\ unstored \subseteq Word
    BY <1>1 DEF Init
  <2>3. publishing \in BOOLEAN /\ odd \in BOOLEAN
    BY Zenon DEF Init
  <2> QED BY <2>1, <2>2, <2>3, Zenon DEF PageTypes
<1>3. ReaderTypes
  <2>1. /\ got \in [Readers -> [Word -> PubNumber]]
        /\ start \in [Readers -> PubNumber]
        /\ reading \in [Readers -> BOOLEAN]
    BY DEF Init, PubNumber
  <2>2. /\ first \in [Readers -> 0..(SeqModulus - 1)]
        /\ last_seq \in [Readers -> 0..(SeqModulus - 1)]
    BY <1>1 DEF Init
  <2>3. /\ unread \in [Readers -> SUBSET Word]
        /\ view \in [Readers -> Views]
        /\ restarts \in 0..MaxRestarts
    BY ViewFacts DEF Init
  <2> QED BY <2>1, <2>2, <2>3, Zenon DEF ReaderTypes
<1>4. CounterInv
  BY <1>1 DEF Init, CounterInv
<1> QED BY <1>2, <1>3, <1>4, Zenon DEF Typed

\* Every step of publish, of a read pass and of a restart keeps it.
LEMMA NextTyped == ASSUME Typed, [Next]_vars PROVE Typed'
<1> USE ResolvePageAssumption
<1>m. SeqModulus \in Nat \ {0}
  BY SeqlockAssumption DEF SeqModulus
<1>t. PageTypes /\ ReaderTypes /\ CounterInv /\ committed \in Nat
  BY DEF Typed, PageTypes, PubNumber
<1>r. ASSUME UNCHANGED readerVars PROVE ReaderTypes' /\ got' = got
  BY <1>r, <1>t, Zenon DEF readerVars, ReaderTypes
<1>w. ASSUME UNCHANGED writerVars PROVE PageTypes'
  BY <1>w, <1>t, Zenon DEF writerVars, PageTypes
<1>1. ASSUME NEW n \in Slot, BeginPublish(n) PROVE Typed'
  <2>1. Written(n) \subseteq Word
    BY WordFacts DEF Slot
  <2>2. sizes' \in Seq(Slot) /\ Len(sizes') = Len(sizes) + 1 /\ Len(sizes) \in Nat
    BY <1>1, <1>t DEF BeginPublish, PageTypes
  <2>3. PageTypes'
    BY <1>1, <1>t, <2>1, <2>2, Zenon DEF BeginPublish, PageTypes
  <2>4. /\ \A w \in Word : mem'[w] = mem[w] /\ mem[w] \in Nat
        /\ \A r \in Readers : \A w \in Word : got'[r][w] = got[r][w] /\ got[r][w] \in Nat
    BY <1>1, <1>t DEF BeginPublish, readerVars, PageTypes, ReaderTypes, PubNumber
  <2>5. CounterInv'
    BY <1>1, <1>t, <2>2, <2>4 DEF BeginPublish, CounterInv
  <2> QED BY <1>1, <1>r, <2>3, <2>5, Zenon DEF BeginPublish, Typed
<1>2. CASE StoreOdd
  <2>1. seq' = (2 * committed + 1) % SeqModulus
    <3>1. seq = (2 * committed) % SeqModulus /\ 2 * committed \in Nat
      BY <1>2, <1>t DEF StoreOdd, CounterInv
    <3> QED BY <1>2, <3>1, <1>m, ModSucc, Zenon DEF StoreOdd
  <2>2. seq' \in 0..(SeqModulus - 1)
    BY <1>m, <1>t, <2>1, DivMod
  <2>3. PageTypes'
    BY <1>2, <1>t, <2>2, Zenon DEF StoreOdd, PageTypes
  <2>4. CounterInv'
    BY <1>2, <1>t, <1>r, <2>1, Zenon DEF StoreOdd, CounterInv
  <2> QED BY <1>2, <1>r, <2>3, <2>4, Zenon DEF StoreOdd, Typed
<1>3. ASSUME NEW w \in Word, StoreWord(w) PROVE Typed'
  <2>1. committed + 1 \in PubNumber /\ Len(sizes) = committed + 1
    BY <1>3, <1>t DEF StoreWord, CounterInv, PubNumber
  <2>2. PageTypes'
    BY <1>3, <1>t, <2>1, Zenon DEF StoreWord, PageTypes
  <2>3. \A x \in Word : mem'[x] = IF x = w THEN committed + 1 ELSE mem[x]
    BY <1>3, <1>t, Zenon DEF StoreWord, PageTypes
  <2>4. CounterInv'
    BY <1>3, <1>t, <1>r, <2>1, <2>3 DEF StoreWord, CounterInv
  <2> QED BY <1>3, <1>r, <2>2, <2>4, Zenon DEF StoreWord, Typed
<1>4. CASE Commit
  <2>1. seq' = (2 * (committed + 1)) % SeqModulus
    <3>1. seq = (2 * committed + 1) % SeqModulus /\ 2 * committed + 1 \in Nat
      BY <1>4, <1>t DEF Commit, CounterInv
    <3>2. seq' = ((2 * committed + 1) + 1) % SeqModulus
      BY <1>4, <3>1, <1>m, ModSucc, Zenon DEF Commit
    <3>3. (2 * committed + 1) + 1 = 2 * (committed + 1)
      BY <1>t
    <3> QED BY <3>2, <3>3, Zenon
  <2>2. seq' \in 0..(SeqModulus - 1)
    BY <1>m, <1>t, <2>1, DivMod
  <2>3. committed + 1 \in PubNumber
    BY <1>4, <1>t DEF Commit, CounterInv, PubNumber
  <2>4. PageTypes'
    BY <1>4, <1>t, <2>2, <2>3, Zenon DEF Commit, PageTypes
  <2>5. CounterInv'
    BY <1>4, <1>t, <1>r, <2>1 DEF Commit, CounterInv
  <2> QED BY <1>4, <1>r, <2>4, <2>5, Zenon DEF Commit, Typed
<1>5. ASSUME NEW r \in Readers, ReadFirst(r) PROVE Typed'
  <2>1. ReaderTypes'
    BY <1>5, <1>t, Zenon DEF ReadFirst, PageTypes, ReaderTypes
  <2>2. CounterInv'
    BY <1>5, <1>t, Zenon DEF ReadFirst, CounterInv, writerVars
  <2> QED BY <1>5, <1>w, <2>1, <2>2, Zenon DEF ReadFirst, Typed
<1>6. ASSUME NEW r \in Readers, NEW w \in Word, ReadWord(r, w) PROVE Typed'
  <2>1. ReaderTypes'
    BY <1>6, <1>t, Zenon DEF ReadWord, PageTypes, ReaderTypes
  <2>2. \A q \in Readers : \A x \in Word :
          got'[q][x] = IF q = r /\ x = w THEN mem[w] ELSE got[q][x]
    BY <1>6, <1>t, Zenon DEF ReadWord, ReaderTypes
  <2>3. CounterInv'
    BY <1>6, <1>t, <2>2 DEF ReadWord, CounterInv, writerVars
  <2> QED BY <1>6, <1>w, <2>1, <2>3, Zenon DEF ReadWord, Typed
<1>f. ASSUME NEW r \in Readers, Forget(r), UNCHANGED writerVars
      PROVE  /\ reading' \in [Readers -> BOOLEAN]
             /\ first' \in [Readers -> 0..(SeqModulus - 1)]
             /\ start' \in [Readers -> PubNumber]
             /\ got' \in [Readers -> [Word -> PubNumber]]
             /\ CounterInv'
  <2>1. 0 \in 0..(SeqModulus - 1) /\ 0 \in PubNumber
    BY <1>m DEF PubNumber
  <2>2. [w \in Word |-> 0] \in [Word -> PubNumber]
    BY <2>1, Zenon
  <2>3. \A q \in Readers : \A x \in Word : got'[q][x] = IF q = r THEN 0 ELSE got[q][x]
    BY <1>f, <1>t, Zenon DEF Forget, ReaderTypes
  <2>4. CounterInv'
    BY <1>f, <1>t, <2>3 DEF CounterInv, writerVars
  <2> QED BY <1>f, <1>t, <2>1, <2>2, <2>4, Zenon DEF Forget, ReaderTypes
<1>7. ASSUME NEW r \in Readers, ReadSecond(r) PROVE Typed'
  <2>1. Assembled(r) \in Views
    <3> DEFINE n == SizeOf(got[r][Count])
    <3>1. Count \in Word
      BY Zenon DEF Count, Word
    <3>2. got[r][Count] \in 0..Len(sizes)
      BY <3>1, <1>t DEF CounterInv, ReaderTypes, PubNumber
    <3>3. n \in 0..MaxAddrs
      BY <3>2, <1>t, SizeFacts, Zenon
    <3>4. OutputWords(n) \subseteq Word
      BY <3>3, WordFacts, Zenon
    <3>5. Assembled(r) \in [OutputWords(n) -> PubNumber]
      BY <3>4, <1>t DEF Assembled, ReaderTypes
    <3> QED BY <3>3, <3>5, ViewFacts, Zenon
  <2>2. view' \in [Readers -> Views] /\ last_seq' \in [Readers -> 0..(SeqModulus - 1)]
    <3>1. \/ UNCHANGED <<last_seq, view>>
          \/ /\ last_seq' = [last_seq EXCEPT ![r] = first[r]]
             /\ view' = [view EXCEPT ![r] = Assembled(r)]
      BY <1>7, Zenon DEF ReadSecond
    <3> QED BY <3>1, <1>t, <2>1, Zenon DEF ReaderTypes
  <2>3. Forget(r) /\ UNCHANGED <<unread, restarts, writerVars>>
    BY <1>7, Zenon DEF ReadSecond
  <2>4. ReaderTypes'
    BY <1>f, <1>t, <2>2, <2>3, Zenon DEF ReaderTypes
  <2> QED BY <1>f, <1>w, <2>3, <2>4, Zenon DEF Typed
<1>8. ASSUME NEW r \in Readers, Restart(r) PROVE Typed'
  <2>1. view' \in [Readers -> Views]
    BY <1>8, <1>t, ViewFacts, Zenon DEF Restart, ReaderTypes
  <2>2. /\ unread' \in [Readers -> SUBSET Word]
        /\ last_seq' \in [Readers -> 0..(SeqModulus - 1)]
        /\ restarts' \in 0..MaxRestarts
    BY <1>8, <1>m, <1>t DEF Restart, ReaderTypes
  <2>3. Forget(r) /\ UNCHANGED writerVars
    BY <1>8, Zenon DEF Restart
  <2>4. ReaderTypes'
    BY <1>f, <2>1, <2>2, <2>3, Zenon DEF ReaderTypes
  <2> QED BY <1>f, <1>w, <2>3, <2>4, Zenon DEF Typed
<1>9. CASE UNCHANGED vars
  <2>1. UNCHANGED readerVars /\ UNCHANGED writerVars
    BY <1>9, Zenon DEF vars
  <2>2. CounterInv'
    BY <1>t, <2>1, Zenon DEF readerVars, writerVars, CounterInv
  <2> QED BY <1>r, <1>w, <2>1, <2>2, Zenon DEF Typed
<1> QED
  BY <1>1, <1>2, <1>3, <1>4, <1>5, <1>6, <1>7, <1>8, <1>9, Zenon
  DEF Next, Supervisor, ReadPass

\* Every variable of the protocol stays in its range, the wrapping counter
\* in its width.
THEOREM TypeCorrect == Spec => []TypeOK
<1>1. Init => Typed
  BY InitTyped, Zenon
<1>2. Typed /\ [Next]_vars => Typed'
  BY NextTyped, Zenon
<1>3. Typed => TypeOK
  BY Zenon DEF Typed, PageTypes, ReaderTypes, TypeOK
<1> QED BY <1>1, <1>2, <1>3, PTL DEF Spec
-----------------------------------------------------------------------------
(* Whole reads, on a target that keeps the page's stores behind the odd
   counter. *)

IInv == Typed /\ PageInv /\ ReaderInv /\ NoTornView

\* Both loads of the counter agree only if no publish stored it in between:
\* the read pass is undisturbed.
LEMMA EqualLoads ==
  ASSUME Typed, ReaderInv, NEW r \in Readers, reading[r], seq = first[r]
  PROVE  start[r] = committed /\ ~odd
<1> USE ResolvePageAssumption, SeqlockAssumption
<1> DEFINE n == 2 * start[r]
           m == 2 * committed + Bit(odd)
<1>1. start[r] \in Nat /\ committed \in Nat /\ SeqModulus \in Nat \ {0}
  BY DEF Typed, PageTypes, ReaderTypes, PubNumber, SeqModulus
<1>2. n \in Nat /\ m \in Nat /\ n <= m /\ m - n < SeqModulus
  <2>1. start[r] <= committed /\ committed + Bit(publishing) - start[r] <= MaxLag
    BY <1>1 DEF ReaderInv, PassInv
  <2>2. committed - start[r] <= MaxLag
    BY <1>1, <2>1
  <2> QED BY <1>1, <2>1, <2>2 DEF SeqModulus
<1>3. n % SeqModulus = m % SeqModulus
  BY Zenon DEF Typed, CounterInv, ReaderInv, PassInv
<1>4. n = m
  <2> HIDE DEF n, m
  <2> QED BY <1>1, <1>2, <1>3, ModInjective, Zenon
<1> QED BY <1>1, <1>4

\* An even counter means that no publish is between its two counter stores.
LEMMA EvenCounter ==
  ASSUME Typed, seq % 2 = 0
  PROVE  ~odd /\ seq = (2 * committed) % SeqModulus
<1> USE ResolvePageAssumption, SeqlockAssumption
<1>1. CASE odd
  <2>1. seq = (2 * committed + 1) % (2 * HalfModulus)
    BY <1>1, Zenon DEF Typed, CounterInv, SeqModulus
  <2>2. committed \in Nat
    BY DEF Typed, PageTypes, PubNumber
  <2>3. seq % 2 = 1
    BY <2>1, <2>2, ModParity, Zenon
  <2> QED BY <2>3
<1>2. CASE ~odd
  BY <1>2 DEF Typed, CounterInv, PageTypes, PubNumber
<1> QED BY <1>1, <1>2, Zenon

\* The result of an undisturbed pass is the publication in force.
LEMMA WholeRead ==
  ASSUME Typed, ReaderInv, NEW r \in Readers, reading[r], unread[r] = {}, seq = first[r]
  PROVE  /\ committed \in 1..Len(sizes)
         /\ Assembled(r) = Snapshot(SizeOf(committed), committed)
<1> USE ResolvePageAssumption, SeqlockAssumption
<1> DEFINE n == SizeOf(committed)
<1>1. start[r] = committed /\ ~odd
  BY EqualLoads, Zenon
<1>2. committed \in 1..Len(sizes)
  BY <1>1 DEF ReaderInv, PassInv, Typed, CounterInv, PageTypes, PubNumber
<1>3. n \in 0..MaxAddrs
  BY <1>2, SizeFacts DEF Typed
<1>4. \A w \in Written(n) : got[r][w] = committed
  BY <1>1, Zenon DEF ReaderInv, PassInv
<1>5. got[r][Count] = committed
  BY <1>3, <1>4, WordFacts, Zenon
<1>6. \A w \in OutputWords(n) : got[r][w] = committed
  BY <1>3, <1>4, WordFacts, Zenon
<1>7. Assembled(r) = [w \in OutputWords(n) |-> got[r][w]]
  BY <1>5, Zenon DEF Assembled
<1> HIDE DEF n
<1> QED BY <1>2, <1>6, <1>7, Zenon DEF Snapshot, n

\* A publication keeps its size when the next one begins.
LEMMA SizesKept ==
  ASSUME Typed, NEW n \in Slot, BeginPublish(n)
  PROVE  /\ sizes'[committed + 1] = n
         /\ \A k \in 1..committed : sizes'[k] = sizes[k]
         /\ SizeOf(committed)' = SizeOf(committed)
<1>1. /\ sizes \in Seq(Slot) /\ Len(sizes) = committed /\ committed \in Nat
      /\ sizes' = Append(sizes, n) /\ committed' = committed
  BY DEF Typed, PageTypes, CounterInv, BeginPublish, PubNumber
<1>2. sizes'[committed + 1] = n /\ \A k \in 1..committed : sizes'[k] = sizes[k]
  BY <1>1
<1> QED BY <1>1, <1>2 DEF SizeOf

\* publish and the read pass keep the page and the reader's words together.
LEMMA NextPage ==
  ASSUME StoresInOrder, IInv, [Next]_vars
  PROVE  PageInv' /\ ReaderInv'
<1> USE ResolvePageAssumption, SeqlockAssumption
<1>t. Typed /\ PageInv /\ ReaderInv /\ Typed'
  BY NextTyped, Zenon DEF IInv
<1>c. committed \in Nat /\ MaxLag \in Nat /\ start \in [Readers -> Nat]
  BY <1>t DEF Typed, PageTypes, ReaderTypes, PubNumber
<1>v. /\ unread \in [Readers -> SUBSET Word]
      /\ reading \in [Readers -> BOOLEAN]
      /\ first \in [Readers -> 0..(SeqModulus - 1)]
      /\ start \in [Readers -> PubNumber]
      /\ got \in [Readers -> [Word -> PubNumber]]
  BY <1>t, Zenon DEF Typed, ReaderTypes
<1>o. ASSUME NEW q \in Readers, reading[q], UNCHANGED writerVars,
             start'[q] = start[q], first'[q] = first[q],
             unread'[q] = unread[q], got'[q] = got[q]
      PROVE  PassInv(q)'
  BY <1>o, <1>t, Zenon DEF ReaderInv, PassInv, writerVars, SizeOf
<1>p. ASSUME UNCHANGED writerVars PROVE PageInv'
  <2>1. UNCHANGED <<publishing, sizes, committed, unstored, mem, odd>>
    BY <1>p, Zenon DEF writerVars
  <2>2. SizeOf(committed)' = SizeOf(committed)
    BY <2>1, Zenon DEF SizeOf
  <2> QED BY <2>1, <2>2, <1>t, Zenon DEF PageInv
<1>1. ASSUME NEW n \in Slot, BeginPublish(n) PROVE PageInv' /\ ReaderInv'
  <2>1. PageInv'
    BY <1>1, <1>t, SizesKept, Zenon DEF PageInv, BeginPublish
  <2>2. ASSUME NEW q \in Readers, reading'[q] PROVE PassInv(q)'
    <3>1. reading[q] /\ UNCHANGED <<odd, committed, readerVars>>
      BY <1>1, <2>2, Zenon DEF BeginPublish, readerVars
    <3>2. PassInv(q)
      BY <3>1, <1>t, Zenon DEF ReaderInv
    <3>3. committed + 1 - start[q] <= MaxLag
      BY <3>1, <1>1, <1>c DEF BeginPublish
    <3>4. SizeOf(committed)' = SizeOf(committed)
      BY <1>1, <1>t, SizesKept, Zenon
    <3> QED BY <3>1, <3>2, <3>3, <3>4, <1>1 DEF PassInv, readerVars, BeginPublish
  <2> QED BY <2>1, <2>2, Zenon DEF ReaderInv
<1>2. CASE StoreOdd
  BY <1>2, <1>t, Zenon DEF StoreOdd, PageInv, ReaderInv, PassInv, readerVars
<1>3. ASSUME NEW w \in Word, StoreWord(w) PROVE PageInv' /\ ReaderInv'
  <2>1. sizes[committed + 1] \in 0..MaxAddrs
    BY <1>3, <1>t, <1>c DEF StoreWord, Typed, PageTypes, CounterInv, Slot
  <2>2. Written(sizes[committed + 1]) \subseteq Word
    BY <2>1, WordFacts, Zenon
  <2>3. PageInv'
    BY <1>3, <1>t, <2>2, Zenon DEF StoreWord, PageInv, Typed, PageTypes
  <2>4. ReaderInv'
    BY <1>3, <1>t, Zenon DEF StoreWord, ReaderInv, PassInv, readerVars
  <2> QED BY <2>3, <2>4, Zenon
<1>4. CASE Commit
  <2>1. SizeOf(committed)' = sizes[committed + 1]
    BY <1>4, <1>c DEF Commit, SizeOf
  <2>2. PageInv'
    BY <1>4, <1>t, <2>1, Zenon DEF Commit, PageInv
  <2>3. ASSUME NEW q \in Readers, reading'[q] PROVE PassInv(q)'
    <3>1. reading[q] /\ start'[q] = start[q] /\ first'[q] = first[q]
      BY <1>4, <2>3, Zenon DEF Commit, readerVars
    <3>2. PassInv(q)
      BY <3>1, <1>t, Zenon DEF ReaderInv
    <3>3. publishing /\ ~publishing' /\ committed' = committed + 1
      BY <1>4, Zenon DEF Commit
    <3>4. start[q] \in 1..committed /\ committed + 1 - start[q] <= MaxLag
      BY <3>2, <3>3, Zenon DEF PassInv
    <3>5. /\ start'[q] \in 1..committed' /\ start'[q] # committed'
          /\ committed' + Bit(publishing') - start'[q] <= MaxLag
      BY <3>1, <3>3, <3>4, <1>c
    <3>6. first'[q] = (2 * start'[q]) % SeqModulus
      BY <3>1, <3>2, Zenon DEF PassInv
    <3> QED BY <3>5, <3>6, Zenon DEF PassInv
  <2> QED BY <2>2, <2>3, Zenon DEF ReaderInv
<1>5. ASSUME NEW r \in Readers, ReadFirst(r) PROVE PageInv' /\ ReaderInv'
  <2>1. ~odd /\ seq = (2 * committed) % SeqModulus
    BY <1>5, <1>t, EvenCounter, Zenon DEF ReadFirst
  <2>2. SizeOf(committed) \in 0..MaxAddrs
    BY <1>t, <1>c, SizeFacts DEF Typed, CounterInv
  <2>3. Written(SizeOf(committed)) \subseteq Word
    BY <2>2, WordFacts, Zenon
  <2>4. ASSUME NEW q \in Readers, reading'[q] PROVE PassInv(q)'
    <3>1. CASE q = r
      <4>1. /\ start'[q] = committed /\ first'[q] = seq /\ unread'[q] = Word
            /\ UNCHANGED <<committed, publishing, odd, sizes>> /\ committed > 0
        BY <1>5, <3>1, <1>v, Zenon DEF ReadFirst, writerVars
      <4>2. /\ start'[q] \in 1..committed'
            /\ committed' + Bit(publishing') - start'[q] <= MaxLag
        BY <4>1, <1>c
      <4>3. Written(SizeOf(committed))' \subseteq Word
        BY <4>1, <2>3, Zenon DEF SizeOf
      <4>4. first'[q] = (2 * start'[q]) % SeqModulus
        BY <4>1, <2>1, Zenon
      <4> QED BY <4>1, <4>2, <4>3, <4>4, Zenon DEF PassInv
    <3>2. CASE q # r
      <4>1. /\ reading[q] /\ UNCHANGED writerVars
            /\ start'[q] = start[q] /\ first'[q] = first[q]
            /\ unread'[q] = unread[q] /\ got'[q] = got[q]
        BY <1>5, <2>4, <3>2, <1>v, Zenon DEF ReadFirst
      <4> QED BY <4>1, <1>o, Zenon
    <3> QED BY <3>1, <3>2, Zenon
  <2>5. PageInv'
    BY <1>5, <1>p, Zenon DEF ReadFirst
  <2> QED BY <2>4, <2>5, Zenon DEF ReaderInv
<1>6. ASSUME NEW r \in Readers, NEW w \in Word, ReadWord(r, w) PROVE PageInv' /\ ReaderInv'
  <2>1. PageInv'
    BY <1>6, <1>p, Zenon DEF ReadWord
  <2>2. ASSUME NEW q \in Readers, reading'[q] PROVE PassInv(q)'
    <3>1. reading[q] /\ UNCHANGED <<start, first, writerVars>>
      BY <1>6, <2>2, Zenon DEF ReadWord
    <3>2. CASE q = r
      <4>1. unread'[q] = unread[q] \ {w} /\ got'[q] = [got[q] EXCEPT ![w] = mem[w]]
        BY <1>6, <3>2, <1>v, Zenon DEF ReadWord
      <4>2. got[q] \in [Word -> PubNumber]
        BY <1>v, Zenon
      <4>3. PassInv(q)
        BY <3>1, <1>t, Zenon DEF ReaderInv
      <4>4. ASSUME start[q] = committed, ~odd, NEW x \in Written(SizeOf(committed))
            PROVE  x \in unread'[q] \/ got'[q][x] = committed
        <5>1. mem[x] = committed
          BY <4>4, <1>t, Zenon DEF PageInv
        <5>2. x \in unread[q] \/ got[q][x] = committed
          BY <4>3, <4>4, Zenon DEF PassInv
        <5> QED BY <4>1, <4>2, <5>1, <5>2
      <4>5. SizeOf(committed)' = SizeOf(committed)
        BY <3>1, Zenon DEF SizeOf, writerVars
      <4> QED BY <3>1, <4>3, <4>4, <4>5, Zenon DEF PassInv, writerVars
    <3>3. CASE q # r
      <4>1. unread'[q] = unread[q] /\ got'[q] = got[q]
        BY <1>6, <3>3, <1>v, Zenon DEF ReadWord
      <4> QED BY <3>1, <4>1, <1>o, Zenon
    <3> QED BY <3>2, <3>3, Zenon
  <2> QED BY <2>1, <2>2, Zenon DEF ReaderInv
<1>7. ASSUME NEW r \in Readers, ReadSecond(r) \/ Restart(r) PROVE PageInv' /\ ReaderInv'
  <2>0. /\ Forget(r) /\ UNCHANGED writerVars
        /\ unread' = unread \/ unread' = [unread EXCEPT ![r] = {}]
    BY <1>7, Zenon DEF ReadSecond, Restart
  <2>1. PageInv'
    BY <2>0, <1>p, Zenon
  <2>2. ASSUME NEW q \in Readers, reading'[q] PROVE PassInv(q)'
    <3>1. q # r
      BY <2>0, <2>2, <1>v, Zenon DEF Forget
    <3>2. /\ reading[q] /\ UNCHANGED writerVars
          /\ start'[q] = start[q] /\ first'[q] = first[q]
          /\ unread'[q] = unread[q] /\ got'[q] = got[q]
      BY <2>0, <2>2, <3>1, <1>v, Zenon DEF Forget
    <3> QED BY <3>2, <1>o, Zenon
  <2> QED BY <2>1, <2>2, Zenon DEF ReaderInv
<1>8. CASE UNCHANGED vars
  <2>1. UNCHANGED <<writerVars, readerVars>>
    BY <1>8, Zenon DEF vars
  <2>2. ASSUME NEW q \in Readers, reading'[q] PROVE PassInv(q)'
    BY <2>1, <2>2, <1>o, Zenon DEF readerVars
  <2> QED BY <2>1, <2>2, <1>p, Zenon DEF ReaderInv
<1> QED
  BY <1>1, <1>2, <1>3, <1>4, <1>5, <1>6, <1>7, <1>8, Zenon
  DEF Next, Supervisor, ReadPass

\* A view that was whole stays the snapshot of a committed publication.
LEMMA NextWhole ==
  ASSUME IInv, [Next]_vars
  PROVE  NoTornView'
<1> USE ResolvePageAssumption, SeqlockAssumption
<1>t. Typed /\ ReaderInv /\ NoTornView /\ Typed'
  BY NextTyped, Zenon DEF IInv
<1>c. committed \in Nat
  BY <1>t DEF Typed, PageTypes, PubNumber
<1>1. ASSUME NEW n \in Slot, BeginPublish(n) PROVE NoTornView'
  BY <1>1, <1>t, SizesKept, Zenon DEF BeginPublish, NoTornView, readerVars
<1>2. CASE StoreOdd
  BY <1>2, <1>t, Zenon DEF StoreOdd, NoTornView, readerVars
<1>3. ASSUME NEW w \in Word, StoreWord(w) PROVE NoTornView'
  BY <1>3, <1>t, Zenon DEF StoreWord, NoTornView, readerVars
<1>4. CASE Commit
  BY <1>4, <1>t, <1>c DEF Commit, NoTornView, readerVars
<1>5. ASSUME NEW r \in Readers, ReadFirst(r) PROVE NoTornView'
  BY <1>5, <1>t, Zenon DEF ReadFirst, NoTornView, writerVars
<1>6. ASSUME NEW r \in Readers, NEW w \in Word, ReadWord(r, w) PROVE NoTornView'
  BY <1>6, <1>t, Zenon DEF ReadWord, NoTornView, writerVars
<1>7. ASSUME NEW r \in Readers, ReadSecond(r) PROVE NoTornView'
  <2>1. CASE seq = first[r]
    <3>1. /\ committed \in 1..Len(sizes)
          /\ Assembled(r) = Snapshot(SizeOf(committed), committed)
      BY <1>7, <1>t, <2>1, WholeRead, Zenon DEF ReadSecond
    <3>2. Assembled(r) = Snapshot(sizes[committed], committed)
      BY <3>1 DEF SizeOf
    <3>3. view' = [view EXCEPT ![r] = Assembled(r)] /\ view \in [Readers -> Views]
      BY <1>7, <1>t, <2>1, Zenon DEF ReadSecond, Typed, ReaderTypes
    <3> QED BY <1>7, <1>t, <1>c, <3>1, <3>2, <3>3 DEF ReadSecond, NoTornView, writerVars
  <2>2. CASE seq # first[r]
    BY <1>7, <1>t, <2>2, Zenon DEF ReadSecond, NoTornView, writerVars
  <2> QED BY <2>1, <2>2, Zenon
<1>8. ASSUME NEW r \in Readers, Restart(r) PROVE NoTornView'
  BY <1>8, <1>t, Zenon DEF Restart, NoTornView, writerVars, Typed, ReaderTypes
<1>9. CASE UNCHANGED vars
  BY <1>9, <1>t, Zenon DEF vars, readerVars, writerVars, NoTornView
<1> QED
  BY <1>1, <1>2, <1>3, <1>4, <1>5, <1>6, <1>7, <1>8, <1>9, Zenon
  DEF Next, Supervisor, ReadPass

\* The zeroed page is the publication 0 that nobody has read.
LEMMA InitWhole == Init => IInv
<1> SUFFICES ASSUME Init PROVE IInv
  BY Zenon
<1>1. Typed
  BY InitTyped, Zenon
<1>2. Written(SizeOf(committed)) \subseteq Word
  BY ResolvePageAssumption, SeqlockAssumption, WordFacts DEF Init, SizeOf
<1>3. PageInv
  BY <1>2, Zenon DEF Init, PageInv
<1>4. ReaderInv /\ NoTornView
  BY Zenon DEF Init, ReaderInv, NoTornView
<1> QED BY <1>1, <1>3, <1>4, Zenon DEF IInv

\* The inductive invariant.
LEMMA Inductive == ASSUME StoresInOrder PROVE Spec => []IInv
<1>1. Init => IInv
  BY InitWhole, Zenon
<1>2. IInv /\ [Next]_vars => IInv'
  <2> SUFFICES ASSUME IInv, [Next]_vars PROVE IInv'
    BY Zenon
  <2>1. Typed'
    BY NextTyped, Zenon DEF IInv
  <2> QED BY <2>1, NextPage, NextWhole, Zenon DEF IInv
<1> QED BY <1>1, <1>2, PTL DEF Spec

\* read_if_changed never hands out a torn set, for any fleet, any number of
\* publications and restarts and any counter width, as long as the target
\* keeps the page's stores behind the odd counter and a read pass does not
\* last for half a wrap of the counter.
THEOREM WholeViews == ASSUME StoresInOrder PROVE Spec => []NoTornView
<1>1. IInv => NoTornView
  BY Zenon DEF IInv
<1> QED BY <1>1, Inductive, PTL
-----------------------------------------------------------------------------
(* The page implements the register. *)

\* The publication in force is one value of the register.
LEMMA InForce ==
  ASSUME Typed
  PROVE  Snapshot(SizeOf(committed), committed)
           \in {Snapshot(n, k) : n \in 0..MaxAddrs, k \in PubNumber}
<1>1. committed \in PubNumber /\ committed \in 0..Len(sizes)
  BY ResolvePageAssumption, SeqlockAssumption DEF Typed, PageTypes, CounterInv, PubNumber
<1>2. SizeOf(committed) \in 0..MaxAddrs
  BY <1>1, SizeFacts, Zenon DEF Typed
<1> QED BY <1>1, <1>2

\* A step of the protocol is a step of the register or changes nothing of it.
LEMMA StepRefines ==
  ASSUME IInv, IInv', [Next]_vars
  PROVE  [Register!Next]_Register!vars
<1> USE ResolvePageAssumption, SeqlockAssumption DEF Register!vars
<1>t. Typed /\ ReaderInv /\ Typed'
  BY Zenon DEF IInv
<1>s. ASSUME UNCHANGED writerVars PROVE UNCHANGED Snapshot(SizeOf(committed), committed)
  BY <1>s, Zenon DEF writerVars, SizeOf
<1>1. ASSUME NEW n \in Slot, BeginPublish(n) PROVE UNCHANGED Register!vars
  BY <1>1, <1>t, SizesKept, Zenon DEF BeginPublish, readerVars
<1>2. CASE StoreOdd
  BY <1>2, Zenon DEF StoreOdd, readerVars, SizeOf
<1>3. ASSUME NEW w \in Word, StoreWord(w) PROVE UNCHANGED Register!vars
  BY <1>3, Zenon DEF StoreWord, readerVars, SizeOf
<1>4. CASE Commit
  <2>1. Snapshot(SizeOf(committed), committed)'
          \in {Snapshot(n, k) : n \in 0..MaxAddrs, k \in PubNumber}
    <3>1. committed' = committed + 1 /\ sizes' = sizes /\ committed' \in PubNumber
      BY <1>4, <1>t, Zenon DEF Commit, Typed, PageTypes
    <3>2. sizes[committed + 1] \in 0..MaxAddrs
      BY <1>4, <1>t DEF Commit, Typed, PageTypes, CounterInv, Slot, PubNumber
    <3>3. SizeOf(committed)' = sizes[committed + 1]
      BY <3>1, <1>t DEF SizeOf, Typed, PageTypes, PubNumber
    <3> QED BY <3>1, <3>2, <3>3 DEF Snapshot
  <2> QED BY <1>4, <2>1 DEF Commit, readerVars, Register!Next, Register!Publish
<1>5. ASSUME NEW r \in Readers, ReadFirst(r) PROVE UNCHANGED Register!vars
  BY <1>5, Zenon DEF ReadFirst, writerVars, SizeOf
<1>6. ASSUME NEW r \in Readers, NEW w \in Word, ReadWord(r, w)
      PROVE  UNCHANGED Register!vars
  BY <1>6, Zenon DEF ReadWord, writerVars, SizeOf
<1>7. ASSUME NEW r \in Readers, ReadSecond(r) PROVE [Register!Next]_Register!vars
  <2>0. UNCHANGED Snapshot(SizeOf(committed), committed)
    BY <1>7, <1>s, Zenon DEF ReadSecond
  <2>1. CASE seq = first[r]
    <3>1. Assembled(r) = Snapshot(SizeOf(committed), committed)
      BY <1>7, <1>t, <2>1, WholeRead, Zenon DEF ReadSecond
    <3>2. view' = [view EXCEPT ![r] = Snapshot(SizeOf(committed), committed)]
      BY <1>7, <2>1, <3>1, Zenon DEF ReadSecond
    <3> QED BY <2>0, <3>2, Zenon DEF Register!Next, Register!Adopt
  <2>2. CASE seq # first[r]
    BY <1>7, <2>0, <2>2, Zenon DEF ReadSecond
  <2> QED BY <2>1, <2>2, Zenon
<1>8. ASSUME NEW r \in Readers, Restart(r) PROVE Register!Next
  BY <1>8, Zenon DEF Restart, writerVars, SizeOf, Register!Next, Register!Restart
<1>9. CASE UNCHANGED vars
  BY <1>9, Zenon DEF vars, readerVars, writerVars, SizeOf
<1> QED
  BY <1>1, <1>2, <1>3, <1>4, <1>5, <1>6, <1>7, <1>8, <1>9, Zenon
  DEF Next, Supervisor, ReadPass

\* The seqlock implements an atomic register: a publish takes effect at its
\* last counter store, and a successful read_if_changed returns the set in
\* force at that moment, whole.
THEOREM ImplementsRegister == ASSUME StoresInOrder PROVE Spec => RegisterSpec
<1>1. Init => Register!Init
  <2> SUFFICES ASSUME Init PROVE Register!Init
    BY Zenon
  <2>1. Typed
    BY InitTyped, Zenon
  <2> QED BY <2>1, InForce DEF Init, Register!Init
<1>2. IInv /\ IInv' /\ [Next]_vars => [Register!Next]_Register!vars
  BY StepRefines, Zenon
<1> QED BY <1>1, <1>2, Inductive, PTL DEF Spec, RegisterSpec, Register!Spec
-----------------------------------------------------------------------------
(* The scores page. *)

Fits == NumWorkers <= MaxWorkers /\ ~CrashInWrite

\* The owner of a slot: its counter has been stored twice per completed write
\* and once more inside one, and the fields are those of the last write or,
\* inside one, of that write as far as stored.
WriterInv ==
  \A w \in Workers :
    /\ pc[w] # "idle" => writes[w] < MaxWrites
    /\ pc[w] # "idle" => old[w] = (2 * writes[w]) % SeqModulus
    /\ pc[w] # "storing" => sseq[w] = (2 * writes[w]) % SeqModulus
    /\ pc[w] = "storing" => sseq[w] = (2 * writes[w] + 1) % SeqModulus
    /\ pc[w] # "storing" /\ writes[w] > 0 => smem[w] = Sample(w, writes[w])
    /\ pc[w] = "storing" => \A f \in Field :
                              f \in wunstored[w] \/ smem[w][f] = <<w, writes[w] + 1>>

\* A slot nobody owns is never written.
UnownedInv == \A s \in Slots \ Workers : sseq[s] = 0

\* The supervisor reads an owned slot; an undisturbed read holds fields of the
\* owner's last write, and too few writes overlap it for the counter to wrap.
ReadInv ==
  rslot # NoSlot =>
    /\ rslot \in Workers
    /\ rstart \in 1..writes[rslot]
    /\ writes[rslot] + (IF pc[rslot] = "idle" THEN 0 ELSE 1) - rstart <= MaxLag
    /\ rfirst = (2 * rstart) % SeqModulus
    /\ rstart = writes[rslot] /\ pc[rslot] # "storing" =>
         \A f \in Field : f \in runread \/ rgot[f] = <<rslot, rstart>>

ScoresInv == ScoresTypeOK /\ WriterInv /\ UnownedInv /\ ReadInv
-----------------------------------------------------------------------------
\* idx.min(MAX_WORKERS - 1) gives every worker its own slot.
LEMMA OwnSlot ==
  ASSUME Fits, NEW w \in Workers
  PROVE  SlotOf(w) = w /\ w \in Slots /\ w # NoSlot
  BY ScorePageAssumption, SeqlockAssumption DEF Fits, SlotOf, Workers, Slots, NoSlot

\* Sizes of the constants.
LEMMA Numbers ==
  SeqModulus \in Nat \ {0} /\ MaxLag \in Nat /\ 2 * MaxLag + 1 < SeqModulus
  BY ScorePageAssumption, SeqlockAssumption DEF SeqModulus

\* Every variable stays in its range.
LEMMA ScoresTyped ==
  ASSUME Fits, ScoresTypeOK, WriterInv, [ScoresNext]_scoreVars
  PROVE  ScoresTypeOK'
<1> USE ScorePageAssumption, SeqlockAssumption, Numbers
<1>m. \A n \in Nat : n % SeqModulus \in 0..(SeqModulus - 1)
  BY DivMod, Zenon
<1>1. ASSUME NEW w \in Workers, LoadOld(w) PROVE ScoresTypeOK'
  BY <1>1, OwnSlot, Zenon DEF LoadOld, ScoresTypeOK, readVars
<1>2. ASSUME NEW w \in Workers, StoreSlotOdd(w) PROVE ScoresTypeOK'
  <2>1. (old[w] + 1) % SeqModulus \in 0..(SeqModulus - 1)
    BY <1>m DEF ScoresTypeOK
  <2> QED BY <1>2, <2>1, OwnSlot, Zenon DEF StoreSlotOdd, ScoresTypeOK, readVars
<1>3. ASSUME NEW w \in Workers, NEW f \in Field, StoreField(w, f) PROVE ScoresTypeOK'
  <2>0. writes[w] < MaxWrites
    BY <1>3, Zenon DEF StoreField, WriterInv
  <2>1. <<w, writes[w] + 1>> \in Tag
    BY <2>0 DEF ScoresTypeOK, Tag
  <2> QED BY <1>3, <2>1, OwnSlot, Zenon DEF StoreField, ScoresTypeOK, readVars
<1>4. ASSUME NEW w \in Workers, StoreSlotEven(w) PROVE ScoresTypeOK'
  <2>1. (old[w] + 2) % SeqModulus \in 0..(SeqModulus - 1)
    BY <1>m DEF ScoresTypeOK
  <2>2. writes[w] + 1 \in 0..MaxWrites
    BY <1>4 DEF StoreSlotEven, ScoresTypeOK, WriterInv
  <2> QED BY <1>4, <2>1, <2>2, OwnSlot, Zenon DEF StoreSlotEven, ScoresTypeOK, readVars
<1>5. ASSUME NEW w \in Workers, Crash(w) PROVE ScoresTypeOK'
  BY <1>5 DEF Crash, ScoresTypeOK, readVars
<1>6. ASSUME NEW s \in Slots, ReadSlotFirst(s) PROVE ScoresTypeOK'
  BY <1>6 DEF ReadSlotFirst, ScoresTypeOK, workerVars
<1>7. ASSUME NEW f \in Field, ReadField(f) PROVE ScoresTypeOK'
  BY <1>7 DEF ReadField, ScoresTypeOK, workerVars
<1>8. CASE ReadSlotSecond
  BY <1>8, Zenon DEF ReadSlotSecond, ScoresTypeOK, workerVars
<1>9. CASE UNCHANGED scoreVars
  BY <1>9, Zenon DEF scoreVars, workerVars, readVars, ScoresTypeOK
<1> QED BY <1>1, <1>2, <1>3, <1>4, <1>5, <1>6, <1>7, <1>8, <1>9, Zenon
        DEF ScoresNext, WriteStep, ReadStep

\* `write` keeps the counter and the fields of its slot together.
LEMMA WriterKept ==
  ASSUME Fits, ScoresTypeOK, WriterInv, UnownedInv, [ScoresNext]_scoreVars
  PROVE  WriterInv' /\ UnownedInv'
<1> USE Numbers
<1>0. writes \in [Workers -> Nat] /\ MaxWrites \in Nat
  BY ScorePageAssumption, SeqlockAssumption DEF ScoresTypeOK
<1>1. ASSUME NEW w \in Workers, LoadOld(w) PROVE WriterInv' /\ UnownedInv'
  <2>1. SlotOf(w) = w
    BY OwnSlot, Zenon
  <2> QED BY <1>1, <2>1, Zenon DEF LoadOld, ScoresTypeOK, WriterInv, UnownedInv
<1>2. ASSUME NEW w \in Workers, StoreSlotOdd(w) PROVE WriterInv' /\ UnownedInv'
  <2>1. SlotOf(w) = w /\ w \in Slots
    BY OwnSlot, Zenon
  <2>2. (old[w] + 1) % SeqModulus = (2 * writes[w] + 1) % SeqModulus
    <3>1. 2 * writes[w] \in Nat
      BY <1>0
    <3>2. old[w] = (2 * writes[w]) % SeqModulus
      BY <1>2, Zenon DEF StoreSlotOdd, WriterInv
    <3> QED BY <3>1, <3>2, ModSucc, Zenon
  <2>3. /\ pc[w] = "loaded" /\ pc' = [pc EXCEPT ![w] = "storing"]
        /\ sseq' = [sseq EXCEPT ![w] = (2 * writes[w] + 1) % SeqModulus]
        /\ wunstored' = [wunstored EXCEPT ![w] = Field]
        /\ UNCHANGED <<smem, old, writes>>
    BY <1>2, <2>1, <2>2, Zenon DEF StoreSlotOdd
  <2>4. UnownedInv'
    BY <2>1, <2>3, Zenon DEF UnownedInv, ScoresTypeOK
  <2>5. ASSUME NEW v \in Workers
        PROVE  /\ pc'[v] = (IF v = w THEN "storing" ELSE pc[v])
               /\ wunstored'[v] = (IF v = w THEN Field ELSE wunstored[v])
               /\ sseq'[v] = (IF v = w THEN (2 * writes[w] + 1) % SeqModulus ELSE sseq[v])
    BY <2>3, OwnSlot, Zenon DEF ScoresTypeOK
  <2>6. WriterInv'
    BY <2>3, <2>5 DEF WriterInv
  <2> QED BY <2>4, <2>6, Zenon
<1>3. ASSUME NEW w \in Workers, NEW f \in Field, StoreField(w, f)
      PROVE  WriterInv' /\ UnownedInv'
  <2>1. SlotOf(w) = w /\ w \in Slots
    BY OwnSlot, Zenon
  <2>2. /\ smem' = [smem EXCEPT ![w] = [smem[w] EXCEPT ![f] = <<w, writes[w] + 1>>]]
        /\ wunstored' = [wunstored EXCEPT ![w] = wunstored[w] \ {f}]
        /\ pc[w] = "storing"
    BY <1>3, <2>1, Zenon DEF StoreField
  <2>3. UNCHANGED <<sseq, pc, old, writes>>
    BY <1>3, Zenon DEF StoreField
  <2>4. UnownedInv'
    BY <2>3, Zenon DEF UnownedInv
  <2>5. ASSUME NEW v \in Workers \ {w} PROVE smem'[v] = smem[v] /\ wunstored'[v] = wunstored[v]
    BY <2>2, OwnSlot, Zenon DEF ScoresTypeOK
  <2>6. \A g \in Field : g \in wunstored'[w] \/ smem'[w][g] = <<w, writes[w] + 1>>
    BY <2>1, <2>2, Zenon DEF ScoresTypeOK, WriterInv
  <2>7. WriterInv'
    BY <2>2, <2>3, <2>5, <2>6 DEF WriterInv
  <2> QED BY <2>4, <2>7, Zenon
<1>4. ASSUME NEW w \in Workers, StoreSlotEven(w) PROVE WriterInv' /\ UnownedInv'
  <2>1. SlotOf(w) = w /\ w \in Slots
    BY OwnSlot, Zenon
  <2>2. (old[w] + 2) % SeqModulus = (2 * (writes[w] + 1)) % SeqModulus
    <3> DEFINE n == 2 * writes[w]
    <3>1. n \in Nat /\ n + 1 \in Nat /\ n + 2 = 2 * (writes[w] + 1)
      BY <1>0
    <3>2. old[w] = n % SeqModulus /\ old[w] \in Nat /\ old[w] + 1 \in Nat
      BY <1>4 DEF StoreSlotEven, WriterInv, ScoresTypeOK
    <3> HIDE DEF n
    <3>3. (old[w] + 1) % SeqModulus = (n + 1) % SeqModulus
      BY <3>1, <3>2, ModSucc, Zenon
    <3>4. (((old[w] + 1) % SeqModulus) + 1) % SeqModulus = ((n + 1) + 1) % SeqModulus
      BY <3>1, <3>3, ModSucc, Zenon
    <3>5. (((old[w] + 1) % SeqModulus) + 1) % SeqModulus = ((old[w] + 1) + 1) % SeqModulus
      BY <3>2, ModSucc, Zenon
    <3>6. (old[w] + 1) + 1 = old[w] + 2 /\ (n + 1) + 1 = n + 2
      BY <3>1, <3>2
    <3> QED BY <3>1, <3>4, <3>5, <3>6, Zenon
  <2>3. smem[w] = Sample(w, writes[w] + 1)
    <3>1. \A f \in Field : smem[w][f] = <<w, writes[w] + 1>>
      BY <1>4, Zenon DEF StoreSlotEven, WriterInv
    <3>2. smem[w] = [f \in Field |-> smem[w][f]]
      BY <2>1, Zenon DEF ScoresTypeOK
    <3> QED BY <3>1, <3>2, Zenon DEF Sample
  <2>4. /\ pc' = [pc EXCEPT ![w] = "idle"] /\ writes' = [writes EXCEPT ![w] = writes[w] + 1]
        /\ sseq' = [sseq EXCEPT ![w] = (2 * (writes[w] + 1)) % SeqModulus]
        /\ UNCHANGED <<smem, old, wunstored>>
    BY <1>4, <2>1, <2>2, Zenon DEF StoreSlotEven
  <2>5. UnownedInv'
    BY <2>1, <2>4, Zenon DEF UnownedInv, ScoresTypeOK
  <2>6. ASSUME NEW v \in Workers
        PROVE  /\ pc'[v] = (IF v = w THEN "idle" ELSE pc[v])
               /\ writes'[v] = (IF v = w THEN writes[w] + 1 ELSE writes[v])
               /\ sseq'[v] = (IF v = w THEN (2 * (writes[w] + 1)) % SeqModulus ELSE sseq[v])
    BY <2>4, OwnSlot, Zenon DEF ScoresTypeOK
  <2>7. WriterInv'
    BY <2>3, <2>4, <2>6 DEF WriterInv
  <2> QED BY <2>5, <2>7, Zenon
<1>5. ASSUME NEW w \in Workers, Crash(w) PROVE WriterInv' /\ UnownedInv'
  BY <1>5, Zenon DEF Crash, Fits, ScoresTypeOK, WriterInv, UnownedInv
<1>6. ASSUME UNCHANGED workerVars PROVE WriterInv' /\ UnownedInv'
  BY <1>6, Zenon DEF workerVars, WriterInv, UnownedInv
<1> QED BY <1>1, <1>2, <1>3, <1>4, <1>5, <1>6, Zenon
        DEF ScoresNext, WriteStep, ReadStep, ReadSlotFirst, ReadField, ReadSlotSecond, scoreVars

\* Both loads of the slot's counter agree only if its owner stored nothing in
\* between.
LEMMA EqualSlotLoads ==
  ASSUME Fits, ScoresInv, rslot # NoSlot, sseq[rslot] = rfirst
  PROVE  rstart = writes[rslot] /\ pc[rslot] # "storing"
<1> USE Numbers
<1> DEFINE bit == IF pc[rslot] = "storing" THEN 1 ELSE 0
           n == 2 * rstart
           m == 2 * writes[rslot] + bit
<1>1. rslot \in Workers /\ rstart \in Nat /\ writes[rslot] \in Nat
  BY DEF ScoresInv, ScoresTypeOK, ReadInv
<1>2. rstart <= writes[rslot] /\ writes[rslot] - rstart <= MaxLag
  BY <1>1 DEF ScoresInv, ReadInv
<1>3. n \in Nat /\ m \in Nat /\ n <= m /\ m - n < SeqModulus
  BY <1>1, <1>2
<1>4. n % SeqModulus = m % SeqModulus
  <2>1. rfirst = n % SeqModulus
    BY Zenon DEF ScoresInv, ReadInv
  <2>2. sseq[rslot] = m % SeqModulus
    BY <1>1 DEF ScoresInv, WriterInv
  <2> QED BY <2>1, <2>2, Zenon
<1>5. n = m
  <2> HIDE DEF n, m
  <2> QED BY <1>3, <1>4, ModInjective, Zenon
<1> QED BY <1>1, <1>5

\* An even counter that is not zero: the owner completed a write and is not
\* between its two counter stores.
LEMMA EvenSlot ==
  ASSUME Fits, ScoresInv, NEW s \in Slots, sseq[s] # 0, sseq[s] % 2 = 0
  PROVE  /\ s \in Workers /\ pc[s] # "storing" /\ writes[s] > 0
         /\ sseq[s] = (2 * writes[s]) % SeqModulus
<1> USE Numbers
<1>1. s \in Workers /\ writes[s] \in Nat
  BY DEF ScoresInv, UnownedInv, ScoresTypeOK
<1>2. CASE pc[s] = "storing"
  <2>1. sseq[s] = (2 * writes[s] + 1) % (2 * HalfModulus)
    BY <1>1, <1>2, Zenon DEF ScoresInv, WriterInv, SeqModulus
  <2>2. sseq[s] % 2 = 1
    <3>1. HalfModulus \in Nat \ {0}
      BY ScorePageAssumption, SeqlockAssumption, Zenon
    <3>2. ((2 * writes[s] + 1) % (2 * HalfModulus)) % 2 = 1
      BY <1>1, <3>1, ModParity, Zenon
    <3> QED BY <2>1, <3>2, Zenon
  <2> QED BY <2>2
<1>3. CASE pc[s] # "storing"
  <2>1. sseq[s] = (2 * writes[s]) % SeqModulus
    BY <1>1, <1>3, Zenon DEF ScoresInv, WriterInv
  <2>2. writes[s] # 0
    <3>1. 0 % SeqModulus = 0
      OBVIOUS
    <3> QED BY <2>1, <3>1
  <2> QED BY <1>1, <1>3, <2>1, <2>2
<1> QED BY <1>2, <1>3, Zenon

\* The supervisor's read and the owner's writes keep the fields it holds
\* together.
LEMMA ReadKept ==
  ASSUME Fits, ScoresInv, [ScoresNext]_scoreVars
  PROVE  ReadInv'
<1> USE Numbers
<1>0. /\ ScoresTypeOK /\ WriterInv /\ ReadInv
      /\ writes \in [Workers -> Nat] /\ rstart \in Nat
  BY DEF ScoresInv, ScoresTypeOK
<1>1. ASSUME NEW w \in Workers, LoadOld(w) PROVE ReadInv'
  <2>1. SlotOf(w) = w
    BY OwnSlot, Zenon
  <2> QED BY <1>0, <1>1, <2>1 DEF LoadOld, ScoresTypeOK, ReadInv, readVars
<1>2. ASSUME NEW w \in Workers, StoreSlotOdd(w) PROVE ReadInv'
  BY <1>0, <1>2, Zenon DEF StoreSlotOdd, ScoresTypeOK, ReadInv, readVars
<1>3. ASSUME NEW w \in Workers, NEW f \in Field, StoreField(w, f) PROVE ReadInv'
  BY <1>0, <1>3, Zenon DEF StoreField, ReadInv, readVars
<1>4. ASSUME NEW w \in Workers, StoreSlotEven(w) PROVE ReadInv'
  BY <1>0, <1>4 DEF StoreSlotEven, ScoresTypeOK, ReadInv, readVars
<1>5. ASSUME NEW w \in Workers, Crash(w) PROVE ReadInv'
  BY <1>0, <1>5, Zenon DEF Crash, Fits, ScoresTypeOK, ReadInv, readVars
<1>6. ASSUME NEW s \in Slots, ReadSlotFirst(s) PROVE ReadInv'
  <2>1. /\ s \in Workers /\ pc[s] # "storing" /\ writes[s] > 0
        /\ sseq[s] = (2 * writes[s]) % SeqModulus
    BY <1>6, EvenSlot, Zenon DEF ReadSlotFirst
  <2>2. MaxLag >= 1
    BY ScorePageAssumption, SeqlockAssumption
  <2> QED BY <1>0, <1>6, <2>1, <2>2 DEF ReadSlotFirst, ReadInv, workerVars
<1>7. ASSUME NEW f \in Field, ReadField(f) PROVE ReadInv'
  <2>1. /\ rslot # NoSlot /\ rgot' = [rgot EXCEPT ![f] = smem[rslot][f]]
        /\ runread' = runread \ {f} /\ UNCHANGED <<rslot, rstart, rfirst, writes, pc>>
    BY <1>7, Zenon DEF ReadField, workerVars
  <2>2. rslot \in Workers /\ rstart > 0
    BY <1>0, <2>1 DEF ReadInv
  <2>3. ASSUME rstart = writes[rslot], pc[rslot] # "storing"
        PROVE  smem[rslot][f] = <<rslot, rstart>>
    BY <1>0, <2>2, <2>3, Zenon DEF WriterInv, Sample
  <2> QED BY <1>0, <2>1, <2>2, <2>3, Zenon DEF ReadInv, ScoresTypeOK
<1>8. CASE ReadSlotSecond
  BY <1>8, Zenon DEF ReadSlotSecond, ReadInv
<1>9. CASE UNCHANGED scoreVars
  BY <1>0, <1>9, Zenon DEF scoreVars, workerVars, readVars, ReadInv
<1> QED BY <1>1, <1>2, <1>3, <1>4, <1>5, <1>6, <1>7, <1>8, <1>9, Zenon
        DEF ScoresNext, WriteStep, ReadStep

\* A read that returns a sample returns its owner's last completed write.
LEMMA WholeSample ==
  ASSUME Fits, ScoresInv, ReadSlotSecond, sseq[rslot] = rfirst
  PROVE  rslot \in Workers /\ rgot = Sample(rslot, writes[rslot])
<1>1. rstart = writes[rslot] /\ pc[rslot] # "storing"
  BY EqualSlotLoads, Zenon DEF ReadSlotSecond
<1>2. rslot \in Workers /\ \A f \in Field : rgot[f] = <<rslot, rstart>>
  BY <1>1, Zenon DEF ReadSlotSecond, ScoresInv, ReadInv
<1>3. rgot = [f \in Field |-> rgot[f]]
  BY Zenon DEF ScoresInv, ScoresTypeOK
<1> QED BY <1>1, <1>2, <1>3, Zenon DEF Sample

\* The invariant is inductive.
LEMMA ScoresInductive == ASSUME Fits PROVE ScoresSpec => []ScoresInv
<1>1. ScoresInit => ScoresInv
  <2> SUFFICES ASSUME ScoresInit PROVE ScoresInv
    BY Zenon
  <2> USE ScorePageAssumption, SeqlockAssumption, Numbers DEF ScoresInit
  <2>1. 0 \in Workers /\ 0 % SeqModulus = 0
    BY DEF Workers
  <2>2. Sample(0, 0) \in [Field -> Tag]
    BY <2>1 DEF Sample, Tag
  <2>3. ScoresTypeOK
    <3>1. /\ smem \in [Slots -> [Field -> Tag]] /\ rgot \in [Field -> Tag]
          /\ sample \in [Slots -> [Field -> Tag]]
      BY <2>2, Zenon
    <3>2. /\ pc \in [Workers -> {"idle", "loaded", "storing"}]
          /\ wunstored \in [Workers -> SUBSET Field] /\ runread \subseteq Field
          /\ rslot \in Slots \cup {NoSlot}
      BY Zenon
    <3>3. /\ sseq \in [Slots -> 0..(SeqModulus - 1)]
          /\ old \in [Workers -> 0..(SeqModulus - 1)]
          /\ writes \in [Workers -> 0..MaxWrites]
          /\ crashes \in 0..MaxCrashes /\ rfirst \in 0..(SeqModulus - 1)
          /\ rstart \in 0..MaxWrites
      OBVIOUS
    <3> HIDE DEF ScoresInit
    <3> QED BY <3>1, <3>2, <3>3, Zenon DEF ScoresTypeOK
  <2>4. WriterInv
    <3>1. \A w \in Workers : w \in Slots
      BY OwnSlot, Zenon
    <3> QED BY <2>1, <3>1 DEF WriterInv
  <2>5. UnownedInv /\ ReadInv
    BY Zenon DEF UnownedInv, ReadInv
  <2> QED BY <2>3, <2>4, <2>5, Zenon DEF ScoresInv
<1>2. ScoresInv /\ [ScoresNext]_scoreVars => ScoresInv'
  BY ScoresTyped, WriterKept, ReadKept, Zenon DEF ScoresInv
<1> QED BY <1>1, <1>2, PTL DEF ScoresSpec

\* ScoreReader::read never returns a torn sample.
THEOREM WholeSamples == ASSUME Fits PROVE ScoresSpec => []NoTornSample
<1>1. ScoresInit => NoTornSample
  BY DEF ScoresInit, NoTornSample, Sample
<1>2. ScoresInv /\ NoTornSample /\ [ScoresNext]_scoreVars => NoTornSample'
  <2> SUFFICES ASSUME ScoresInv, NoTornSample, [ScoresNext]_scoreVars PROVE NoTornSample'
    BY Zenon
  <2>1. CASE ReadSlotSecond /\ sseq[rslot] = rfirst
    <3>1. rgot = Sample(rslot, writes[rslot])
      BY <2>1, WholeSample, Zenon
    <3>2. sample' = [sample EXCEPT ![rslot] = rgot]
      BY <2>1, Zenon DEF ReadSlotSecond
    <3>3. \A f, g \in Field : rgot[f] = rgot[g]
      BY <3>1, Zenon DEF Sample
    <3> QED BY <3>2, <3>3, Zenon DEF NoTornSample, ScoresInv, ScoresTypeOK
  <2>2. CASE ReadSlotSecond /\ sseq[rslot] # rfirst
    BY <2>2, Zenon DEF ReadSlotSecond, NoTornSample
  <2>3. CASE UNCHANGED sample
    BY <2>3, Zenon DEF NoTornSample
  <2> QED BY <2>1, <2>2, <2>3, Zenon
          DEF ScoresNext, WriteStep, ReadStep, LoadOld, StoreSlotOdd, StoreField, StoreSlotEven, Crash,
              ReadSlotFirst, ReadField, readVars, scoreVars
<1> QED BY <1>1, <1>2, ScoresInductive, PTL DEF ScoresSpec

\* A sample that read returns is the last one the slot's own worker completed
\* at that moment, through any number of restarts between writes.
THEOREM FreshSamples == ASSUME Fits PROVE ScoresSpec => FreshOwnSample
<1>1. ScoresInv /\ [ScoresNext]_scoreVars =>
        [\A s \in Slots : sample'[s] # sample[s] =>
           s \in Workers /\ sample'[s] = Sample(s, writes[s])]_scoreVars
  <2> SUFFICES ASSUME ScoresInv, ScoresNext, NEW s \in Slots, sample'[s] # sample[s]
               PROVE  s \in Workers /\ sample'[s] = Sample(s, writes[s])
    BY Zenon
  <2>1. ReadSlotSecond /\ sseq[rslot] = rfirst
    BY Zenon DEF ScoresNext, WriteStep, ReadStep, LoadOld, StoreSlotOdd, StoreField, StoreSlotEven, Crash,
           ReadSlotFirst, ReadField, ReadSlotSecond, readVars
  <2>2. sample' = [sample EXCEPT ![rslot] = rgot]
    BY <2>1, Zenon DEF ReadSlotSecond
  <2>3. s = rslot /\ sample'[s] = rgot
    BY <2>2, Zenon DEF ScoresInv, ScoresTypeOK
  <2> QED BY <2>1, <2>3, WholeSample, Zenon
<1> QED BY <1>1, ScoresInductive, PTL DEF ScoresSpec, FreshOwnSample
=============================================================================
