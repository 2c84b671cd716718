---------------------------- MODULE ClientProofs ----------------------------
(***************************************************************************)
(* What a client is promised: who sends documents to the routes and to the *)
(* commands, one request after the other (PdfSession, for every set of     *)
(* documents and requests), and who lets the bindings fetch a Chrome       *)
(* (ChromeFetch, for every number of clients and of launch attempts).      *)
(***************************************************************************)
EXTENDS PdfSession, ChromeFetch, FiniteSetTheorems, SequenceTheorems,
        WellFoundedInduction, TLAPS

-----------------------------------------------------------------------------
(* Natural numbers, sequences in a row, and the pages at some places.      *)

\* A set of natural numbers with a member has a least one.
LEMMA LeastNat ==
  ASSUME NEW T, T \subseteq Nat, T # {}
  PROVE  \E n \in T : \A m \in T : n <= m
<1>1. IsWellFoundedOn(OpToRel(<, Nat), Nat)
  BY NatLessThanWellFounded
<1>2. \E x \in T : \A y \in T : ~ (<<y, x>> \in OpToRel(<, Nat))
  BY <1>1, WFMin
<1>3. \A x, y \in T : ~ (<<y, x>> \in OpToRel(<, Nat)) => x <= y
  BY DEF OpToRel
<1> QED BY <1>2, <1>3

\* g[i] is what the first i of the sequences are in a row.
Flats(g, seqs, n) == g = [i \in 1..n |-> IF i = 1 THEN seqs[i] ELSE g[i - 1] \o seqs[i]]

\* There is such a g, however many sequences there are.
LEMMA FlatsExist ==
  ASSUME NEW seqs, NEW N \in Nat \ {0}
  PROVE  \E g : Flats(g, seqs, N)
<1> DEFINE T == {n \in Nat \ {0} : ~ \E g : Flats(g, seqs, n)}
<1> SUFFICES ASSUME T # {} PROVE FALSE
  OBVIOUS
<1>1. PICK n \in T : \A m \in T : n <= m
  BY LeastNat
<1>2. CASE n = 1
  <2> DEFINE g == [i \in 1..1 |-> seqs[i]]
  <2>1. Flats(g, seqs, 1)
    BY DEF Flats
  <2> QED BY <1>1, <1>2, <2>1
<1>3. CASE n # 1
  <2>1. n - 1 \in Nat \ {0} /\ n - 1 \notin T /\ n \in Nat
    BY <1>1, <1>3
  <2>2. PICK g : Flats(g, seqs, n - 1)
    BY <2>1
  <2> DEFINE h == [i \in 1..n |-> IF i = n THEN g[n - 1] \o seqs[n] ELSE g[i]]
  <2>3. ASSUME NEW i \in 1..n
        PROVE  h[i] = IF i = 1 THEN seqs[i] ELSE h[i - 1] \o seqs[i]
    <3>1. CASE i = n
      <4>1. n - 1 \in 1..n /\ h[n - 1] = g[n - 1]
        BY <2>1
      <4> QED BY <3>1, <4>1, <1>3
    <3>2. CASE i # n
      <4>1. i \in 1..(n - 1) /\ h[i] = g[i]
        BY <2>1, <3>2
      <4>2. g[i] = IF i = 1 THEN seqs[i] ELSE g[i - 1] \o seqs[i]
        BY <2>2, <4>1 DEF Flats
      <4>3. i # 1 => i - 1 \in 1..n /\ i - 1 # n /\ h[i - 1] = g[i - 1]
        BY <2>1, <4>1
      <4> HIDE DEF h
      <4> QED BY <4>1, <4>2, <4>3
    <3> QED BY <3>1, <3>2
  <2>4. Flats(h, seqs, n)
    <3> DEFINE e == [i \in 1..n |-> IF i = 1 THEN seqs[i] ELSE h[i - 1] \o seqs[i]]
    <3>1. h = e
      <4>1. DOMAIN h = 1..n /\ DOMAIN e = 1..n /\ \A i \in 1..n : h[i] = e[i]
        BY <2>3
      <4> QED BY <4>1
    <3> QED BY <3>1 DEF Flats
  <2> QED BY <1>1, <2>4
<1> QED BY <1>2, <1>3

\* FlattenSeq is the last of it.
LEMMA FlattenIs ==
  ASSUME NEW seqs, Len(seqs) \in Nat \ {0}
  PROVE  \E g : Flats(g, seqs, Len(seqs)) /\ FlattenSeq(seqs) = g[Len(seqs)]
<1> DEFINE N == Len(seqs)
           f == CHOOSE g : g = [i \in 1..N |-> IF i = 1 THEN seqs[i] ELSE g[i - 1] \o seqs[i]]
<1>1. \E g : g = [i \in 1..N |-> IF i = 1 THEN seqs[i] ELSE g[i - 1] \o seqs[i]]
  BY FlatsExist DEF Flats
<1>2. f = [i \in 1..N |-> IF i = 1 THEN seqs[i] ELSE f[i - 1] \o seqs[i]]
  BY <1>1
<1>3. FlattenSeq(seqs) = f[N]
  BY DEF FlattenSeq
<1> QED BY <1>2, <1>3 DEF Flats

\* Each of them is a sequence.
LEMMA FlatsSequences ==
  ASSUME NEW S, NEW seqs, NEW N \in Nat \ {0}, NEW g, Flats(g, seqs, N),
         \A i \in 1..N : seqs[i] \in Seq(S)
  PROVE  \A k \in 1..N : g[k] \in Seq(S)
<1> DEFINE T == {k \in Nat : k \in 1..N /\ g[k] \notin Seq(S)}
<1> SUFFICES ASSUME T # {} PROVE FALSE
  <2>1. \A k \in 1..N : k \in Nat
    OBVIOUS
  <2> QED BY <2>1
<1>1. PICK k \in T : \A m \in T : k <= m
  BY LeastNat
<1>2. g[k] = IF k = 1 THEN seqs[k] ELSE g[k - 1] \o seqs[k]
  BY DEF Flats
<1>3. k # 1 => k - 1 \in 1..N /\ k - 1 \notin T
  BY <1>1
<1>4. k # 1 => g[k - 1] \o seqs[k] \in Seq(S)
  BY <1>3, ConcatProperties
<1> QED BY <1>2, <1>4

\* Sequences in a row are a sequence.
LEMMA FlattenSequence ==
  ASSUME NEW S, NEW seqs, DOMAIN seqs = 1..Len(seqs), Len(seqs) \in Nat,
         \A i \in DOMAIN seqs : seqs[i] \in Seq(S)
  PROVE  Len(seqs) # 0 => FlattenSeq(seqs) \in Seq(S)
BY FlattenIs, FlatsSequences

\* An element of the last of them is one of the sequences'.
LEMMA PagesInARow ==
  ASSUME NEW seqs, DOMAIN seqs = 1..Len(seqs), Len(seqs) \in Nat \ {0},
         \A i \in DOMAIN seqs : ArePages(seqs[i])
  PROVE  ArePages(FlattenSeq(seqs))
<1> DEFINE S == UNION {Range(seqs[i]) : i \in DOMAIN seqs}
           whole == FlattenSeq(seqs)
<1>1. \A s \in S : IsPage(s)
  <2>1. \A i \in DOMAIN seqs : \A k \in DOMAIN seqs[i] : IsPage(seqs[i][k])
    BY DEF ArePages
  <2> QED BY <2>1 DEF Range
<1>2. ASSUME NEW i \in DOMAIN seqs PROVE seqs[i] \in Seq(S)
  <2>1. seqs[i] \in Seq(Range(seqs[i])) /\ Range(seqs[i]) \subseteq S
    BY DEF ArePages, IsSequence
  <2> QED BY <2>1, SeqMonotonic
<1>3. whole \in Seq(S)
  BY <1>2, FlattenSequence
<1> HIDE DEF S, whole
<1>4. whole \in [1..Len(whole) -> S] /\ Len(whole) \in Nat
  BY <1>3, LenProperties
<1>5. whole \in [1..Len(whole) -> Range(whole)]
  BY <1>4 DEF Range
<1>6. whole \in Seq(Range(whole))
  BY <1>4, <1>5, SeqDef
<1> QED BY <1>1, <1>4, <1>6 DEF ArePages, IsSequence, whole

\* Ranks count the places one by one.
LEMMA RankFacts ==
  ASSUME NEW N \in Nat, NEW places \in SUBSET (1..N)
  PROVE  /\ Cardinality(places) \in Nat
         /\ \A n \in places : Rank(places, n) \in 1..Cardinality(places)
         /\ \A m, n \in places : m < n => Rank(places, m) < Rank(places, n)
         /\ \A k \in 1..Cardinality(places) :
              Nth(places, k) \in places /\ Rank(places, Nth(places, k)) = k
<1> DEFINE upTo(n) == {m \in places : m <= n}
           K == Cardinality(places)
<1>1. IsFiniteSet(places) /\ K \in Nat
  <2>1. IsFiniteSet(1..N)
    BY FS_Interval
  <2> QED BY <2>1, FS_Subset, FS_CardinalityType
<1>2. ASSUME NEW n \in places
      PROVE  /\ IsFiniteSet(upTo(n)) /\ Rank(places, n) = Cardinality(upTo(n))
             /\ Rank(places, n) \in Nat /\ Rank(places, n) <= K
  <2>1. upTo(n) \in SUBSET places
    OBVIOUS
  <2> QED BY <1>1, <2>1, FS_Subset, FS_CardinalityType DEF Rank
<1>3. ASSUME NEW n \in places PROVE Rank(places, n) >= 1
  <2>1. {n} \in SUBSET upTo(n)
    OBVIOUS
  <2>2. Cardinality({n}) <= Cardinality(upTo(n))
    BY <1>2, <2>1, FS_Subset
  <2> QED BY <1>2, <2>2, FS_Singleton
<1>4. ASSUME NEW m \in places, NEW n \in places, m < n
      PROVE  Rank(places, m) < Rank(places, n)
  <2>1. upTo(m) \in SUBSET upTo(n) /\ n \in upTo(n) /\ n \notin upTo(m)
    <3>1. \A x \in places : x \in Nat
      OBVIOUS
    <3>2. n \in upTo(n)
      BY <3>1
    <3>3. n \notin upTo(m)
      BY <1>4, <3>1
    <3>4. \A x \in places : x <= m => x <= n
      BY <1>4, <3>1
    <3> QED BY <3>2, <3>3, <3>4
  <2>2. Cardinality(upTo(m)) <= Cardinality(upTo(n))
    BY <1>2, <2>1, FS_Subset
  <2>3. Cardinality(upTo(m)) # Cardinality(upTo(n))
    BY <1>2, <2>1, FS_Subset
  <2> QED BY <1>2, <2>2, <2>3
<1>5. \A n \in places : Rank(places, n) \in 1..K
  <2> SUFFICES ASSUME NEW n \in places PROVE Rank(places, n) \in 1..K
    OBVIOUS
  <2>1. Rank(places, n) \in Nat /\ Rank(places, n) <= K /\ Rank(places, n) >= 1
    BY <1>2, <1>3
  <2> HIDE DEF K
  <2> QED BY <1>1, <2>1
<1>6. ASSUME NEW k \in 1..K PROVE \E n \in places : Rank(places, n) = k
  <2> DEFINE f == [n \in places |-> Rank(places, n)]
  <2>1. \A n \in places : Rank(places, n) \in 1..K
    BY <1>5
  <2>2. \A m, n \in places : Rank(places, m) = Rank(places, n) => m = n
    <3>1. ASSUME NEW m \in places, NEW n \in places, m # n
          PROVE  Rank(places, m) # Rank(places, n)
      <4>1. m < n \/ n < m
        BY <3>1
      <4>2. Rank(places, m) \in Nat /\ Rank(places, n) \in Nat
        BY <1>2
      <4> QED BY <1>4, <4>1, <4>2
    <3> QED BY <3>1
  <2>3. f \in Injection(places, 1..K)
    BY <2>1, <2>2 DEF Injection, IsInjective
  <2>4. IsFiniteSet(1..K) /\ Cardinality(1..K) = K
    BY <1>1, FS_Interval
  <2>5. f \in Surjection(places, 1..K)
    BY <2>3, <2>4, FS_Injection
  <2> QED BY <1>6, <2>5 DEF Surjection
<1>7. ASSUME NEW k \in 1..K
      PROVE  Nth(places, k) \in places /\ Rank(places, Nth(places, k)) = k
  BY <1>6, <1>7 DEF Nth
<1> QED BY <1>1, <1>4, <1>5, <1>7

\* Pages at some places.
LEMMA PagesAt ==
  ASSUME NEW ps, ArePages(ps), NEW places \in SUBSET (DOMAIN ps)
  PROVE  ArePages(At(ps, places))
<1> DEFINE N == Len(ps)
           K == Cardinality(places)
           r == At(ps, places)
<1>0. N \in Nat /\ DOMAIN ps = 1..N /\ \A k \in 1..N : IsPage(ps[k])
  BY LenProperties DEF ArePages, IsSequence
<1>1. K \in Nat /\ \A k \in 1..K : Nth(places, k) \in 1..N
  BY <1>0, RankFacts
<1>2. r = [k \in 1..K |-> ps[Nth(places, k)]]
  BY DEF At
<1> HIDE DEF N, K, r
<1>3. r \in [1..K -> Range(r)] /\ \A k \in 1..K : IsPage(r[k])
  BY <1>0, <1>1, <1>2 DEF Range
<1>4. r \in Seq(Range(r)) /\ DOMAIN r = 1..K
  BY <1>1, <1>3, SeqDef
<1> QED BY <1>3, <1>4 DEF ArePages, IsSequence, r

\* Sequences changed element by element.
LEMMA SequenceChanged ==
  ASSUME NEW s, IsSequence(s), NEW r, DOMAIN r = DOMAIN s, r = [k \in DOMAIN r |-> r[k]]
  PROVE  IsSequence(r)
<1> DEFINE N == Len(s)
<1>0. N \in Nat /\ DOMAIN s = 1..N
  BY LenProperties DEF IsSequence
<1> HIDE DEF N
<1>1. r \in [1..N -> Range(r)]
  BY <1>0 DEF Range
<1> QED BY <1>0, <1>1, SeqDef DEF IsSequence

\* The same for pages.
LEMMA PagesChanged ==
  ASSUME NEW ps, ArePages(ps), NEW r, DOMAIN r = DOMAIN ps, r = [k \in DOMAIN r |-> r[k]],
         \A k \in DOMAIN ps : IsPage(r[k])
  PROVE  ArePages(r)
BY SequenceChanged DEF ArePages

-----------------------------------------------------------------------------
(* Documents: what each operation makes of one.                            *)

\* A document that is given passwords, and nothing else, is a document.
LEMMA KeyedFacts ==
  ASSUME NEW d, IsDocument(d), NEW user, NEW owner, NEW r, r = Keyed(d, user, owner)
  PROVE  /\ IsDocument(r) /\ r.user = user /\ r.owner = owner
         /\ r.title = d.title /\ r.pages = d.pages
BY DEF IsDocument, Keyed

\* One that is rid of them.
LEMMA UnlockedFacts ==
  ASSUME NEW d, IsDocument(d), NEW r, r = Unlocked(d)
  PROVE  /\ IsDocument(r) /\ r.user = Absent /\ r.owner = Absent
         /\ r.title = d.title /\ r.pages = d.pages
BY KeyedFacts DEF Unlocked

\* One whose outline is cut to the pages there are.
LEMMA RenumberedFacts ==
  ASSUME NEW d, IsDocument(d), NEW r, r = Renumbered(d)
  PROVE  /\ IsDocument(r) /\ r.user = d.user /\ r.owner = d.owner
         /\ r.title = d.title /\ r.pages = d.pages
<1> DEFINE new == [i \in DOMAIN d.outline |-> [d.outline[i] EXCEPT !.num = 0]]
           unknown == <<>>
<1>1. r = [d EXCEPT !.outline = new, !.ids = unknown]
  BY DEF Renumbered
<1>2. DOMAIN new = DOMAIN d.outline /\ new = [k \in DOMAIN new |-> new[k]]
  OBVIOUS
<1> HIDE DEF new, unknown
<1>3. IsSequence(new)
  BY <1>2, SequenceChanged DEF IsDocument
<1> QED BY <1>1, <1>3 DEF IsDocument

\* One that qpdf encrypted: just the passwords asked for.
LEMMA SecuredFacts ==
  ASSUME NEW d, IsDocument(d), NEW user, NEW owner, NEW r, r = Secured(d, user, owner)
  PROVE  /\ IsDocument(r) /\ r.user = user /\ (owner # Absent => r.owner = owner)
         /\ r.title = d.title /\ r.pages = d.pages
BY KeyedFacts, RenumberedFacts DEF Secured

\* One with a new title.
LEMMA TitledFacts ==
  ASSUME NEW d, IsDocument(d), NEW title, NEW r, r = Titled(d, title)
  PROVE  /\ IsDocument(r) /\ r.user = d.user /\ r.owner = d.owner
         /\ (title # "-" => r.title = title) /\ r.pages = d.pages
BY DEF IsDocument, Titled

\* One with a new outline.
LEMMA WithBookmarksFacts ==
  ASSUME NEW d, IsDocument(d), NEW bs, IsSequence(bs), NEW r, r = WithBookmarks(d, bs)
  PROVE  /\ IsDocument(r) /\ r.user = d.user /\ r.owner = d.owner
         /\ r.title = d.title /\ r.pages = d.pages
<1> DEFINE new == [i \in DOMAIN bs |-> [title |-> bs[i].title, level |-> bs[i].level, num |-> bs[i].page]]
<1>1. r = [d EXCEPT !.outline = new]
  BY DEF WithBookmarks
<1>2. DOMAIN new = DOMAIN bs /\ new = [k \in DOMAIN new |-> new[k]]
  OBVIOUS
<1> HIDE DEF new
<1>3. IsSequence(new)
  BY <1>2, SequenceChanged
<1> QED BY <1>1, <1>3 DEF IsDocument

\* Pages without what the page tree lent them.
LEMMA SeveredPages ==
  ASSUME NEW ps, ArePages(ps)
  PROVE  ArePages(Severed(ps))
<1> DEFINE r == Severed(ps)
           none == {}
<1>1. r = [k \in DOMAIN ps |-> [ps[k] EXCEPT !.lent = none]]
  BY DEF Severed
<1>2. ASSUME NEW k \in DOMAIN ps PROVE IsPage([ps[k] EXCEPT !.lent = none])
  <2> DEFINE page == ps[k]
  <2>1. IsPage(page) /\ none \subseteq Inheritable
    BY DEF ArePages
  <2> HIDE DEF page, none
  <2>2. IsPage([page EXCEPT !.lent = none])
    BY <2>1 DEF IsPage
  <2> QED BY <2>2 DEF page
<1> HIDE DEF none
<1>3. DOMAIN r = DOMAIN ps /\ r = [k \in DOMAIN r |-> r[k]] /\ \A k \in DOMAIN ps : IsPage(r[k])
  BY <1>1, <1>2
<1> HIDE DEF r
<1>4. ArePages(r)
  BY <1>3, PagesChanged
<1> QED BY <1>4 DEF r

\* Documents joined: their pages in a row, without what their page trees lent them.
LEMMA JoinedFacts ==
  ASSUME NEW ds, Len(ds) \in Nat \ {0}, DOMAIN ds = 1..Len(ds),
         \A i \in DOMAIN ds : IsDocument(ds[i]), NEW r, r = Joined(ds)
  PROVE  /\ IsDocument(r) /\ r.user = ds[1].user /\ r.owner = ds[1].owner
         /\ r.pages = Severed(FlattenSeq([i \in DOMAIN ds |-> ds[i].pages]))
<1> DEFINE all == [i \in DOMAIN ds |-> ds[i].pages]
           row == FlattenSeq(all)
           pages == Severed(row)
           outline == Renumbered(ds[1]).outline
           no == FALSE
           none == {}
           unknown == <<>>
<1>0. ArePages(pages)
  <2>1. DOMAIN all = 1..Len(ds) /\ Len(all) = Len(ds)
    OBVIOUS
  <2>2. \A i \in DOMAIN all : ArePages(all[i])
    BY DEF IsDocument
  <2> HIDE DEF all
  <2>3. ArePages(row)
    BY <2>1, <2>2, PagesInARow
  <2> HIDE DEF row
  <2> QED BY <2>3, SeveredPages
<1>1. r = [ds[1] EXCEPT !.pages = pages, !.ids = unknown, !.outline = outline, !.title = Absent,
                        !.form = no, !.files = none]
  BY DEF Joined
<1>2. IsDocument(ds[1]) /\ IsSequence(outline)
  <2>1. IsDocument(Renumbered(ds[1]))
    BY RenumberedFacts
  <2> QED BY <2>1 DEF IsDocument
<1> HIDE DEF pages, outline, no, none, unknown
<1>3. r.pages = pages /\ IsDocument(r) /\ r.user = ds[1].user /\ r.owner = ds[1].owner
  BY <1>0, <1>1, <1>2 DEF IsDocument
<1> QED BY <1>3 DEF pages

\* One of some of its pages.
LEMMA KeepFacts ==
  ASSUME NEW d, IsDocument(d), NEW ps \in SUBSET (DOMAIN d.pages), NEW r, r = Keep(d, ps)
  PROVE  /\ IsDocument(r) /\ r.user = d.user /\ r.owner = d.owner /\ r.title = d.title
         /\ \/ ps = DOMAIN d.pages /\ r.pages = d.pages
            \/ ps # DOMAIN d.pages /\ r.pages = At(d.pages, ps)
<1>1. CASE ps = DOMAIN d.pages
  BY <1>1 DEF Keep
<1>2. CASE ps # DOMAIN d.pages
  <2> DEFINE e == Renumbered(d)
             pages == At(d.pages, ps)
  <2>1. IsDocument(e) /\ e.user = d.user /\ e.owner = d.owner /\ e.title = d.title
    BY RenumberedFacts
  <2>2. r = [e EXCEPT !.pages = pages]
    BY <1>2 DEF Keep
  <2>3. ArePages(pages)
    BY PagesAt DEF IsDocument
  <2> HIDE DEF e, pages
  <2>4. r.pages = pages /\ IsDocument(r) /\ r.user = d.user /\ r.owner = d.owner /\ r.title = d.title
    BY <2>1, <2>2, <2>3 DEF IsDocument
  <2> QED BY <1>2, <2>4 DEF pages
<1> QED BY <1>1, <1>2

\* One whose fields became content.
LEMMA FlattenedFacts ==
  ASSUME NEW d, IsDocument(d)
  PROVE  IsDocument(Flattened(d))
<1> DEFINE r == Flattened(d)
           no == FALSE
           pages == [p \in DOMAIN d.pages |-> [d.pages[p] EXCEPT !.annots = FALSE]]
<1>1. ArePages(pages)
  <2>1. \A p \in DOMAIN d.pages : IsPage(d.pages[p])
    BY DEF IsDocument, ArePages
  <2>2. \A p \in DOMAIN d.pages : IsPage([d.pages[p] EXCEPT !.annots = FALSE])
    <3> SUFFICES ASSUME NEW page, IsPage(page), NEW annots PROVE IsPage([page EXCEPT !.annots = annots])
      BY <2>1
    <3> QED BY DEF IsPage
  <2>3. ArePages(d.pages) /\ DOMAIN pages = DOMAIN d.pages /\ pages = [k \in DOMAIN pages |-> pages[k]]
        /\ \A k \in DOMAIN d.pages : IsPage(pages[k])
    BY <2>2 DEF IsDocument
  <2> HIDE DEF pages
  <2> QED BY <2>3, PagesChanged
<1>2. r = [d EXCEPT !.form = no, !.pages = pages]
  BY DEF Flattened
<1> HIDE DEF r, no, pages
<1> QED BY <1>1, <1>2 DEF IsDocument, r

\* A page turned, with other attributes lent to it, is a page.
LEMMA PageTurned ==
  ASSUME NEW page, IsPage(page), NEW turn \in 0..3, NEW lent \in SUBSET Inheritable
  PROVE  IsPage([page EXCEPT !.turn = turn, !.lent = lent])
<1> DEFINE new == [src |-> page.src, turn |-> turn, lent |-> lent, marks |-> page.marks, annots |-> page.annots]
<1>1. page = [src |-> page.src, turn |-> page.turn, lent |-> page.lent, marks |-> page.marks, annots |-> page.annots]
  BY DEF IsPage
<1>2. PICK half : half = [page EXCEPT !.turn = turn]
  OBVIOUS
<1>3. half = [src |-> page.src, turn |-> turn, lent |-> page.lent, marks |-> page.marks, annots |-> page.annots]
  BY <1>1, <1>2
<1>4. [half EXCEPT !.lent = lent] = new
  BY <1>3
<1>5. IsPage(new)
  BY DEF IsPage
<1> HIDE DEF new
<1>6. [[page EXCEPT !.turn = turn] EXCEPT !.lent = lent] = new
  BY ONLY <1>2, <1>4, Zenon
<1> QED BY <1>5, <1>6

\* So is one that was drawn on.
LEMMA PageMarked ==
  ASSUME NEW page, IsPage(page), NEW marks, NEW lent \in SUBSET Inheritable
  PROVE  IsPage([page EXCEPT !.marks = marks, !.lent = lent])
<1> DEFINE new == [src |-> page.src, turn |-> page.turn, lent |-> lent, marks |-> marks, annots |-> page.annots]
<1>1. page = [src |-> page.src, turn |-> page.turn, lent |-> page.lent, marks |-> page.marks, annots |-> page.annots]
  BY DEF IsPage
<1>2. PICK half : half = [page EXCEPT !.marks = marks]
  OBVIOUS
<1>3. half = [src |-> page.src, turn |-> page.turn, lent |-> page.lent, marks |-> marks, annots |-> page.annots]
  BY <1>1, <1>2
<1>4. [half EXCEPT !.lent = lent] = new
  BY <1>3
<1>5. IsPage(new)
  BY DEF IsPage
<1> HIDE DEF new
<1>6. [[page EXCEPT !.marks = marks] EXCEPT !.lent = lent] = new
  BY ONLY <1>2, <1>4, Zenon
<1> QED BY <1>5, <1>6

\* One with pages turned.
LEMMA TurnedFacts ==
  ASSUME NEW d, IsDocument(d), NEW rs, NEW quarters \in Int
  PROVE  IsDocument(Turned(d, rs, quarters))
<1> DEFINE r == Turned(d, rs, quarters)
           pages == [p \in DOMAIN d.pages |->
                       IF p \in Selected(rs, Len(d.pages))
                       THEN [d.pages[p] EXCEPT !.turn = (@ + quarters) % 4, !.lent = @ \ {"Rotate"}]
                       ELSE d.pages[p]]
<1>1. ArePages(pages)
  <2>1. \A p \in DOMAIN d.pages : IsPage(d.pages[p])
    BY DEF IsDocument, ArePages
  <2>2. \A p \in DOMAIN d.pages :
          IsPage([d.pages[p] EXCEPT !.turn = (@ + quarters) % 4, !.lent = @ \ {"Rotate"}])
    <3> SUFFICES ASSUME NEW page, IsPage(page)
                 PROVE  IsPage([page EXCEPT !.turn = (@ + quarters) % 4, !.lent = @ \ {"Rotate"}])
      BY <2>1
    <3> DEFINE turn == (page.turn + quarters) % 4
               lent == page.lent \ {"Rotate"}
    <3>1. turn \in 0..3 /\ lent \in SUBSET Inheritable
      BY DEF IsPage
    <3> HIDE DEF turn, lent
    <3>2. IsPage([page EXCEPT !.turn = turn, !.lent = lent])
      BY <3>1, PageTurned
    <3> QED BY <3>2 DEF turn, lent
  <2>3. ArePages(d.pages) /\ DOMAIN pages = DOMAIN d.pages /\ pages = [k \in DOMAIN pages |-> pages[k]]
        /\ \A k \in DOMAIN d.pages : IsPage(pages[k])
    BY <2>1, <2>2 DEF IsDocument
  <2> HIDE DEF pages
  <2> QED BY <2>3, PagesChanged
<1>2. r = [d EXCEPT !.pages = pages]
  BY DEF Turned
<1> HIDE DEF r, pages
<1> QED BY <1>1, <1>2 DEF IsDocument, r

\* One with a drawing over its pages.
LEMMA DrawnFacts ==
  ASSUME NEW d, IsDocument(d), NEW opts
  PROVE  IsDocument(Drawn(d, opts))
<1> DEFINE r == Drawn(d, opts)
           pages == [p \in DOMAIN d.pages |->
                       IF opts.kind = "text" /\ (opts.allPages \/ p % 2 = 1)
                       THEN [d.pages[p] EXCEPT !.marks = Append(@, opts.text), !.lent = @ \ {"Resources"}]
                       ELSE d.pages[p]]
<1>1. ArePages(pages)
  <2>1. \A p \in DOMAIN d.pages : IsPage(d.pages[p])
    BY DEF IsDocument, ArePages
  <2>2. \A p \in DOMAIN d.pages :
          IsPage([d.pages[p] EXCEPT !.marks = Append(@, opts.text), !.lent = @ \ {"Resources"}])
    <3> SUFFICES ASSUME NEW page, IsPage(page)
                 PROVE  IsPage([page EXCEPT !.marks = Append(@, opts.text), !.lent = @ \ {"Resources"}])
      BY <2>1
    <3> DEFINE marks == Append(page.marks, opts.text)
               lent == page.lent \ {"Resources"}
    <3>1. lent \in SUBSET Inheritable
      BY DEF IsPage
    <3> HIDE DEF marks, lent
    <3>2. IsPage([page EXCEPT !.marks = marks, !.lent = lent])
      BY <3>1, PageMarked
    <3> QED BY <3>2 DEF marks, lent
  <2>3. ArePages(d.pages) /\ DOMAIN pages = DOMAIN d.pages /\ pages = [k \in DOMAIN pages |-> pages[k]]
        /\ \A k \in DOMAIN d.pages : IsPage(pages[k])
    BY <2>1, <2>2 DEF IsDocument
  <2> HIDE DEF pages
  <2> QED BY <2>3, PagesChanged
<1>2. r = [d EXCEPT !.pages = pages]
  BY DEF Drawn
<1> HIDE DEF r, pages
<1> QED BY <1>1, <1>2 DEF IsDocument, r

\* One that ghostscript wrote anew.
LEMMA PrintedFacts ==
  ASSUME NEW d, IsDocument(d), NEW outline, IsSequence(outline), NEW form, NEW files
  PROVE  IsDocument(Printed(d, outline, form, files))
<1> DEFINE e == Renumbered(Unlocked(d))
           r == Printed(d, outline, form, files)
<1>1. IsDocument(e)
  BY UnlockedFacts, RenumberedFacts
<1>2. r = [e EXCEPT !.outline = outline, !.form = form, !.files = files]
  BY DEF Printed
<1> HIDE DEF e, r
<1> QED BY <1>1, <1>2 DEF IsDocument, r

\* One with a file attached.
LEMMA AttachedFacts ==
  ASSUME NEW d, IsDocument(d), NEW names
  PROVE  IsDocument(Attached(d, names))
<1> DEFINE r == Attached(d, names)
           files == d.files \cup ToSet(names)
<1>1. r = [d EXCEPT !.files = files]
  BY DEF Attached
<1> HIDE DEF r, files
<1> QED BY <1>1 DEF IsDocument, r

\* One that Chrome or LibreOffice makes.
LEMMA RenderedFacts == IsDocument(Rendered)
<1> DEFINE page(p) == [src |-> <<"rendered", p>>, turn |-> 0, lent |-> {}, marks |-> <<>>, annots |-> FALSE]
           pages == [p \in 1..2 |-> page(p)]
<1>1. \A p \in 1..2 : IsPage(page(p))
  BY DEF IsPage
<1> HIDE DEF page
<1>2. pages \in [1..2 -> Range(pages)] /\ \A p \in 1..2 : IsPage(pages[p])
  BY <1>1 DEF Range
<1>3. pages \in Seq(Range(pages)) /\ DOMAIN pages = 1..2
  BY <1>2, SeqDef
<1>4. ArePages(pages)
  BY <1>2, <1>3 DEF ArePages, IsSequence
<1>5. Rendered.pages = pages
  BY DEF Rendered, page
<1> HIDE DEF pages
<1>6. ArePages(Rendered.pages)
  BY <1>4, <1>5
<1>7. IsSequence(Rendered.outline)
  BY EmptySeq DEF IsSequence, Rendered
<1> QED BY <1>6, <1>7 DEF IsDocument, Rendered

\* One that LibreOffice prints of a file.
LEMMA PrintoutFacts ==
  ASSUME NEW d, IsDocument(d)
  PROVE  IsDocument(Printout(d)) /\ Printout(d).pages = d.pages
<1> DEFINE r == Printout(d)
           e == Rendered
<1>1. r = [e EXCEPT !.pages = d.pages]
  BY DEF Printout
<1>2. IsDocument(e)
  BY RenderedFacts
<1> HIDE DEF r, e
<1> QED BY <1>1, <1>2 DEF IsDocument, r

-----------------------------------------------------------------------------
(* Outcomes.                                                               *)

\* An outcome is a failure or some documents, never both.
LEMMA Outcomes ==
  /\ \A x : Succeeded(Done(x)) /\ Done(x).docs = x /\ Done(<<x>>).docs[1] = x
  /\ \A k : k # "none" => ~Succeeded(Fail(k))
  /\ \A o \in Trouble : ~Succeeded(o)
<1>1. \A x : Succeeded(Done(x)) /\ Done(x).docs = x BY DEF Done, Succeeded
<1>2. \A x : Done(<<x>>).docs[1] = x BY DEF Done
<1>3. \A k : k # "none" => ~Succeeded(Fail(k)) BY DEF Fail, Succeeded
<1>4. \A o \in Trouble : ~Succeeded(o) BY <1>3 DEF Trouble
<1> QED BY <1>1, <1>2, <1>3, <1>4

\* The first failure is one.
LEMMA FirstFailureFails ==
  ASSUME NEW os, DOMAIN os \subseteq Nat, Failed(os) # {}
  PROVE  ~Succeeded(FirstFailure(os))
<1>1. Failed(os) \subseteq Nat
  BY DEF Failed
<1>2. \E i \in Failed(os) : \A j \in Failed(os) : i <= j
  BY <1>1, LeastNat
<1> QED BY <1>2 DEF FirstFailure, Failed

\* Each succeeds when all do, with what each made.
LEMMA EachSucceeds ==
  ASSUME NEW outs, DOMAIN outs \subseteq Nat, NEW o \in Each(outs), Succeeded(o)
  PROVE  \E os \in Ways(outs) :
           /\ \A i \in DOMAIN outs : os[i] \in outs[i] /\ Succeeded(os[i])
           /\ o = Done([i \in DOMAIN outs |-> os[i].docs])
<1>1. PICK os \in Ways(outs) :
        o = IF Failed(os) # {} THEN FirstFailure(os) ELSE Done([i \in DOMAIN os |-> os[i].docs])
  BY DEF Each
<1>2. DOMAIN os = DOMAIN outs /\ \A i \in DOMAIN outs : os[i] \in outs[i]
  BY DEF Ways
<1>3. Failed(os) = {}
  BY <1>1, <1>2, FirstFailureFails
<1>4. \A i \in DOMAIN outs : Succeeded(os[i])
  BY <1>2, <1>3 DEF Failed
<1> QED BY <1>1, <1>2, <1>3, <1>4

\* Another name for a failure changes no success.
LEMMA AsInternalSucceeds ==
  ASSUME NEW outs, NEW o \in AsInternal(outs), Succeeded(o)
  PROVE  o \in outs
BY Outcomes DEF AsInternal

\* One outcome for all the files.
LEMMA WholeSucceeds ==
  ASSUME NEW outs, NEW o \in Whole(outs), Succeeded(o)
  PROVE  \E a \in outs : Succeeded(a) /\ o = Done(<<a.docs>>)
BY DEF Whole

\* One document of each.
LEMMA SinglesSucceed ==
  ASSUME NEW outs, NEW o \in Singles(outs), Succeeded(o)
  PROVE  \E a \in outs : Succeeded(a) /\ o = Done([i \in DOMAIN a.docs |-> a.docs[i][1]])
BY DEF Singles

\* What opens is not locked, and is the document.
LEMMA OpenSucceeds ==
  ASSUME NEW d, NEW o \in Open(d), Succeeded(o)
  PROVE  ~NeedsPassword(d) /\ o = Done(<<Unlocked(d)>>)
BY Outcomes DEF Open

\* Merge: no file is locked, and their pages are in a row.
LEMMA MergeSucceeds ==
  ASSUME NEW ds, DOMAIN ds = 1..Len(ds), Len(ds) \in Nat, NEW o \in Merge(ds), Succeeded(o)
  PROVE  /\ \A i \in DOMAIN ds : ~NeedsPassword(ds[i])
         /\ Len(ds) # 0
         /\ o = Done(<<IF Len(ds) = 1 THEN Unlocked(ds[1])
                       ELSE Joined([i \in DOMAIN ds |-> Unlocked(ds[i])])>>)
<1> DEFINE opens == [i \in DOMAIN ds |-> Open(ds[i])]
<1>0. ds # <<>> /\ DOMAIN opens = DOMAIN ds
  BY Outcomes DEF Merge
<1>1. PICK os \in Ways(opens) :
        o = IF Failed(os) # {} THEN FirstFailure(os)
            ELSE Done(<<IF Len(ds) = 1 THEN os[1].docs[1]
                        ELSE Joined([i \in DOMAIN ds |-> os[i].docs[1]])>>)
  BY <1>0 DEF Merge, Opened
<1>2. DOMAIN os = DOMAIN ds /\ \A i \in DOMAIN ds : os[i] \in Open(ds[i])
  BY DEF Ways
<1>3. Failed(os) = {}
  BY <1>1, <1>2, FirstFailureFails
<1>4. \A i \in DOMAIN ds : Succeeded(os[i])
  BY <1>2, <1>3 DEF Failed
<1>5. \A i \in DOMAIN ds : ~NeedsPassword(ds[i]) /\ os[i].docs[1] = Unlocked(ds[i])
  BY <1>2, <1>4, OpenSucceeds, Outcomes
<1>6. Len(ds) # 0
  BY <1>0
<1>7. [i \in DOMAIN ds |-> os[i].docs[1]] = [i \in DOMAIN ds |-> Unlocked(ds[i])]
  BY <1>5
<1>8. Len(ds) = 1 => os[1].docs[1] = Unlocked(ds[1])
  BY <1>5
<1>9. o = Done(<<IF Len(ds) = 1 THEN os[1].docs[1]
                 ELSE Joined([i \in DOMAIN ds |-> Unlocked(ds[i])])>>)
  BY <1>1, <1>3, <1>7
<1>10. o = Done(<<IF Len(ds) = 1 THEN Unlocked(ds[1])
                  ELSE Joined([i \in DOMAIN ds |-> Unlocked(ds[i])])>>)
  BY <1>8, <1>9
<1> QED BY <1>5, <1>6, <1>10

\* The operations of one document: it is not locked, and one comes of it.
LEMMA FlattenSucceeds ==
  ASSUME NEW d, NEW o \in Flatten(d), Succeeded(o)
  PROVE  ~NeedsPassword(d) /\ o = Done(<<Flattened(Unlocked(d))>>)
<1>1. PICK a \in Open(d) : Succeeded(a) /\ o = Done(<<Flattened(a.docs[1])>>)
  BY DEF Flatten, Bind
<1> QED BY <1>1, OpenSucceeds, Outcomes

LEMMA RotateSucceeds ==
  ASSUME NEW d, NEW rs, NEW angle, NEW o \in Rotate(d, rs, angle), Succeeded(o)
  PROVE  ~NeedsPassword(d) /\ o = Done(<<Turned(Unlocked(d), rs, (angle % 360) \div 90)>>)
<1>1. PICK a \in Open(d) : Succeeded(a) /\ o = Done(<<Turned(a.docs[1], rs, (angle % 360) \div 90)>>)
  BY Outcomes DEF Rotate, Bind
<1> QED BY <1>1, OpenSucceeds, Outcomes

LEMMA WatermarkSucceeds ==
  ASSUME NEW d, NEW opts, NEW o \in Watermark(d, opts), Succeeded(o)
  PROVE  ~NeedsPassword(d) /\ o = Done(<<Drawn(Unlocked(d), opts)>>)
<1>1. PICK a \in Open(d) : Succeeded(a) /\ o = Done(<<Drawn(a.docs[1], opts)>>)
  BY Outcomes DEF Watermark, Bind
<1> QED BY <1>1, OpenSucceeds, Outcomes

LEMMA WriteMetadataSucceeds ==
  ASSUME NEW d, NEW meta, NEW o \in WriteMetadata(d, meta), Succeeded(o)
  PROVE  ~NeedsPassword(d) /\ o = Done(<<Titled(Unlocked(d), meta.title)>>)
<1>1. PICK a \in Open(d) : Succeeded(a) /\ o = Done(<<Titled(a.docs[1], meta.title)>>)
  BY Outcomes DEF WriteMetadata, Bind
<1> QED BY <1>1, OpenSucceeds, Outcomes

LEMMA ReadMetadataSucceeds ==
  ASSUME NEW d, NEW o \in ReadMetadata(d), Succeeded(o)
  PROVE  ~NeedsPassword(d)
<1>1. PICK a \in Open(d) : Succeeded(a)
  BY DEF ReadMetadata, Bind
<1> QED BY <1>1, OpenSucceeds

LEMMA SplitSucceeds ==
  ASSUME NEW d, NEW mode, NEW o \in Split(d, mode), Succeeded(o)
  PROVE  /\ ~NeedsPassword(d)
         /\ LET cs == Chunks(mode, Len(Unlocked(d).pages))
            IN  o = Done([i \in DOMAIN cs |-> Keep(Unlocked(d), cs[i])])
<1>1. PICK a \in Open(d) :
        /\ Succeeded(a)
        /\ o = Done([i \in DOMAIN Chunks(mode, Len(a.docs[1].pages)) |->
                       Keep(a.docs[1], Chunks(mode, Len(a.docs[1].pages))[i])])
  BY Outcomes DEF Split, Bind
<1>2. ~NeedsPassword(d) /\ a.docs[1] = Unlocked(d)
  BY <1>1, OpenSucceeds, Outcomes
<1> QED BY <1>1, <1>2

\* The tools that are run.
LEMMA QpdfSucceeds ==
  ASSUME NEW d, NEW o \in Qpdf(d), Succeeded(o)
  PROVE  ~NeedsPassword(d) /\ o = Done(<<Renumbered(d)>>)
BY Outcomes DEF Qpdf

LEMMA GhostscriptSucceeds ==
  ASSUME NEW d, IsDocument(d), NEW o \in Ghostscript(d), Succeeded(o)
  PROVE  /\ ~NeedsPassword(d)
         /\ \E outline, form, files :
              IsSequence(outline) /\ o = Done(<<Printed(d, outline, form, files)>>)
<1>1. o \notin Trouble
  BY Outcomes
<1>2. ~NeedsPassword(d)
  BY <1>1 DEF Ghostscript
<1>3. \E outline \in {<<>>, Renumbered(d).outline}, form \in {FALSE, d.form}, files \in {{}, d.files} :
        o = Done(<<Printed(d, outline, form, files)>>)
  BY <1>1, <1>2 DEF Ghostscript
<1>4. IsSequence(<<>>) /\ IsSequence(Renumbered(d).outline)
  <2>1. IsDocument(Renumbered(d))
    BY RenumberedFacts
  <2> QED BY <2>1, EmptySeq DEF IsSequence, IsDocument
<1> QED BY <1>2, <1>3, <1>4

LEMMA OptimiseSucceeds ==
  ASSUME NEW d, NEW backend, NEW o \in OptimisePdf(d, backend), Succeeded(o)
  PROVE  o \in Qpdf(d) \cup Ghostscript(d)
BY DEF OptimisePdf

LEMMA ConvertSucceeds ==
  ASSUME NEW d, NEW o \in ConvertToPdfA(d), Succeeded(o)
  PROVE  o \in Qpdf(d) \cup Ghostscript(d)
BY Outcomes DEF ConvertToPdfA

LEMMA EncryptSucceeds ==
  ASSUME NEW d, NEW user, NEW owner, NEW o \in EncryptPdf(d, user, owner), Succeeded(o)
  PROVE  ~NeedsPassword(d) /\ o = Done(<<Secured(d, user, owner)>>)
BY Outcomes DEF EncryptPdf

LEMMA DecryptSucceeds ==
  ASSUME NEW d, NEW password, NEW o \in DecryptPdf(d, password), Succeeded(o)
  PROVE  /\ NeedsPassword(d) => password \in {d.user, d.owner}
         /\ o = Done(<<Renumbered(Unlocked(d))>>)
BY Outcomes DEF DecryptPdf, Locked, NeedsPassword

LEMMA WriteBookmarksSucceeds ==
  ASSUME NEW d, NEW bs, NEW o \in WriteBookmarks(d, bs), Succeeded(o)
  PROVE  o = Done(<<WithBookmarks(d, bs)>>)
BY Outcomes DEF WriteBookmarks

LEMMA ReadBookmarksSucceeds ==
  ASSUME NEW d, NEW o \in ReadBookmarks(d), Succeeded(o), NeedsPassword(d)
  PROVE  o = Done(<<<<>>>>)
BY Outcomes DEF ReadBookmarks

LEMMA OfficeConvertSucceeds ==
  ASSUME NEW d, NEW o \in OfficeConvert(d), Succeeded(o)
  PROVE  ~NeedsPassword(d) /\ o = Done(<<Printout(d)>>)
BY Outcomes DEF OfficeConvert

LEMMA AttachSucceeds ==
  ASSUME NEW d, NEW names, NEW o \in Attach(d, names), Succeeded(o)
  PROVE  ~NeedsPassword(d) /\ o = Done(<<Attached(Renumbered(d), names)>>)
<1>1. PICK a \in Qpdf(d) : Succeeded(a) /\ o = Done(<<Attached(a.docs[1], names)>>)
  BY Outcomes DEF Attach, Bind
<1> QED BY <1>1, QpdfSucceeds, Outcomes

-----------------------------------------------------------------------------
(* What the fields of a form make of a document, and the chunks of split.  *)

Asked(f, d) ==
  /\ f.user # Absent => NeedsPassword(d) /\ d.user = f.user
  /\ f.owner # Absent => d.owner = f.owner
TitleAsked(f, d) == (f.meta /\ f.title # "-") => d.title = f.title

\* The password fields of a form: an unlocked document comes back with just those.
LEMMA ApplyEncryptionSucceeds ==
  ASSUME NEW d, IsDocument(d), NEW f, NEW o \in ApplyEncryption(d, f), Succeeded(o)
  PROVE  \E r : o = Done(<<r>>) /\ IsDocument(r) /\ r.title = d.title /\ r.pages = d.pages /\ Asked(f, r)
<1>1. CASE f.user = Absent /\ f.owner = Absent
  <2>1. o = Done(<<d>>)
    BY <1>1 DEF ApplyEncryption
  <2> QED BY <1>1, <2>1 DEF Asked
<1>2. CASE ~(f.user = Absent /\ f.owner = Absent)
  <2>1. o \in AsInternal(EncryptPdf(d, f.user, f.owner))
    BY <1>2 DEF ApplyEncryption
  <2>2. o = Done(<<Secured(d, f.user, f.owner)>>)
    BY <2>1, AsInternalSucceeds, EncryptSucceeds
  <2> QED BY <2>2, SecuredFacts DEF Asked, NeedsPassword
<1> QED BY <1>1, <1>2

\* The metadata field: the title that was asked for.
LEMMA MetadataFieldSucceeds ==
  ASSUME NEW d, IsDocument(d), NEW f, NEW o \in MetadataField(d, f), Succeeded(o)
  PROVE  \E r : o = Done(<<r>>) /\ IsDocument(r) /\ r.pages = d.pages /\ TitleAsked(f, r)
<1>1. CASE ~f.meta
  BY <1>1 DEF MetadataField, TitleAsked
<1>2. CASE f.meta
  <2>1. o \in WriteMetadata(d, Meta(f))
    BY <1>2, Outcomes DEF MetadataField
  <2>2. o = Done(<<Titled(Unlocked(d), f.title)>>)
    BY <2>1, WriteMetadataSucceeds DEF Meta
  <2> QED BY <2>2, UnlockedFacts, TitledFacts DEF TitleAsked
<1> QED BY <1>1, <1>2

\* Metadata before passwords, so both are kept.
LEMMA FinishedSucceeds ==
  ASSUME NEW d, IsDocument(d), NEW f, NEW o \in Finished(d, f), Succeeded(o)
  PROVE  \E r : o = Done(<<r>>) /\ IsDocument(r) /\ r.pages = d.pages /\ Asked(f, r) /\ TitleAsked(f, r)
<1>1. PICK a \in MetadataField(d, f) : Succeeded(a) /\ o \in ApplyEncryption(a.docs[1], f)
  BY DEF Finished, Bind
<1>2. PICK x : a = Done(<<x>>) /\ IsDocument(x) /\ x.pages = d.pages /\ TitleAsked(f, x)
  BY <1>1, MetadataFieldSucceeds
<1>3. a.docs[1] = x
  BY <1>2, Outcomes
<1>4. PICK r : o = Done(<<r>>) /\ IsDocument(r) /\ r.title = x.title /\ r.pages = x.pages /\ Asked(f, r)
  BY <1>1, <1>2, <1>3, ApplyEncryptionSucceeds
<1> QED BY <1>2, <1>4 DEF TitleAsked

\* The pages of documents, one after the other.
PageList(ds) == [i \in DOMAIN ds |-> ds[i].pages]
PagesOf(ds) == FlattenSeq(PageList(ds))

\* One sequence in a row is that sequence.
LEMMA FlattenOne ==
  ASSUME NEW seqs, DOMAIN seqs = {1}, Len(seqs) = 1
  PROVE  FlattenSeq(seqs) = seqs[1]
<1>1. PICK g : Flats(g, seqs, Len(seqs)) /\ FlattenSeq(seqs) = g[Len(seqs)]
  <2>1. Len(seqs) \in Nat \ {0}
    OBVIOUS
  <2> QED BY <2>1, FlattenIs
<1>2. g[1] = seqs[1]
  BY <1>1 DEF Flats
<1> QED BY <1>1, <1>2

\* The pages of one document.
LEMMA PagesOfOne ==
  ASSUME NEW ds, DOMAIN ds = 1..1
  PROVE  PagesOf(ds) = ds[1].pages
<1> DEFINE l == PageList(ds)
<1>1. DOMAIN l = {1} /\ Len(l) = 1 /\ l[1] = ds[1].pages
  BY DEF PageList
<1> HIDE DEF l
<1>2. FlattenSeq(l) = ds[1].pages
  BY <1>1, FlattenOne
<1> QED BY <1>2 DEF PagesOf, l

\* The same pages, or the same without what the page tree lent them.
Same(ps, qs) == ps = qs \/ ps = Severed(qs)

\* A merge of documents makes one document, of no locked one: all their pages.
LEMMA MergeMakes ==
  ASSUME NEW ds, DOMAIN ds = 1..Len(ds), Len(ds) \in Nat, \A i \in DOMAIN ds : IsDocument(ds[i]),
         NEW o \in Merge(ds), Succeeded(o)
  PROVE  /\ \A i \in DOMAIN ds : ~NeedsPassword(ds[i])
         /\ Len(ds) # 0
         /\ \E r : o = Done(<<r>>) /\ IsDocument(r) /\ Same(r.pages, PagesOf(ds))
<1> DEFINE us == [i \in DOMAIN ds |-> Unlocked(ds[i])]
<1>1. /\ \A i \in DOMAIN ds : ~NeedsPassword(ds[i])
      /\ Len(ds) # 0
      /\ o = Done(<<IF Len(ds) = 1 THEN Unlocked(ds[1]) ELSE Joined(us)>>)
  BY MergeSucceeds
<1>2. Len(us) = Len(ds) /\ DOMAIN us = 1..Len(ds)
      /\ \A i \in DOMAIN us : IsDocument(us[i]) /\ us[i].pages = ds[i].pages
  BY UnlockedFacts
<1> HIDE DEF us
<1>3. IsDocument(Joined(us)) /\ Joined(us).pages = Severed(PagesOf(ds))
  <2>1. IsDocument(Joined(us)) /\ Joined(us).pages = Severed(FlattenSeq([i \in DOMAIN us |-> us[i].pages]))
    BY <1>1, <1>2, JoinedFacts
  <2>2. [i \in DOMAIN us |-> us[i].pages] = [i \in DOMAIN ds |-> ds[i].pages]
    BY <1>2
  <2> QED BY <2>1, <2>2 DEF PagesOf, PageList
<1>4. Len(ds) = 1 => IsDocument(Unlocked(ds[1])) /\ Unlocked(ds[1]).pages = PagesOf(ds)
  BY UnlockedFacts, PagesOfOne
<1> QED BY <1>1, <1>3, <1>4 DEF Same

\* The bookmarks of a document are a sequence, as long as its outline.
LEMMA BookmarksOfFacts ==
  ASSUME NEW d, IsDocument(d), NEW b \in BookmarksOf(d)
  PROVE  IsSequence(b) /\ DOMAIN b = DOMAIN d.outline
<1>1. PICK page : b = [i \in DOMAIN d.outline |->
                        [title |-> d.outline[i].title, level |-> d.outline[i].level, page |-> page[i]]]
  BY DEF BookmarksOf
<1>2. DOMAIN b = DOMAIN d.outline /\ b = [k \in DOMAIN b |-> b[k]]
  BY <1>1
<1> QED BY <1>2, SequenceChanged DEF IsDocument

\* The lists of bookmarks of the files, one for each.
AreLists(lists, ds) ==
  DOMAIN lists = DOMAIN ds /\ \A i \in DOMAIN ds : IsSequence(lists[i])

\* The bookmarks that are read of a file that is not locked.
LEMMA ReadBookmarksMakes ==
  ASSUME NEW d, IsDocument(d), NEW o \in ReadBookmarks(d), Succeeded(o)
  PROVE  /\ IsSequence(o.docs[1])
         /\ ~Locked(d) => o.docs[1] \in BookmarksOf(d)
<1>1. \/ Locked(d) /\ o = Done(<<<<>>>>)
      \/ \E b \in BookmarksOf(d) : o = Done(<<b>>)
  BY Outcomes DEF ReadBookmarks
<1>2. \/ Locked(d) /\ o.docs[1] = <<>>
      \/ o.docs[1] \in BookmarksOf(d)
  BY <1>1, Outcomes
<1>3. IsSequence(<<>>)
  BY EmptySeq DEF IsSequence
<1> QED BY <1>2, <1>3, BookmarksOfFacts

\* Those of all the files, for a merge.
LEMMA BookmarkListsMake ==
  ASSUME NEW f, NEW ds, Len(ds) \in Nat, DOMAIN ds = 1..Len(ds), \A i \in DOMAIN ds : IsDocument(ds[i]),
         NEW o \in BookmarkLists(f, ds), Succeeded(o), f.auto
  PROVE  /\ AreLists(o.docs, ds)
         /\ \A i \in DOMAIN ds : ~Locked(ds[i]) => o.docs[i] \in BookmarksOf(ds[i])
<1> DEFINE outs == [i \in DOMAIN ds |-> ReadBookmarks(ds[i])]
<1>1. PICK a \in Each(outs) : Succeeded(a) /\ o = Done([i \in DOMAIN a.docs |-> a.docs[i][1]])
  BY SinglesSucceed DEF BookmarkLists
<1>2. DOMAIN outs = DOMAIN ds /\ DOMAIN outs \subseteq Nat /\ \A i \in DOMAIN ds : outs[i] = ReadBookmarks(ds[i])
  OBVIOUS
<1> HIDE DEF outs
<1>3. PICK os \in Ways(outs) :
        /\ \A i \in DOMAIN outs : os[i] \in outs[i] /\ Succeeded(os[i])
        /\ a = Done([i \in DOMAIN outs |-> os[i].docs])
  BY <1>1, <1>2, EachSucceeds
<1>4. a.docs = [i \in DOMAIN ds |-> os[i].docs]
  BY <1>2, <1>3, Outcomes
<1>5. o.docs = [i \in DOMAIN ds |-> os[i].docs[1]]
  BY <1>1, <1>4, Outcomes
<1>6. ASSUME NEW i \in DOMAIN ds
      PROVE  IsSequence(o.docs[i]) /\ (~Locked(ds[i]) => o.docs[i] \in BookmarksOf(ds[i]))
  <2> DEFINE b == os[i]
  <2>1. b \in ReadBookmarks(ds[i]) /\ Succeeded(b) /\ IsDocument(ds[i])
    BY <1>2, <1>3
  <2>2. o.docs[i] = b.docs[1]
    BY <1>5
  <2> HIDE DEF b
  <2> QED BY <2>1, <2>2, ReadBookmarksMakes
<1>7. DOMAIN o.docs = DOMAIN ds
  BY <1>5
<1> QED BY <1>6, <1>7 DEF AreLists

\* A sequence is as long as its domain.
LEMMA SequenceFacts ==
  ASSUME NEW s, IsSequence(s)
  PROVE  Len(s) \in Nat /\ DOMAIN s = 1..Len(s) /\ s \in Seq(Range(s))
BY LenProperties DEF IsSequence

\* Sequences in a row, whatever they are of.
LEMMA SequencesInARow ==
  ASSUME NEW seqs, DOMAIN seqs = 1..Len(seqs), Len(seqs) \in Nat \ {0},
         \A i \in DOMAIN seqs : IsSequence(seqs[i])
  PROVE  IsSequence(FlattenSeq(seqs))
<1> DEFINE S == UNION {Range(seqs[i]) : i \in DOMAIN seqs}
           whole == FlattenSeq(seqs)
<1>1. ASSUME NEW i \in DOMAIN seqs PROVE seqs[i] \in Seq(S)
  <2>1. seqs[i] \in Seq(Range(seqs[i])) /\ Range(seqs[i]) \subseteq S
    BY DEF IsSequence
  <2> QED BY <2>1, SeqMonotonic
<1>2. whole \in Seq(S)
  BY <1>1, FlattenSequence
<1> HIDE DEF S, whole
<1>3. whole \in [1..Len(whole) -> Range(whole)] /\ Len(whole) \in Nat
  BY <1>2, LenProperties DEF Range
<1> QED BY <1>3, SeqDef DEF IsSequence, whole

\* The bookmarks of the files in a row.
LEMMA ReindexedFacts ==
  ASSUME NEW lists, NEW ds, Len(ds) \in Nat \ {0}, DOMAIN ds = 1..Len(ds), AreLists(lists, ds)
  PROVE  IsSequence(Reindexed(lists, ds))
<1> DEFINE moved(i) == [k \in DOMAIN lists[i] |->
                          IF lists[i][k].level = 1 THEN [lists[i][k] EXCEPT !.page = @ + PagesBefore(ds, i)]
                          ELSE lists[i][k]]
           seqs == [i \in DOMAIN ds |-> moved(i)]
<1>1. Reindexed(lists, ds) = FlattenSeq(seqs)
  BY DEF Reindexed
<1>2. ASSUME NEW i \in DOMAIN ds PROVE IsSequence(moved(i))
  <2>1. DOMAIN moved(i) = DOMAIN lists[i] /\ moved(i) = [k \in DOMAIN moved(i) |-> moved(i)[k]]
    OBVIOUS
  <2>2. IsSequence(lists[i])
    BY DEF AreLists
  <2> HIDE DEF moved
  <2> QED BY <2>1, <2>2, SequenceChanged
<1> HIDE DEF moved
<1>3. DOMAIN seqs = 1..Len(seqs) /\ Len(seqs) = Len(ds) /\ \A i \in DOMAIN seqs : IsSequence(seqs[i])
  BY <1>2
<1> HIDE DEF seqs
<1> QED BY <1>1, <1>3, SequencesInARow

\* The bookmarks field of a merge: a document comes of it.
LEMMA BookmarksFieldSucceeds ==
  ASSUME NEW d, IsDocument(d), NEW f, IsSequence(f.marks), NEW lists, NEW ds,
         Len(ds) \in Nat \ {0}, DOMAIN ds = 1..Len(ds), f.auto => AreLists(lists, ds),
         NEW o \in BookmarksField(d, f, lists, ds), Succeeded(o)
  PROVE  \E r : o = Done(<<r>>) /\ IsDocument(r) /\ r.title = d.title /\ r.pages = d.pages
<1>1. o = Done(<<d>>) \/ \E bs : IsSequence(bs) /\ o \in WriteBookmarks(d, bs)
  BY ReindexedFacts DEF BookmarksField
<1>2. o = Done(<<d>>) \/ \E bs : IsSequence(bs) /\ o = Done(<<WithBookmarks(d, bs)>>)
  BY <1>1, WriteBookmarksSucceeds
<1>3. CASE o = Done(<<d>>)
  BY <1>3
<1>4. CASE \E bs : IsSequence(bs) /\ o = Done(<<WithBookmarks(d, bs)>>)
  <2>1. PICK bs : IsSequence(bs) /\ o = Done(<<WithBookmarks(d, bs)>>)
    BY <1>4
  <2> QED BY <2>1, WithBookmarksFacts
<1> QED BY <1>2, <1>3, <1>4

\* The merge route: one document, of no locked file, with what the form asks.
LEMMA MergeFilesSucceed ==
  ASSUME NEW f, IsSequence(f.marks), NEW ds, DOMAIN ds = 1..Len(ds), Len(ds) \in Nat, \A i \in DOMAIN ds : IsDocument(ds[i]),
         NEW o \in MergeFiles(f, ds), Succeeded(o)
  PROVE  /\ \A i \in DOMAIN ds : ~NeedsPassword(ds[i])
         /\ \E r : /\ o = Done(<<<<r>>>>) /\ IsDocument(r) /\ Asked(f, r) /\ TitleAsked(f, r)
                   /\ Same(r.pages, PagesOf(ds))
<1>1. PICK b \in Then(BookmarkLists(f, ds), LAMBDA lists : MergeWith(f, ds, lists)) :
        Succeeded(b) /\ o = Done(<<b.docs>>)
  BY WholeSucceeds DEF MergeFiles
<1>2. PICK l \in BookmarkLists(f, ds) : Succeeded(l) /\ b \in MergeWith(f, ds, l.docs)
  BY <1>1 DEF Then
<1> DEFINE lists == l.docs
<1>14. f.auto => AreLists(lists, ds)
  BY <1>2, BookmarkListsMake
<1> HIDE DEF lists
<1>3. PICK m \in Merge(ds) :
        /\ Succeeded(m)
        /\ b \in Bind(MetadataField(m.docs[1], f), LAMBDA x :
                   IF f.bad = "bookmarks" THEN {Fail("InvalidField")}
                   ELSE Bind(BookmarksField(x, f, lists, ds), LAMBDA y : ApplyEncryption(y, f)))
  BY <1>1, <1>2 DEF MergeWith, Bind, lists
<1>4. PICK a \in MetadataField(m.docs[1], f) :
        /\ Succeeded(a)
        /\ b \in IF f.bad = "bookmarks" THEN {Fail("InvalidField")}
                 ELSE Bind(BookmarksField(a.docs[1], f, lists, ds), LAMBDA y : ApplyEncryption(y, f))
  BY <1>1, <1>3 DEF Bind
<1>5. b \in Bind(BookmarksField(a.docs[1], f, lists, ds), LAMBDA y : ApplyEncryption(y, f))
  BY <1>1, <1>4, Outcomes
<1>6. PICK c \in BookmarksField(a.docs[1], f, lists, ds) :
        Succeeded(c) /\ b \in ApplyEncryption(c.docs[1], f)
  BY <1>1, <1>5 DEF Bind
<1>7. /\ \A i \in DOMAIN ds : ~NeedsPassword(ds[i])
      /\ Len(ds) # 0
      /\ \E r : m = Done(<<r>>) /\ IsDocument(r) /\ Same(r.pages, PagesOf(ds))
  BY <1>3, MergeMakes
<1>8. IsDocument(m.docs[1]) /\ Same(m.docs[1].pages, PagesOf(ds))
  BY <1>7, Outcomes
<1>9. PICK x : a.docs[1] = x /\ IsDocument(x) /\ TitleAsked(f, x) /\ Same(x.pages, PagesOf(ds))
  <2> DEFINE z == m.docs[1]
  <2>1. a \in MetadataField(z, f) /\ Succeeded(a) /\ IsDocument(z) /\ Same(z.pages, PagesOf(ds))
    BY <1>4, <1>8
  <2> HIDE DEF z
  <2>2. PICK x : a = Done(<<x>>) /\ IsDocument(x) /\ TitleAsked(f, x) /\ x.pages = z.pages
    BY <2>1, MetadataFieldSucceeds
  <2> QED BY <2>1, <2>2, Outcomes
<1>10. PICK y : c.docs[1] = y /\ IsDocument(y) /\ y.title = x.title /\ y.pages = x.pages
  <2>1. c \in BookmarksField(x, f, lists, ds)
    BY <1>6, <1>9
  <2>2. PICK y : c = Done(<<y>>) /\ IsDocument(y) /\ y.title = x.title /\ y.pages = x.pages
    <3>1. Len(ds) \in Nat \ {0} /\ DOMAIN ds = 1..Len(ds) /\ IsDocument(x)
      BY <1>7, <1>9
    <3> QED BY <1>6, <1>14, <2>1, <3>1, BookmarksFieldSucceeds
  <2> QED BY <2>2, Outcomes
<1>11. PICK r : b = Done(<<r>>) /\ IsDocument(r) /\ r.title = y.title /\ r.pages = y.pages /\ Asked(f, r)
  BY <1>1, <1>6, <1>10, ApplyEncryptionSucceeds
<1>12. TitleAsked(f, r)
  BY <1>9, <1>10, <1>11 DEF TitleAsked
<1>13. b.docs = <<r>>
  BY <1>11, Outcomes
<1>15. Same(r.pages, PagesOf(ds))
  BY <1>9, <1>10, <1>11
<1> QED BY <1>1, <1>7, <1>11, <1>12, <1>13, <1>15

-----------------------------------------------------------------------------

\* First finds nothing when there is nothing to find.
LEMMA FirstNone ==
  ASSUME NEW kinds, DOMAIN kinds \subseteq Nat, First(kinds) = "none"
  PROVE  \A i \in DOMAIN kinds : kinds[i] = "none"
<1> DEFINE raised == {i \in DOMAIN kinds : kinds[i] # "none"}
<1>1. CASE raised # {}
  <2>1. \E i \in raised : \A j \in raised : i <= j
    BY <1>1, LeastNat
  <2>2. kinds[CHOOSE i \in raised : \A j \in raised : i <= j] # "none"
    BY <2>1
  <2> QED BY <1>1, <2>2 DEF First
<1> QED BY <1>1

\* The chunks are sets of pages there are.
ChunksOf(cs, total) ==
  Len(cs) \in Nat /\ DOMAIN cs = 1..Len(cs) /\ \A i \in DOMAIN cs : cs[i] \subseteq 1..total

\* The chunks of n pages.
LEMMA EveryNChunks ==
  ASSUME NEW total \in Nat, NEW n \in Nat \ {0}
  PROVE  ChunksOf(EveryN(total, n), total)
<1> DEFINE K == (total + n - 1) \div n
           cs == EveryN(total, n)
<1>1. K \in Nat
  BY SMT
<1>2. \A c \in 1..K : cs[c] = ((c - 1) * n + 1)..(IF c * n > total THEN total ELSE c * n)
  BY DEF EveryN
<1>3. DOMAIN cs = 1..K /\ Len(cs) = K
  BY <1>1 DEF EveryN
<1> HIDE DEF K, cs
<1>4. ASSUME NEW c \in 1..K PROVE cs[c] \subseteq 1..total
  <2> DEFINE a == (c - 1) * n
             b == c * n
  <2>1. a \in Nat /\ b \in Nat
    BY <1>1
  <2>2. cs[c] = (a + 1)..(IF b > total THEN total ELSE b)
    BY <1>2
  <2> HIDE DEF a, b
  <2> QED BY <2>1, <2>2
<1> QED BY <1>1, <1>3, <1>4 DEF ChunksOf, cs

\* The pages of ranges.
LEMMA SelectedPages ==
  ASSUME NEW rs, NEW total \in Nat
  PROVE  Selected(rs, total) \subseteq 1..total
BY DEF Selected

\* As many elements as places that there are.
LEMMA AtFacts ==
  ASSUME NEW s, NEW N \in Nat, DOMAIN s = 1..N, NEW places \in SUBSET (1..N)
  PROVE  /\ Cardinality(places) \in Nat /\ DOMAIN At(s, places) = 1..Cardinality(places)
         /\ Len(At(s, places)) = Cardinality(places)
         /\ \A k \in 1..Cardinality(places) : Nth(places, k) \in places /\ At(s, places)[k] = s[Nth(places, k)]
<1> DEFINE K == Cardinality(places)
           r == At(s, places)
<1>1. K \in Nat /\ \A k \in 1..K : Nth(places, k) \in places
  BY RankFacts
<1>2. r = [k \in 1..K |-> s[Nth(places, k)]]
  BY DEF At
<1> HIDE DEF K, r
<1>3. DOMAIN r = 1..K /\ Len(r) = K /\ \A k \in 1..K : r[k] = s[Nth(places, k)]
  BY <1>1, <1>2
<1> QED BY <1>1, <1>3 DEF K, r

\* A set in ascending order: its members, each once.
LEMMA AscendingFacts ==
  ASSUME NEW N \in Nat, NEW S \in SUBSET (1..N)
  PROVE  /\ Cardinality(S) \in Nat /\ DOMAIN Ascending(S) = 1..Cardinality(S)
         /\ Len(Ascending(S)) = Cardinality(S)
         /\ \A k \in 1..Cardinality(S) : Ascending(S)[k] = Nth(S, k) /\ Nth(S, k) \in S
<1> DEFINE K == Cardinality(S)
           r == Ascending(S)
<1>1. K \in Nat /\ \A k \in 1..K : Nth(S, k) \in S
  BY RankFacts
<1>2. r = [k \in 1..K |-> Nth(S, k)]
  BY DEF Ascending
<1> HIDE DEF K, r
<1>3. DOMAIN r = 1..K /\ Len(r) = K /\ \A k \in 1..K : r[k] = Nth(S, k)
  BY <1>1, <1>2
<1> QED BY <1>1, <1>3 DEF K, r

\* What the modes of the code look like.
ModeIsRight(mode) ==
  \/ mode.kind = "every" /\ mode.n \in Nat
  \/ mode.kind = "pages" /\ Len(mode.pages) \in Nat /\ DOMAIN mode.pages = 1..Len(mode.pages)
  \/ mode.kind = "ranges" /\ Len(mode.chunks) \in Nat /\ DOMAIN mode.chunks = 1..Len(mode.chunks)

\* The chunks of every mode.
LEMMA ChunksFacts ==
  ASSUME NEW mode, ModeIsRight(mode), NEW total \in Nat, ~(mode.kind = "every" /\ mode.n = 0)
  PROVE  ChunksOf(Chunks(mode, total), total)
<1>1. CASE mode.kind = "every"
  BY <1>1, EveryNChunks DEF ModeIsRight, Chunks
<1>2. CASE mode.kind = "pages"
  <2> DEFINE places == {n \in DOMAIN mode.pages : mode.pages[n] \in 1..total}
             there == At(mode.pages, places)
             cs == [i \in DOMAIN there |-> {there[i]}]
  <2>1. Chunks(mode, total) = cs
    BY <1>2 DEF Chunks
  <2>2. Len(mode.pages) \in Nat /\ DOMAIN mode.pages = 1..Len(mode.pages)
    BY <1>2 DEF ModeIsRight
  <2>3. /\ Cardinality(places) \in Nat /\ DOMAIN there = 1..Cardinality(places)
        /\ \A k \in 1..Cardinality(places) : Nth(places, k) \in places /\ there[k] = mode.pages[Nth(places, k)]
    <3> DEFINE list == mode.pages
               N == Len(list)
    <3>1. N \in Nat /\ DOMAIN list = 1..N /\ places \in SUBSET (1..N)
      BY <2>2
    <3>2. there = At(list, places)
      OBVIOUS
    <3> HIDE DEF list, N, places, there
    <3>3. /\ Cardinality(places) \in Nat /\ DOMAIN At(list, places) = 1..Cardinality(places)
          /\ \A k \in 1..Cardinality(places) : Nth(places, k) \in places /\ At(list, places)[k] = list[Nth(places, k)]
      BY <3>1, AtFacts
    <3> QED BY <3>2, <3>3 DEF list
  <2>4. \A k \in DOMAIN there : there[k] \in 1..total
    BY <2>3
  <2> HIDE DEF places, there
  <2>5. Len(cs) = Cardinality(places) /\ DOMAIN cs = 1..Cardinality(places) /\ \A i \in DOMAIN cs : cs[i] \subseteq 1..total
    BY <2>3, <2>4
  <2> HIDE DEF cs
  <2> QED BY <2>1, <2>3, <2>5 DEF ChunksOf
<1>3. CASE mode.kind = "ranges"
  <2> DEFINE chosen == [i \in DOMAIN mode.chunks |-> Selected(mode.chunks[i], total)]
             places == {i \in DOMAIN chosen : chosen[i] # {}}
             cs == At(chosen, places)
  <2>1. Chunks(mode, total) = cs
    BY <1>3 DEF Chunks
  <2>2. Len(mode.chunks) \in Nat /\ DOMAIN mode.chunks = 1..Len(mode.chunks)
    BY <1>3 DEF ModeIsRight
  <2>3. \A i \in DOMAIN chosen : chosen[i] \subseteq 1..total
    BY SelectedPages
  <2>4. DOMAIN chosen = 1..Len(mode.chunks) /\ places \in SUBSET (1..Len(mode.chunks))
    BY <2>2
  <2> HIDE DEF chosen, places
  <2>5. /\ Cardinality(places) \in Nat /\ DOMAIN cs = 1..Cardinality(places) /\ Len(cs) = Cardinality(places)
        /\ \A k \in 1..Cardinality(places) : Nth(places, k) \in places /\ cs[k] = chosen[Nth(places, k)]
    BY <2>2, <2>4, AtFacts
  <2> HIDE DEF cs
  <2> QED BY <2>1, <2>3, <2>4, <2>5 DEF ChunksOf
<1> QED BY <1>1, <1>2, <1>3 DEF ModeIsRight

\* A split makes documents, of no locked one.
LEMMA SplitMakes ==
  ASSUME NEW d, IsDocument(d), NEW mode, ModeIsRight(mode), NEW o \in Split(d, mode), Succeeded(o)
  PROVE  /\ ~NeedsPassword(d)
         /\ Len(o.docs) \in Nat /\ DOMAIN o.docs = 1..Len(o.docs)
         /\ \A c \in DOMAIN o.docs : IsDocument(o.docs[c])
<1> DEFINE u == Unlocked(d)
           N == Len(u.pages)
           cs == Chunks(mode, N)
<1>1. ~NeedsPassword(d) /\ o = Done([i \in DOMAIN cs |-> Keep(u, cs[i])])
  BY SplitSucceeds
<1>2. o.docs = [i \in DOMAIN cs |-> Keep(u, cs[i])]
  BY <1>1, Outcomes
<1>3. ~(mode.kind = "every" /\ mode.n = 0)
  BY Outcomes DEF Split
<1>4. IsDocument(u)
  BY UnlockedFacts
<1>5. N \in Nat /\ DOMAIN u.pages = 1..N
  BY <1>4, LenProperties DEF IsDocument, ArePages
<1> HIDE DEF u, N
<1>6. Len(cs) \in Nat /\ DOMAIN cs = 1..Len(cs) /\ \A i \in DOMAIN cs : cs[i] \subseteq 1..N
  BY <1>3, <1>5, ChunksFacts DEF ChunksOf
<1> HIDE DEF cs
<1>7. \A i \in DOMAIN cs : IsDocument(Keep(u, cs[i]))
  BY <1>4, <1>5, <1>6, KeepFacts
<1> QED BY <1>1, <1>2, <1>6, <1>7

\* The modes that the routes and the command accept.
LEMMA SplitModeRight ==
  ASSUME NEW f, NEW d, IsDocument(d), f.mode = "intervals" => f.span \in Nat
  PROVE  ModeIsRight(SplitMode(f, d))
<1>1. CASE f.mode = "intervals"
  BY <1>1 DEF SplitMode, ModeIsRight
<1>2. CASE f.mode # "intervals"
  <2> DEFINE N == Len(d.pages)
             S == Selected(f.ranges, N)
             m == SplitMode(f, d)
  <2>1. m = [kind |-> "pages", pages |-> Ascending(S)]
    BY <1>2 DEF SplitMode
  <2>2. N \in Nat
    BY LenProperties DEF IsDocument, ArePages
  <2>3. S \in SUBSET (1..N)
    BY <2>2, SelectedPages
  <2> HIDE DEF m, N, S
  <2>4. Len(Ascending(S)) \in Nat /\ DOMAIN Ascending(S) = 1..Len(Ascending(S))
    BY <2>2, <2>3, AscendingFacts
  <2>5. m.kind = "pages" /\ m.pages = Ascending(S)
    BY <2>1
  <2>6. ModeIsRight(m)
    BY <2>4, <2>5 DEF ModeIsRight
  <2> QED BY <2>6 DEF m
<1> QED BY <1>1, <1>2

-----------------------------------------------------------------------------
(* A sequence that is cut into pieces.                                     *)

\* What comes after place a of a sequence, up to place b.
Piece(s, a, b) == [k \in 1..(b - a) |-> s[a + k]]

\* A piece of a sequence is one.
LEMMA PieceFacts ==
  ASSUME NEW s, IsSequence(s), NEW a \in Nat, NEW b \in Nat, a <= b, b <= Len(s)
  PROVE  /\ Piece(s, a, b) \in Seq(Range(s)) /\ Len(Piece(s, a, b)) = b - a
         /\ DOMAIN Piece(s, a, b) = 1..(b - a)
<1> DEFINE r == Piece(s, a, b)
           n == b - a
<1>1. n \in Nat /\ \A k \in 1..n : a + k \in 1..Len(s) /\ a + k \in DOMAIN s
  BY SequenceFacts
<1>2. r = [k \in 1..n |-> s[a + k]]
  BY DEF Piece
<1>3. \A k \in 1..n : s[a + k] \in Range(s)
  BY <1>1 DEF Range
<1>4. r \in [1..n -> Range(s)]
  BY <1>2, <1>3
<1> HIDE DEF n, r
<1> QED BY <1>1, <1>4, SeqDef, LenProperties DEF n, r

\* The elements at places in a row are a piece.
LEMMA PieceAt ==
  ASSUME NEW s, NEW N \in Nat, DOMAIN s = 1..N, NEW a \in Nat, NEW b \in Nat, a <= b, b <= N
  PROVE  At(s, (a + 1)..b) = Piece(s, a, b)
<1> DEFINE I == (a + 1)..b
<1>1. Cardinality(I) = b - a
  <2>1. a + 1 \in Int /\ b \in Int
    OBVIOUS
  <2>2. Cardinality(I) = IF a + 1 > b THEN 0 ELSE b - (a + 1) + 1
    BY <2>1, FS_Interval
  <2> HIDE DEF I
  <2> QED BY <2>2
<1>2. ASSUME NEW n \in I PROVE Rank(I, n) = n - a
  <2>1. {m \in I : m <= n} = (a + 1)..n
    OBVIOUS
  <2>2. Cardinality((a + 1)..n) = n - a
    BY FS_Interval
  <2> QED BY <2>1, <2>2 DEF Rank
<1>3. ASSUME NEW k \in 1..(b - a) PROVE Nth(I, k) = a + k
  <2>1. a + k \in I /\ Rank(I, a + k) = k
    <3>1. a + k \in I
      OBVIOUS
    <3> QED BY <3>1, <1>2
  <2>2. \A n \in I : Rank(I, n) = k => n = a + k
    BY <1>2
  <2> HIDE DEF I
  <2> QED BY <2>1, <2>2 DEF Nth
<1> HIDE DEF I
<1>4. At(s, I) = [k \in 1..(b - a) |-> s[Nth(I, k)]]
  BY <1>1 DEF At
<1> QED BY <1>3, <1>4 DEF Piece, I

\* The whole is the elements at all places.
LEMMA WholeAt ==
  ASSUME NEW s, IsSequence(s)
  PROVE  At(s, DOMAIN s) = s
<1>1. Len(s) \in Nat /\ DOMAIN s = 1..Len(s) /\ s \in Seq(Range(s))
  BY SequenceFacts
<1>2. s = [k \in 1..Len(s) |-> s[k]]
  BY <1>1, LenProperties
<1>3. At(s, (0 + 1)..Len(s)) = Piece(s, 0, Len(s))
  BY <1>1, PieceAt
<1>4. Piece(s, 0, Len(s)) = [k \in 1..Len(s) |-> s[k]]
  BY <1>1 DEF Piece
<1> QED BY <1>1, <1>2, <1>3, <1>4

\* N pieces of a sequence, cut at the places b.
Cut(s, N, b, seqs) ==
  /\ b \in [0..N -> 0..Len(s)] /\ b[0] = 0 /\ b[N] = Len(s)
  /\ DOMAIN seqs = 1..N /\ Len(seqs) = N /\ (N = 0 => seqs = <<>>)
  /\ \A c \in 1..N : b[c - 1] <= b[c] /\ seqs[c] = Piece(s, b[c - 1], b[c])

\* In a row they are the sequence.
LEMMA PiecesInARow ==
  ASSUME NEW s, IsSequence(s), NEW N \in Nat, NEW b, NEW seqs, Cut(s, N, b, seqs)
  PROVE  FlattenSeq(seqs) = s
<1>0. Len(s) \in Nat /\ DOMAIN s = 1..Len(s) /\ s \in Seq(Range(s))
  BY SequenceFacts
<1>1. /\ b \in [0..N -> 0..Len(s)] /\ b[0] = 0 /\ b[N] = Len(s)
      /\ Len(seqs) = N /\ DOMAIN seqs = 1..N /\ (N = 0 => seqs = <<>>)
      /\ \A c \in 1..N : seqs[c] = Piece(s, b[c - 1], b[c])
      /\ \A c \in 1..N : b[c - 1] <= b[c]
  BY DEF Cut
<1>2. CASE N = 0
  <2>1. Len(s) = 0 /\ Len(seqs) = 0
    BY <1>1, <1>2
  <2>2. FlattenSeq(seqs) = seqs
    BY <2>1 DEF FlattenSeq
  <2>3. seqs = <<>>
    BY <1>1, <1>2
  <2>4. s = <<>>
    BY <1>0, <2>1, EmptySeq
  <2> QED BY <2>2, <2>3, <2>4
<1>3. CASE N # 0
  <2>1. PICK g : Flats(g, seqs, N) /\ FlattenSeq(seqs) = g[N]
    BY <1>1, <1>3, FlattenIs
  <2>2. \A c \in 1..N : g[c] = IF c = 1 THEN seqs[c] ELSE g[c - 1] \o seqs[c]
    BY <2>1 DEF Flats
  <2> DEFINE T == {c \in Nat : c \in 1..N /\ g[c] # Piece(s, 0, b[c])}
  <2>3. ASSUME T # {} PROVE FALSE
    <3>1. PICK c \in T : \A m \in T : c <= m
      BY <2>3, LeastNat
    <3>2. c \in 1..N /\ b[c] \in Nat /\ b[c] <= Len(s) /\ b[c - 1] \in Nat /\ b[c - 1] <= b[c] /\ b[c - 1] <= Len(s)
      <4>1. c \in 1..N /\ c \in 0..N /\ c - 1 \in 0..N
        OBVIOUS
      <4> QED BY <4>1, <1>0, <1>1
    <3>3. CASE c = 1
      BY <1>1, <2>2, <3>1, <3>2, <3>3
    <3>4. CASE c # 1
      <4>1. c - 1 \in 1..N /\ c - 1 \notin T
        BY <3>1, <3>2, <3>4
      <4>2. g[c] = Piece(s, 0, b[c - 1]) \o Piece(s, b[c - 1], b[c])
        <5>1. g[c - 1] = Piece(s, 0, b[c - 1])
          BY <4>1
        <5>2. seqs[c] = Piece(s, b[c - 1], b[c])
          BY <1>1, <3>2
        <5>3. g[c] = g[c - 1] \o seqs[c]
          BY <2>2, <3>2, <3>4
        <5> QED BY <5>1, <5>2, <5>3
      <4> DEFINE x == b[c - 1]
                 y == b[c]
                 p == Piece(s, 0, x)
                 q == Piece(s, x, y)
                 r == Piece(s, 0, y)
                 S == Range(s)
      <4>3. x \in Nat /\ y \in Nat /\ x <= y /\ y <= Len(s)
        BY <3>2
      <4> HIDE DEF x, y
      <4>4. p \in Seq(S) /\ q \in Seq(S) /\ r \in Seq(S) /\ Len(p) = x /\ Len(q) = y - x /\ Len(r) = y
        <5>1. x <= Len(s) /\ 0 <= x /\ 0 <= y /\ x - 0 = x /\ y - 0 = y /\ 0 \in Nat
          BY <4>3, <1>0
        <5>2. p \in Seq(S) /\ Len(p) = x - 0
          BY <4>3, <5>1, PieceFacts
        <5>3. q \in Seq(S) /\ Len(q) = y - x
          BY <4>3, <5>1, PieceFacts
        <5>4. r \in Seq(S) /\ Len(r) = y - 0
          BY <4>3, <5>1, PieceFacts
        <5> HIDE DEF p, q, r, S
        <5> QED BY <5>1, <5>2, <5>3, <5>4
      <4>5. ASSUME NEW i \in 1..y
            PROVE  /\ r[i] = s[i]
                   /\ i <= x => p[i] = s[i]
                   /\ i > x => q[i - x] = s[i]
        <5>1. r[i] = s[0 + i] /\ 0 + i = i
          BY <4>3 DEF Piece
        <5>2. i <= x => p[i] = s[0 + i]
          BY <4>3 DEF Piece
        <5>3. i > x => i - x \in 1..(y - x) /\ x + (i - x) = i
          BY <4>3
        <5>4. i > x => q[i - x] = s[x + (i - x)]
          BY <5>3 DEF Piece
        <5> QED BY <5>1, <5>2, <5>3, <5>4
      <4> HIDE DEF p, q, r, S
      <4>6. p \o q \in Seq(S) /\ Len(p \o q) = y
            /\ \A i \in 1..y : (p \o q)[i] = IF i <= x THEN p[i] ELSE q[i - x]
        <5>1. Len(p) + Len(q) = y
          BY <4>3, <4>4
        <5>2. /\ p \o q \in Seq(S) /\ Len(p \o q) = Len(p) + Len(q)
              /\ \A i \in 1..(Len(p) + Len(q)) : (p \o q)[i] = IF i <= Len(p) THEN p[i] ELSE q[i - Len(p)]
          BY <4>4, ConcatProperties
        <5>3. Len(p) = x
          BY <4>4
        <5> QED BY <5>1, <5>2, <5>3
      <4>7. ASSUME NEW i \in 1..y PROVE (p \o q)[i] = r[i]
        <5>1. CASE i <= x
          BY <4>5, <4>6, <5>1
        <5>2. CASE ~(i <= x)
          <6>1. i > x
            BY <4>3, <5>2
          <6> QED BY <4>5, <4>6, <5>2, <6>1
        <5> QED BY <5>1, <5>2
      <4>8. p \o q = r
        BY <4>4, <4>6, <4>7, SeqEqual
      <4> QED BY <3>1, <4>2, <4>8 DEF p, q, r, x, y
    <3> QED BY <3>3, <3>4
  <2>4. g[N] = Piece(s, 0, Len(s))
    <3>1. N \in Nat /\ N \in 1..N
      BY <1>3
    <3> QED BY <1>1, <2>3, <3>1
  <2>5. s = [k \in 1..Len(s) |-> s[k]]
    BY <1>0, LenProperties
  <2>6. Piece(s, 0, Len(s)) = [k \in 1..Len(s) |-> s[k]]
    BY <1>0 DEF Piece
  <2> QED BY <2>1, <2>4, <2>5, <2>6
<1> QED BY <1>2, <1>3

-----------------------------------------------------------------------------
(* The chunks of split, page by page.                                      *)

\* Division rounds down.
LEMMA DivisionFacts ==
  ASSUME NEW a \in Nat, NEW n \in Nat \ {0}
  PROVE  a \div n \in Nat /\ (a \div n) * n <= a /\ a < (a \div n) * n + n
BY SMT

\* A greater factor makes a greater product.
LEMMA ProductFacts ==
  ASSUME NEW n \in Nat \ {0}, NEW x \in Nat, NEW y \in Nat, x <= y
  PROVE  x * n \in Nat /\ y * n \in Nat /\ x * n <= y * n /\ (x + 1) * n = x * n + n
<1>1. x * n \in Nat /\ y * n \in Nat
  BY SMT
<1>2. x * n <= y * n
  BY SMT
<1>3. (x + 1) * n = x * n + n
  BY SMT
<1> QED BY <1>1, <1>2, <1>3

\* Chunks of n pages are the pages, cut.
LEMMA EveryNPages ==
  ASSUME NEW s, IsSequence(s), NEW total, total = Len(s), NEW n \in Nat \ {0}
  PROVE  FlattenSeq([c \in DOMAIN EveryN(total, n) |-> At(s, EveryN(total, n)[c])]) = s
<1> DEFINE K == (total + n - 1) \div n
           cs == EveryN(total, n)
           b == [c \in 0..K |-> IF c * n > total THEN total ELSE c * n]
<1>0. total \in Nat /\ DOMAIN s = 1..total
  BY SequenceFacts
<1>1. total + n - 1 \in Nat
  BY <1>0
<1>2. K \in Nat /\ K * n <= total + n - 1 /\ total + n - 1 < K * n + n
  BY <1>1, DivisionFacts
<1>3. DOMAIN cs = 1..K
      /\ \A c \in 1..K : cs[c] = ((c - 1) * n + 1)..(IF c * n > total THEN total ELSE c * n)
  BY DEF EveryN
<1> HIDE DEF K, cs
<1>4. ASSUME NEW c \in 1..K
      PROVE  /\ (c - 1) * n \in Nat /\ c * n \in Nat /\ (c - 1) * n < total
             /\ (c - 1) * n + n = c * n
  <2>1. c \in Nat /\ c - 1 \in Nat /\ c - 1 <= c /\ c <= K
    BY <1>2
  <2>2. (c - 1) * n \in Nat /\ c * n \in Nat /\ ((c - 1) + 1) * n = (c - 1) * n + n
    BY <2>1, ProductFacts
  <2>3. (c - 1) + 1 = c
    BY <2>1
  <2>4. (c - 1) * n + n = c * n
    BY <2>2, <2>3
  <2>5. c * n <= K * n
    BY <1>2, <2>1, ProductFacts
  <2> DEFINE x == (c - 1) * n
             y == c * n
             z == K * n
  <2>6. x \in Nat /\ y \in Nat /\ x + n = y /\ y <= z /\ z <= total + n - 1 /\ z \in Int
    BY <1>2, <2>2, <2>4, <2>5
  <2> HIDE DEF x, y, z
  <2>7. x < total
    BY <1>0, <2>6
  <2> QED BY <2>2, <2>4, <2>7 DEF x
<1>5. b \in [0..K -> 0..total] /\ b[0] = 0 /\ b[K] = total
  <2>1. ASSUME NEW c \in 0..K PROVE (IF c * n > total THEN total ELSE c * n) \in 0..total
    <3>1. c * n \in Nat
      BY <1>2, SMT
    <3> QED BY <1>0, <3>1
  <2>2. b \in [0..K -> 0..total]
    BY <2>1
  <2>3. 0 \in 0..K /\ 0 * n = 0 /\ K \in 0..K
    BY <1>2, SMT
  <2>4. b[0] = 0
    BY <1>0, <2>3
  <2> DEFINE z == K * n
  <2>5. z \in Int /\ total + n - 1 < z + n
    BY <1>2, SMT
  <2>6. b[K] = IF z > total THEN total ELSE z
    BY <2>3
  <2> HIDE DEF z, b
  <2>7. b[K] = total
    BY <1>0, <2>5, <2>6
  <2> QED BY <2>2, <2>4, <2>7
<1>6. ASSUME NEW c \in 1..K
      PROVE  /\ b[c - 1] <= b[c] /\ b[c - 1] \in 0..total /\ b[c] \in 0..total
             /\ cs[c] = (b[c - 1] + 1)..b[c]
  <2>1. c - 1 \in 0..K /\ c \in 0..K
    BY <1>2
  <2> DEFINE x == (c - 1) * n
             y == c * n
  <2>2. b[c - 1] = (IF x > total THEN total ELSE x) /\ b[c] = (IF y > total THEN total ELSE y)
    BY <2>1
  <2>3. x \in Nat /\ y \in Nat /\ x < total /\ x + n = y
    BY <1>4
  <2>4. cs[c] = (x + 1)..(IF y > total THEN total ELSE y)
    BY <1>3
  <2>5. b[c - 1] \in 0..total /\ b[c] \in 0..total
    BY <1>5, <2>1
  <2> HIDE DEF x, y, b
  <2> QED BY <1>0, <2>2, <2>3, <2>4, <2>5
<1> HIDE DEF b
<1> DEFINE seqs == [c \in 1..K |-> Piece(s, b[c - 1], b[c])]
<1>7. ASSUME NEW c \in 1..K PROVE At(s, cs[c]) = Piece(s, b[c - 1], b[c])
  <2>1. b[c - 1] \in Nat /\ b[c] \in Nat /\ b[c] <= total
    BY <1>0, <1>6
  <2>2. At(s, (b[c - 1] + 1)..b[c]) = Piece(s, b[c - 1], b[c])
    BY <1>0, <1>6, <2>1, PieceAt
  <2> QED BY <1>6, <2>2
<1>8. [c \in DOMAIN cs |-> At(s, cs[c])] = seqs
  BY <1>3, <1>7
<1>9. FlattenSeq(seqs) = s
  <2>1. \A c \in 1..K : b[c - 1] <= b[c]
    BY <1>6
  <2>2. b \in [0..K -> 0..Len(s)] /\ b[K] = Len(s)
    BY <1>5
  <2> HIDE DEF seqs
  <2>4. K \in Nat /\ b[0] = 0
    BY <1>2, <1>5
  <2>5. /\ DOMAIN seqs = 1..K /\ Len(seqs) = K /\ (K = 0 => seqs = <<>>)
        /\ \A c \in 1..K : seqs[c] = Piece(s, b[c - 1], b[c])
    BY <1>2 DEF seqs
  <2>6. Cut(s, K, b, seqs)
    BY <2>1, <2>2, <2>4, <2>5 DEF Cut
  <2> QED BY <2>4, <2>6, PiecesInARow
<1> QED BY <1>8, <1>9 DEF cs

\* The elements of a sequence, one by one, are the sequence.
LEMMA SingletonsInARow ==
  ASSUME NEW x, IsSequence(x), NEW seqs, seqs = [c \in DOMAIN x |-> <<x[c]>>]
  PROVE  FlattenSeq(seqs) = x
<1> DEFINE N == Len(x)
           b == [c \in 0..N |-> c]
<1>1. N \in Nat /\ DOMAIN x = 1..N
  BY SequenceFacts
<1>2. b \in [0..N -> 0..Len(x)] /\ b[0] = 0 /\ b[N] = Len(x) /\ \A c \in 1..N : b[c - 1] <= b[c]
  BY <1>1
<1>3. ASSUME NEW c \in 1..N PROVE <<x[c]>> = Piece(x, b[c - 1], b[c])
  <2>1. b[c - 1] = c - 1 /\ b[c] = c
    BY <1>1
  <2>2. Piece(x, c - 1, c) = [k \in 1..1 |-> x[(c - 1) + k]]
    BY <1>1 DEF Piece
  <2>3. \A k \in 1..1 : (c - 1) + k = c
    BY <1>1
  <2> HIDE DEF b
  <2> QED BY <2>1, <2>2, <2>3
<1> HIDE DEF b, N
<1>4. /\ DOMAIN seqs = 1..N /\ Len(seqs) = N /\ (N = 0 => seqs = <<>>)
      /\ \A c \in 1..N : seqs[c] = Piece(x, b[c - 1], b[c])
  BY <1>1, <1>3 DEF N
<1>5. N \in Nat /\ b \in [0..N -> 0..Len(x)] /\ b[0] = 0 /\ b[N] = Len(x)
      /\ \A c \in 1..N : b[c - 1] <= b[c]
  BY <1>1, <1>2 DEF N
<1>6. Cut(x, N, b, seqs)
  BY <1>4, <1>5 DEF Cut
<1> QED BY <1>5, <1>6, PiecesInARow

\* Chunks of one page each are the pages at the places.
LEMMA OnePagePages ==
  ASSUME NEW s, IsSequence(s), NEW S \in SUBSET (DOMAIN s), NEW m, m = [kind |-> "pages", pages |-> Ascending(S)]
  PROVE  FlattenSeq([c \in DOMAIN Chunks(m, Len(s)) |-> At(s, Chunks(m, Len(s))[c])]) = At(s, S)
<1> DEFINE N == Len(s)
           a == Ascending(S)
           x == At(s, S)
           K == Cardinality(S)
           cs == Chunks(m, N)
<1>0. N \in Nat /\ DOMAIN s = 1..N
  BY SequenceFacts
<1>1. K \in Nat /\ DOMAIN a = 1..K /\ Len(a) = K /\ \A k \in 1..K : a[k] = Nth(S, k) /\ Nth(S, k) \in S
  BY <1>0, AscendingFacts
<1>2. DOMAIN x = 1..K /\ Len(x) = K /\ \A k \in 1..K : x[k] = s[Nth(S, k)]
  BY <1>0, AtFacts
<1>3. IsSequence(a)
  <2>1. a \in [1..K -> Range(a)]
    BY <1>1 DEF Ascending, Range
  <2> QED BY <1>1, <2>1, SeqDef DEF IsSequence
<1>4. IsSequence(x)
  <2>1. x \in [1..K -> Range(x)]
    BY <1>2 DEF At, Range
  <2> QED BY <1>1, <2>1, SeqDef DEF IsSequence
<1> HIDE DEF N, a, x, K
<1>5. {n \in DOMAIN a : a[n] \in 1..N} = DOMAIN a
  BY <1>0, <1>1
<1>6. At(a, DOMAIN a) = a
  BY <1>3, WholeAt
<1>7. cs = [i \in 1..K |-> {a[i]}]
  <2>1. m.kind = "pages" /\ m.pages = a
    BY DEF a
  <2> DEFINE there == At(m.pages, {n \in DOMAIN m.pages : m.pages[n] \in 1..N})
  <2>2. cs = [i \in DOMAIN there |-> {there[i]}]
    BY <2>1 DEF Chunks
  <2>3. there = a
    BY <1>5, <1>6, <2>1
  <2> HIDE DEF there
  <2> QED BY <1>1, <2>2, <2>3
<1> DEFINE seqs == [c \in DOMAIN cs |-> At(s, cs[c])]
<1>8. ASSUME NEW c \in 1..K PROVE At(s, cs[c]) = <<x[c]>>
  <2> DEFINE p == a[c]
  <2>1. p \in 1..N /\ cs[c] = {p} /\ x[c] = s[p] /\ p \in Nat /\ p - 1 \in Nat
    BY <1>0, <1>1, <1>2, <1>7
  <2> HIDE DEF p
  <2>2. {p} = ((p - 1) + 1)..p
    BY <2>1
  <2>3. At(s, ((p - 1) + 1)..p) = Piece(s, p - 1, p)
    <3>1. p - 1 <= p /\ p <= N
      BY <2>1, <1>0
    <3> QED BY <1>0, <2>1, <3>1, PieceAt
  <2>4. Piece(s, p - 1, p) = [k \in 1..1 |-> s[(p - 1) + k]]
    BY <2>1 DEF Piece
  <2>5. \A k \in 1..1 : (p - 1) + k = p
    BY <2>1
  <2> QED BY <2>1, <2>2, <2>3, <2>4, <2>5
<1>9. seqs = [c \in DOMAIN x |-> <<x[c]>>]
  <2>1. DOMAIN cs = 1..K
    BY <1>7
  <2> HIDE DEF cs
  <2> QED BY <1>2, <1>8, <2>1
<1>10. FlattenSeq(seqs) = x
  <2> HIDE DEF seqs
  <2> QED BY <1>4, <1>9, SingletonsInARow
<1> QED BY <1>10 DEF N, x

\* What is kept of some pages is those.
LEMMA KeptPages ==
  ASSUME NEW d, IsDocument(d), NEW ps \in SUBSET (DOMAIN d.pages)
  PROVE  Keep(d, ps).pages = At(d.pages, ps)
<1>1. IsSequence(d.pages)
  BY DEF IsDocument, ArePages
<1> QED BY <1>1, KeepFacts, WholeAt

\* The pages ranges select.
Chosen(rs, ps) == At(ps, Selected(rs, Len(ps)))

\* What the chunks of a split are, page by page.
LEMMA SplitPages ==
  ASSUME NEW d, IsDocument(d), NEW mode, ModeIsRight(mode), NEW o \in Split(d, mode), Succeeded(o)
  PROVE  /\ ~(mode.kind = "every" /\ mode.n = 0)
         /\ LET cs == Chunks(mode, Len(d.pages))
            IN  PageList(o.docs) = [c \in DOMAIN cs |-> At(d.pages, cs[c])]
<1> DEFINE u == Unlocked(d)
           N == Len(u.pages)
           cs == Chunks(mode, N)
<1>1. o.docs = [i \in DOMAIN cs |-> Keep(u, cs[i])]
  BY SplitSucceeds, Outcomes
<1>2. ~(mode.kind = "every" /\ mode.n = 0)
  BY Outcomes DEF Split
<1>3. IsDocument(u) /\ u.pages = d.pages
  BY UnlockedFacts
<1>4. N \in Nat /\ DOMAIN u.pages = 1..N
  BY <1>3, LenProperties DEF IsDocument, ArePages, IsSequence
<1> HIDE DEF u, N
<1>5. \A i \in DOMAIN cs : cs[i] \subseteq 1..N
  BY <1>2, <1>4, ChunksFacts DEF ChunksOf
<1> HIDE DEF cs
<1>6. \A i \in DOMAIN cs : Keep(u, cs[i]).pages = At(u.pages, cs[i])
  BY <1>3, <1>4, <1>5, KeptPages
<1>7. PageList(o.docs) = [i \in DOMAIN cs |-> At(u.pages, cs[i])]
  BY <1>1, <1>6 DEF PageList
<1> QED BY <1>2, <1>3, <1>7 DEF cs, N

\* Chunks of n pages are all the pages.
LEMMA SplitEvery ==
  ASSUME NEW d, IsDocument(d), NEW n \in Nat, NEW mode, mode = [kind |-> "every", n |-> n],
         NEW o \in Split(d, mode), Succeeded(o)
  PROVE  PagesOf(o.docs) = d.pages
<1>1. mode.kind = "every" /\ mode.n = n
  OBVIOUS
<1>2. ModeIsRight(mode)
  BY <1>1 DEF ModeIsRight
<1>3. n # 0 /\ LET cs == Chunks(mode, Len(d.pages))
               IN  PageList(o.docs) = [c \in DOMAIN cs |-> At(d.pages, cs[c])]
  BY <1>1, <1>2, SplitPages
<1>4. Chunks(mode, Len(d.pages)) = EveryN(Len(d.pages), n)
  BY <1>1 DEF Chunks
<1>5. IsSequence(d.pages)
  BY DEF IsDocument, ArePages
<1> QED BY <1>3, <1>4, <1>5, EveryNPages DEF PagesOf

\* Chunks of one page each are the pages that were selected.
LEMMA SplitByPages ==
  ASSUME NEW d, IsDocument(d), NEW rs, NEW mode,
         mode = [kind |-> "pages", pages |-> Ascending(Selected(rs, Len(d.pages)))],
         NEW o \in Split(d, mode), Succeeded(o)
  PROVE  PagesOf(o.docs) = Chosen(rs, d.pages)
<1> DEFINE N == Len(d.pages)
           S == Selected(rs, N)
<1>1. IsSequence(d.pages) /\ N \in Nat /\ DOMAIN d.pages = 1..N
  BY SequenceFacts DEF IsDocument, ArePages
<1>2. S \in SUBSET (DOMAIN d.pages)
  BY <1>1, SelectedPages
<1>3. mode.kind = "pages" /\ mode.pages = Ascending(S)
  OBVIOUS
<1> HIDE DEF S, N
<1>4. ModeIsRight(mode)
  BY <1>1, <1>2, <1>3, AscendingFacts DEF ModeIsRight
<1>5. LET cs == Chunks(mode, N) IN PageList(o.docs) = [c \in DOMAIN cs |-> At(d.pages, cs[c])]
  BY <1>4, SplitPages DEF N
<1>6. mode = [kind |-> "pages", pages |-> Ascending(S)]
  BY DEF S, N
<1>7. FlattenSeq([c \in DOMAIN Chunks(mode, N) |-> At(d.pages, Chunks(mode, N)[c])]) = At(d.pages, S)
  BY <1>1, <1>2, <1>6, OnePagePages DEF N
<1> QED BY <1>5, <1>7 DEF PagesOf, Chosen, S, N

\* The one chunk of some ranges, or none, is the pages that were selected.
LEMMA SplitByRanges ==
  ASSUME NEW d, IsDocument(d), NEW rs, NEW mode, mode = [kind |-> "ranges", chunks |-> <<rs>>],
         NEW o \in Split(d, mode), Succeeded(o)
  PROVE  PagesOf(o.docs) = Chosen(rs, d.pages)
<1> DEFINE N == Len(d.pages)
           S == Selected(rs, N)
           one == <<S>>
           cs == Chunks(mode, N)
           l == PageList(o.docs)
<1>1. IsSequence(d.pages) /\ N \in Nat /\ DOMAIN d.pages = 1..N
  BY SequenceFacts DEF IsDocument, ArePages
<1>2. mode.kind = "ranges" /\ mode.chunks = <<rs>>
  OBVIOUS
<1>3. ModeIsRight(mode)
  BY <1>2 DEF ModeIsRight
<1>4. l = [c \in DOMAIN cs |-> At(d.pages, cs[c])]
  BY <1>3, SplitPages
<1>5. [i \in DOMAIN mode.chunks |-> Selected(mode.chunks[i], N)] = one
  BY <1>2
<1>6. cs = At(one, {i \in DOMAIN one : one[i] # {}})
  BY <1>2, <1>5 DEF Chunks
<1>7. DOMAIN one = 1..1 /\ one[1] = S
  OBVIOUS
<1> HIDE DEF N, S, one, cs, l
<1>8. CASE S = {}
  <2>1. {i \in DOMAIN one : one[i] # {}} = {}
    BY <1>7, <1>8
  <2>2. cs = [k \in 1..0 |-> one[Nth({}, k)]]
    BY <1>6, <2>1, FS_EmptySet DEF At
  <2>3. l = [k \in 1..0 |-> 0]
    BY <1>4, <2>2
  <2>4. l = <<>> /\ Len(l) = 0
    BY <2>3
  <2>5. FlattenSeq(l) = <<>>
    BY <2>4 DEF FlattenSeq
  <2>6. At(d.pages, S) = [k \in 1..0 |-> d.pages[Nth({}, k)]]
    BY <1>8, FS_EmptySet DEF At
  <2>7. At(d.pages, S) = <<>>
    BY <2>6
  <2> QED BY <2>5, <2>7 DEF PagesOf, Chosen, S, N, l
<1>9. CASE S # {}
  <2>1. {i \in DOMAIN one : one[i] # {}} = (0 + 1)..1
    BY <1>7, <1>9
  <2>2. At(one, (0 + 1)..1) = Piece(one, 0, 1)
    <3>1. 0 \in Nat /\ 1 \in Nat /\ 0 <= 1 /\ 1 <= 1
      OBVIOUS
    <3> QED BY <1>7, <3>1, PieceAt
  <2>3. Piece(one, 0, 1) = [k \in 1..1 |-> one[0 + k]]
    BY DEF Piece
  <2>4. cs = [k \in 1..1 |-> S]
    BY <1>6, <1>7, <2>1, <2>2, <2>3
  <2>5. l = [k \in 1..1 |-> At(d.pages, S)]
    BY <1>4, <2>4
  <2>6. DOMAIN l = {1} /\ Len(l) = 1 /\ l[1] = At(d.pages, S)
    BY <2>5
  <2>7. FlattenSeq(l) = At(d.pages, S)
    BY <2>6, FlattenOne
  <2> QED BY <2>7 DEF PagesOf, Chosen, S, N, l
<1> QED BY <1>8, <1>9

-----------------------------------------------------------------------------
(* The operations on each of the files, and the delivery of what they make.*)

Documents(ds) == Len(ds) \in Nat /\ DOMAIN ds = 1..Len(ds) /\ \A i \in DOMAIN ds : IsDocument(ds[i])
NoneLocked(ds) == \A i \in DOMAIN ds : ~NeedsPassword(ds[i])
Made(docs) == \A d \in DocsOf(docs) : IsDocument(d)
OneEach(docs, n) ==
  DOMAIN docs = 1..n /\ Len(docs) = n /\ \A i \in 1..n : \E r : docs[i] = <<r>> /\ IsDocument(r)

\* One document of each is documents.
LEMMA OneEachMade ==
  ASSUME NEW n \in Nat, NEW docs, OneEach(docs, n)
  PROVE  Made(docs)
BY DEF OneEach, Made, DocsOf, Range

\* So is one of all.
LEMMA OneMade ==
  ASSUME NEW r
  PROVE  DocsOf(<<<<r>>>>) = {r}
BY DEF DocsOf, Range

\* Each, of as many outcomes as there are files.
LEMMA EachMakes ==
  ASSUME NEW outs, NEW n \in Nat, DOMAIN outs = 1..n, NEW o \in Each(outs), Succeeded(o)
  PROVE  /\ DOMAIN o.docs = 1..n /\ Len(o.docs) = n
         /\ \A i \in 1..n : \E a \in outs[i] : Succeeded(a) /\ o.docs[i] = a.docs
<1>0. DOMAIN outs \subseteq Nat
  OBVIOUS
<1>1. PICK os \in Ways(outs) :
        /\ \A i \in DOMAIN outs : os[i] \in outs[i] /\ Succeeded(os[i])
        /\ o = Done([i \in DOMAIN outs |-> os[i].docs])
  BY <1>0, EachSucceeds
<1>2. o.docs = [i \in 1..n |-> os[i].docs]
  BY <1>1, Outcomes
<1>3. DOMAIN o.docs = 1..n /\ Len(o.docs) = n /\ \A i \in 1..n : o.docs[i] = os[i].docs
  BY <1>2
<1> QED BY <1>1, <1>3

\* Each operation on a document, whatever it is: one document comes of it, and
\* none of a locked one.
LEMMA EachGated ==
  ASSUME NEW ds, Documents(ds), NEW outs, DOMAIN outs = DOMAIN ds,
         \A i \in DOMAIN ds : \A a \in outs[i] : Succeeded(a) =>
           ~NeedsPassword(ds[i]) /\ \E r : a = Done(<<r>>) /\ IsDocument(r),
         NEW o \in Each(outs), Succeeded(o)
  PROVE  NoneLocked(ds) /\ OneEach(o.docs, Len(ds))
<1> DEFINE n == Len(ds)
<1>1. n \in Nat /\ DOMAIN outs = 1..n /\ DOMAIN ds = 1..n
  BY DEF Documents
<1> HIDE DEF n
<1>2. /\ DOMAIN o.docs = 1..n /\ Len(o.docs) = n
      /\ \A i \in 1..n : \E a \in outs[i] : Succeeded(a) /\ o.docs[i] = a.docs
  BY <1>1, EachMakes
<1>3. ASSUME NEW i \in 1..n
      PROVE  ~NeedsPassword(ds[i]) /\ \E r : o.docs[i] = <<r>> /\ IsDocument(r)
  <2>1. PICK a \in outs[i] : Succeeded(a) /\ o.docs[i] = a.docs
    BY <1>2
  <2>2. ~NeedsPassword(ds[i]) /\ \E r : a = Done(<<r>>) /\ IsDocument(r)
    BY <1>1, <2>1
  <2> QED BY <2>1, <2>2, Outcomes
<1> QED BY <1>1, <1>2, <1>3 DEF NoneLocked, OneEach, n

\* The operations, one by one, on each of the files.
LEMMA FlattenMakes ==
  ASSUME NEW d, IsDocument(d), NEW o \in Flatten(d), Succeeded(o)
  PROVE  ~NeedsPassword(d) /\ \E r : o = Done(<<r>>) /\ IsDocument(r)
<1>1. ~NeedsPassword(d) /\ o = Done(<<Flattened(Unlocked(d))>>)
  BY FlattenSucceeds
<1>2. IsDocument(Unlocked(d))
  BY UnlockedFacts
<1> QED BY <1>1, <1>2, FlattenedFacts

LEMMA WriteMetadataMakes ==
  ASSUME NEW d, IsDocument(d), NEW meta, NEW o \in WriteMetadata(d, meta), Succeeded(o)
  PROVE  ~NeedsPassword(d) /\ \E r : o = Done(<<r>>) /\ IsDocument(r)
<1>1. ~NeedsPassword(d) /\ o = Done(<<Titled(Unlocked(d), meta.title)>>)
  BY WriteMetadataSucceeds
<1>2. IsDocument(Unlocked(d))
  BY UnlockedFacts
<1> QED BY <1>1, <1>2, TitledFacts

LEMMA RotateMakes ==
  ASSUME NEW d, IsDocument(d), NEW rs, NEW angle \in Int,
         NEW o \in AsInternal(Rotate(d, rs, angle)), Succeeded(o)
  PROVE  ~NeedsPassword(d) /\ \E r : o = Done(<<r>>) /\ IsDocument(r)
<1>1. o \in Rotate(d, rs, angle)
  BY AsInternalSucceeds
<1> DEFINE quarters == (angle % 360) \div 90
<1>2. quarters \in Int
  OBVIOUS
<1>3. ~NeedsPassword(d) /\ o = Done(<<Turned(Unlocked(d), rs, quarters)>>)
  BY <1>1, RotateSucceeds
<1>4. IsDocument(Unlocked(d))
  BY UnlockedFacts
<1> HIDE DEF quarters
<1> QED BY <1>2, <1>3, <1>4, TurnedFacts

LEMMA WatermarkMakes ==
  ASSUME NEW d, IsDocument(d), NEW opts, NEW o \in AsInternal(Watermark(d, opts)), Succeeded(o)
  PROVE  ~NeedsPassword(d) /\ \E r : o = Done(<<r>>) /\ IsDocument(r)
BY AsInternalSucceeds, WatermarkSucceeds, UnlockedFacts, DrawnFacts

LEMMA AttachMakes ==
  ASSUME NEW d, IsDocument(d), NEW names, NEW o \in AsInternal(Attach(d, names)), Succeeded(o)
  PROVE  ~NeedsPassword(d) /\ \E r : o = Done(<<r>>) /\ IsDocument(r)
BY AsInternalSucceeds, AttachSucceeds, RenumberedFacts, AttachedFacts

LEMMA ToolsMake ==
  ASSUME NEW d, IsDocument(d), NEW o \in Qpdf(d) \cup Ghostscript(d), Succeeded(o)
  PROVE  ~NeedsPassword(d) /\ \E r : o = Done(<<r>>) /\ IsDocument(r)
<1>1. CASE o \in Qpdf(d)
  <2>1. ~NeedsPassword(d) /\ o = Done(<<Renumbered(d)>>)
    BY <1>1, QpdfSucceeds
  <2> QED BY <2>1, RenumberedFacts
<1>2. CASE o \in Ghostscript(d)
  <2>1. ~NeedsPassword(d) /\ \E outline, form, files :
          IsSequence(outline) /\ o = Done(<<Printed(d, outline, form, files)>>)
    BY <1>2, GhostscriptSucceeds
  <2>2. PICK outline, form, files : IsSequence(outline) /\ o = Done(<<Printed(d, outline, form, files)>>)
    BY <2>1
  <2> QED BY <2>1, <2>2, PrintedFacts
<1> QED BY <1>1, <1>2

\* qpdf refuses a locked file; what it encrypts is locked.
LEMMA EncryptMakes ==
  ASSUME NEW d, IsDocument(d), NEW user, NEW owner, NEW o \in EncryptPdf(d, user, owner), Succeeded(o)
  PROVE  /\ ~NeedsPassword(d)
         /\ \E r : o = Done(<<r>>) /\ IsDocument(r) /\ r.user = user /\ (owner # Absent => r.owner = owner)
<1>1. ~NeedsPassword(d) /\ o = Done(<<Secured(d, user, owner)>>)
  BY EncryptSucceeds
<1> QED BY <1>1, SecuredFacts

\* qpdf unlocks with one of the passwords.
LEMMA DecryptMakes ==
  ASSUME NEW d, IsDocument(d), NEW password, NEW o \in DecryptPdf(d, password), Succeeded(o)
  PROVE  /\ NeedsPassword(d) => password \in {d.user, d.owner}
         /\ \E r : o = Done(<<r>>) /\ IsDocument(r)
<1>1. /\ NeedsPassword(d) => password \in {d.user, d.owner}
      /\ o = Done(<<Renumbered(Unlocked(d))>>)
  BY DecryptSucceeds
<1> QED BY <1>1, UnlockedFacts, RenumberedFacts

\* LibreOffice opens no locked file; one document comes of any other.
LEMMA OfficeConvertMakes ==
  ASSUME NEW d, IsDocument(d), NEW o \in OfficeConvert(d), Succeeded(o)
  PROVE  ~NeedsPassword(d) /\ \E r : o = Done(<<r>>) /\ IsDocument(r)
<1>1. ~NeedsPassword(d) /\ o = Done(<<Printout(d)>>)
  BY OfficeConvertSucceeds
<1> QED BY <1>1, PrintoutFacts

\* Chrome renders.
LEMMA RenderMakes ==
  ASSUME NEW o \in Render, Succeeded(o)
  PROVE  o = Done(<<Rendered>>)
BY Outcomes DEF Render

-----------------------------------------------------------------------------

\* A list of documents from a list of one-document outcomes.
LEMMA SinglesMake ==
  ASSUME NEW n \in Nat, NEW outs, NEW o \in Singles(outs), Succeeded(o),
         \A a \in outs : Succeeded(a) => OneEach(a.docs, n)
  PROVE  Len(o.docs) = n /\ Documents(o.docs)
<1>1. PICK a \in outs : Succeeded(a) /\ o = Done([i \in DOMAIN a.docs |-> a.docs[i][1]])
  BY SinglesSucceed
<1>2. OneEach(a.docs, n)
  BY <1>1
<1>3. o.docs = [i \in 1..n |-> a.docs[i][1]]
  BY <1>1, <1>2, Outcomes DEF OneEach
<1>4. \A i \in 1..n : IsDocument(a.docs[i][1])
  BY <1>2 DEF OneEach
<1>5. DOMAIN o.docs = 1..n /\ Len(o.docs) = n /\ \A i \in 1..n : IsDocument(o.docs[i])
  BY <1>3, <1>4
<1> QED BY <1>5 DEF Documents

\* What split makes of the pages of a file.
SplitKeeps(f, d, cs) ==
  PagesOf(cs) = IF f.mode = "intervals" THEN d.pages ELSE Chosen(f.ranges, d.pages)

\* The chunks of one file.
LEMMA FileChunksMake ==
  ASSUME NEW f, NEW d, IsDocument(d), f.mode = "intervals" => f.span \in Nat,
         NEW o \in FileChunks(f, d), Succeeded(o)
  PROVE  ~NeedsPassword(d) /\ Documents(o.docs) /\ SplitKeeps(f, d, o.docs)
<1>1. PICK a \in Split(d, SplitMode(f, d)) :
        Succeeded(a) /\ o \in IF a.docs = <<>> THEN {Fail("InvalidField")} ELSE {Done(a.docs)}
  BY DEF FileChunks, Then
<1>2. o = Done(a.docs)
  BY <1>1, Outcomes
<1>3. o.docs = a.docs
  BY <1>2, Outcomes
<1>4. ASSUME f.mode = "intervals" PROVE SplitKeeps(f, d, o.docs)
  <2>1. SplitMode(f, d) = [kind |-> "every", n |-> f.span] /\ f.span \in Nat
    BY <1>4 DEF SplitMode
  <2>2. PagesOf(a.docs) = d.pages
    BY <1>1, <2>1, SplitEvery
  <2> QED BY <1>3, <1>4, <2>2 DEF SplitKeeps
<1>5. ASSUME f.mode # "intervals" PROVE SplitKeeps(f, d, o.docs)
  <2>1. SplitMode(f, d) = [kind |-> "pages", pages |-> Ascending(Selected(f.ranges, Len(d.pages)))]
    BY <1>5 DEF SplitMode
  <2>2. PagesOf(a.docs) = Chosen(f.ranges, d.pages)
    BY <1>1, <2>1, SplitByPages
  <2> QED BY <1>3, <1>5, <2>2 DEF SplitKeeps
<1>6. ~NeedsPassword(d) /\ Documents(a.docs)
  BY <1>1, SplitModeRight, SplitMakes DEF Documents
<1> QED BY <1>3, <1>4, <1>5, <1>6

\* What the passwords of the form made of documents.
AllAsked(f, docs) == \A d \in DocsOf(docs) : Asked(f, d)

\* The password fields of split, for every chunk of every file.
LEMMA EncryptChunksMake ==
  ASSUME NEW f, NEW chunks, Documents(chunks), NEW o \in EncryptChunks(f, chunks), Succeeded(o)
  PROVE  /\ Documents(o.docs) /\ \A c \in DOMAIN o.docs : Asked(f, o.docs[c])
         /\ PagesOf(o.docs) = PagesOf(chunks)
<1> DEFINE n == Len(chunks)
           outs == [c \in DOMAIN chunks |-> ApplyEncryption(chunks[c], f)]
<1>1. n \in Nat /\ DOMAIN outs = 1..n /\ \A c \in 1..n : IsDocument(chunks[c]) /\ outs[c] = ApplyEncryption(chunks[c], f)
  BY DEF Documents
<1>2. PICK a \in Each(outs) : Succeeded(a) /\ o = Done([i \in DOMAIN a.docs |-> a.docs[i][1]])
  BY SinglesSucceed DEF EncryptChunks
<1> HIDE DEF n, outs
<1>3. /\ DOMAIN a.docs = 1..n
      /\ \A i \in 1..n : \E b \in outs[i] : Succeeded(b) /\ a.docs[i] = b.docs
  BY <1>1, <1>2, EachMakes
<1>4. ASSUME NEW i \in 1..n
      PROVE  IsDocument(a.docs[i][1]) /\ Asked(f, a.docs[i][1]) /\ a.docs[i][1].pages = chunks[i].pages
  <2>1. PICK b \in ApplyEncryption(chunks[i], f) : Succeeded(b) /\ a.docs[i] = b.docs
    BY <1>1, <1>3
  <2>2. PICK r : b = Done(<<r>>) /\ IsDocument(r) /\ Asked(f, r) /\ r.pages = chunks[i].pages
    <3> DEFINE d == chunks[i]
    <3>1. IsDocument(d) /\ b \in ApplyEncryption(d, f) /\ Succeeded(b)
      BY <1>1, <2>1
    <3> HIDE DEF d
    <3>2. \E r : b = Done(<<r>>) /\ IsDocument(r) /\ r.title = d.title /\ r.pages = d.pages /\ Asked(f, r)
      BY <3>1, ApplyEncryptionSucceeds
    <3> QED BY <3>2 DEF d
  <2>3. a.docs[i][1] = r
    BY <2>1, <2>2, Outcomes
  <2> QED BY <2>2, <2>3
<1>5. o.docs = [i \in 1..n |-> a.docs[i][1]]
  BY <1>2, <1>3, Outcomes
<1>6. /\ DOMAIN o.docs = 1..n /\ Len(o.docs) = n
      /\ \A i \in 1..n : IsDocument(o.docs[i]) /\ Asked(f, o.docs[i]) /\ o.docs[i].pages = chunks[i].pages
  BY <1>1, <1>4, <1>5
<1>7. DOMAIN chunks = 1..n
  BY DEF Documents, n
<1>8. PageList(o.docs) = PageList(chunks)
  BY <1>6, <1>7 DEF PageList
<1> QED BY <1>1, <1>6, <1>8 DEF Documents, PagesOf

\* Chunks that are unified are merged.
Delivers(f, ps, qs) == IF f.unify /\ f.mode = "pages" THEN Same(ps, qs) ELSE ps = qs

\* What is delivered is what the chunks became.
LEMMA DeliveredMakes ==
  ASSUME NEW f, NEW cs, NEW n \in Nat, DOMAIN cs = 1..n, Len(cs) = n, \A i \in 1..n : Documents(cs[i]),
         NEW o \in Delivered(f, cs), Succeeded(o)
  PROVE  /\ Made(o.docs) /\ AllAsked(f, o.docs)
         /\ DOMAIN o.docs = 1..n /\ \A i \in 1..n : Delivers(f, PagesOf(o.docs[i]), PagesOf(cs[i]))
<1>1. CASE f.unify /\ f.mode = "pages" /\ Len(cs) = 1
  <2>1. PICK b \in Bind(Merge(cs[1]), LAMBDA d : ApplyEncryption(d, f)) : Succeeded(b) /\ o = Done(<<b.docs>>)
    BY <1>1, WholeSucceeds DEF Delivered
  <2>2. PICK m \in Merge(cs[1]) : Succeeded(m) /\ b \in ApplyEncryption(m.docs[1], f)
    BY <2>1 DEF Bind
  <2>3. Documents(cs[1])
    BY <1>1
  <2>4. PICK x : m = Done(<<x>>) /\ IsDocument(x) /\ Same(x.pages, PagesOf(cs[1]))
    BY <2>2, <2>3, MergeMakes DEF Documents
  <2>5. m.docs[1] = x
    BY <2>4, Outcomes
  <2>6. PICK r : b = Done(<<r>>) /\ IsDocument(r) /\ Asked(f, r) /\ r.pages = x.pages
    <3>1. IsDocument(x) /\ b \in ApplyEncryption(x, f) /\ Succeeded(b)
      BY <2>1, <2>2, <2>4, <2>5
    <3>2. \E r : b = Done(<<r>>) /\ IsDocument(r) /\ r.title = x.title /\ r.pages = x.pages /\ Asked(f, r)
      BY <3>1, ApplyEncryptionSucceeds
    <3> QED BY <3>2
  <2>7. o.docs = <<<<r>>>>
    BY <2>1, <2>6, Outcomes
  <2>8. DocsOf(o.docs) = {r}
    BY <2>7, OneMade
  <2>9. PagesOf(<<r>>) = r.pages
    <3> DEFINE one == <<r>>
    <3>1. DOMAIN one = 1..1 /\ one[1] = r
      OBVIOUS
    <3> HIDE DEF one
    <3> QED BY <3>1, PagesOfOne DEF one
  <2>10. DOMAIN o.docs = 1..1 /\ o.docs[1] = <<r>>
    BY <2>7
  <2>11. n = 1
    BY <1>1
  <2>12. Made(o.docs) /\ AllAsked(f, o.docs)
    BY <2>6, <2>8, <2>10 DEF Made, AllAsked
  <2>13. Same(PagesOf(o.docs[1]), PagesOf(cs[1]))
    BY <2>4, <2>6, <2>9, <2>10
  <2> QED BY <1>1, <2>10, <2>11, <2>12, <2>13 DEF Delivers
<1>2. CASE ~(f.unify /\ f.mode = "pages" /\ Len(cs) = 1)
  <2> DEFINE outs == [i \in DOMAIN cs |-> EncryptChunks(f, cs[i])]
  <2>1. o \in Each(outs)
    BY <1>2 DEF Delivered
  <2>2. DOMAIN outs = 1..n /\ \A i \in 1..n : outs[i] = EncryptChunks(f, cs[i])
    OBVIOUS
  <2> HIDE DEF outs
  <2>3. DOMAIN o.docs = 1..n /\ \A i \in 1..n : \E a \in outs[i] : Succeeded(a) /\ o.docs[i] = a.docs
    BY <2>1, <2>2, EachMakes
  <2>4. ASSUME NEW i \in 1..n
        PROVE  /\ Documents(o.docs[i]) /\ \A c \in DOMAIN o.docs[i] : Asked(f, o.docs[i][c])
               /\ PagesOf(o.docs[i]) = PagesOf(cs[i])
    <3>1. PICK a \in EncryptChunks(f, cs[i]) : Succeeded(a) /\ o.docs[i] = a.docs
      BY <2>2, <2>3
    <3>2. Documents(cs[i])
      OBVIOUS
    <3> QED BY <3>1, <3>2, EncryptChunksMake
  <2>8. \A i \in 1..n : Delivers(f, PagesOf(o.docs[i]), PagesOf(cs[i]))
    BY <2>4 DEF Delivers, Same
  <2>5. ASSUME NEW i \in 1..n, NEW d \in Range(o.docs[i]) PROVE IsDocument(d) /\ Asked(f, d)
    BY <2>4 DEF Documents, Range
  <2>6. DOMAIN o.docs = 1..n
    BY <2>3
  <2>7. Made(o.docs) /\ AllAsked(f, o.docs)
    BY <2>5, <2>6 DEF Made, AllAsked, DocsOf
  <2> QED BY <2>6, <2>7, <2>8
<1> QED BY <1>1, <1>2

\* What the route makes of the pages of a file.
SplitDelivers(f, d, cs) ==
  Delivers(f, PagesOf(cs), IF f.mode = "intervals" THEN d.pages ELSE Chosen(f.ranges, d.pages))

\* The split route: documents with the passwords asked for, of no locked file.
LEMMA SplitFilesSucceed ==
  ASSUME NEW f, NEW ds, Documents(ds), f.mode = "intervals" => f.span \in Nat,
         NEW o \in SplitFiles(f, ds), Succeeded(o)
  PROVE  /\ NoneLocked(ds) /\ Made(o.docs) /\ AllAsked(f, o.docs)
         /\ DOMAIN o.docs = DOMAIN ds /\ \A i \in DOMAIN ds : SplitDelivers(f, ds[i], o.docs[i])
<1> DEFINE n == Len(ds)
           outs == [i \in DOMAIN ds |-> FileChunks(f, ds[i])]
<1>1. n \in Nat /\ DOMAIN ds = 1..n /\ DOMAIN outs = 1..n
      /\ \A i \in 1..n : IsDocument(ds[i]) /\ outs[i] = FileChunks(f, ds[i])
  BY DEF Documents
<1>2. PICK a \in Each(outs) : Succeeded(a) /\ o \in Delivered(f, a.docs)
  BY DEF SplitFiles, Then
<1> HIDE DEF n, outs
<1>3. /\ DOMAIN a.docs = 1..n /\ Len(a.docs) = n
      /\ \A i \in 1..n : \E b \in outs[i] : Succeeded(b) /\ a.docs[i] = b.docs
  <2>1. n \in Nat /\ DOMAIN outs = 1..n /\ a \in Each(outs) /\ Succeeded(a)
    BY <1>1, <1>2
  <2> QED BY <2>1, EachMakes
<1>4. ASSUME NEW i \in 1..n
      PROVE  ~NeedsPassword(ds[i]) /\ Documents(a.docs[i]) /\ SplitKeeps(f, ds[i], a.docs[i])
  <2>1. PICK b \in FileChunks(f, ds[i]) : Succeeded(b) /\ a.docs[i] = b.docs
    BY <1>1, <1>3
  <2>2. IsDocument(ds[i])
    BY <1>1
  <2> QED BY <2>1, <2>2, FileChunksMake
<1>5. /\ Made(o.docs) /\ AllAsked(f, o.docs)
      /\ DOMAIN o.docs = 1..n /\ \A i \in 1..n : Delivers(f, PagesOf(o.docs[i]), PagesOf(a.docs[i]))
  <2> DEFINE cs == a.docs
  <2>1. DOMAIN cs = 1..n /\ Len(cs) = n /\ (\A i \in 1..n : Documents(cs[i])) /\ o \in Delivered(f, cs)
    BY <1>2, <1>3, <1>4
  <2> HIDE DEF cs
  <2>2. /\ Made(o.docs) /\ AllAsked(f, o.docs)
        /\ DOMAIN o.docs = 1..n /\ \A i \in 1..n : Delivers(f, PagesOf(o.docs[i]), PagesOf(cs[i]))
    BY <1>1, <2>1, DeliveredMakes
  <2> QED BY <2>2 DEF cs
<1>6. \A i \in 1..n : SplitDelivers(f, ds[i], o.docs[i])
  BY <1>4, <1>5 DEF SplitKeeps, SplitDelivers
<1> QED BY <1>1, <1>4, <1>5, <1>6 DEF NoneLocked

-----------------------------------------------------------------------------
(* The rules of the passwords, route by route.                             *)

\* What LockedContentStaysLocked and AskedPasswordLocks say of one answer.
ComesOf(by, f, n, docs, i) ==
  IF Len(docs) = n THEN Range(docs[i])
  ELSE IF f.route = "office" /\ by = "worker" /\ i > 1 THEN {}
  ELSE DocsOf(docs)
LockRule(by, f, ds, docs) ==
  \A i \in DOMAIN ds : NeedsPassword(ds[i]) =>
    CASE f.route \in {"metadata_read", "cli_metadata_read"} -> FALSE
      [] f.route = "bookmarks_read" -> docs[i] \in {<<>>, <<<<>>>>}
      [] f.route \in {"decrypt", "cli_decrypt"} -> f.password \in {ds[i].user, ds[i].owner}
      [] OTHER -> \A d \in ComesOf(by, f, Len(ds), docs, i) : NeedsPassword(d)
AskRule(by, f, n, docs) ==
  (by # "worker" /\ Honours(f, n)) =>
    \A d \in DocsOf(docs) :
      /\ Asked(f, d)
      /\ (f.meta /\ f.title # "-" /\ f.route # "split" /\ f.route # "encrypt") => d.title = f.title
Rules(by, f, ds, docs) ==
  /\ f.route \notin Reading => Made(docs)
  /\ LockRule(by, f, ds, docs)
  /\ AskRule(by, f, Len(ds), docs)

\* A route that refuses locked files and honours no password keeps the rules.
LEMMA GatedRules ==
  ASSUME NEW by, NEW f, NEW ds, NEW docs, Documents(ds), NoneLocked(ds), OneEach(docs, Len(ds)),
         by = "worker" \/ ~Honours(f, Len(ds))
  PROVE  Rules(by, f, ds, docs)
BY OneEachMade DEF Rules, LockRule, AskRule, NoneLocked, Documents

\* The route encrypt.
LEMMA EncryptFilesRules ==
  ASSUME NEW f, NEW ds, Documents(ds), f.route = "encrypt", NEW o \in EncryptFiles(f, ds), Succeeded(o)
  PROVE  Rules("handler", f, ds, o.docs)
<1> DEFINE n == Len(ds)
           outs == [i \in DOMAIN ds |-> EncryptPdf(ds[i], f.user, f.owner)]
           docs == o.docs
<1>1. n \in Nat /\ DOMAIN outs = 1..n /\ DOMAIN ds = 1..n
      /\ \A i \in 1..n : IsDocument(ds[i]) /\ outs[i] = EncryptPdf(ds[i], f.user, f.owner)
  BY DEF Documents
<1>2. o \in Each(outs)
  BY DEF EncryptFiles
<1> HIDE DEF n, outs
<1>3. /\ DOMAIN docs = 1..n /\ Len(docs) = n
      /\ \A i \in 1..n : \E a \in outs[i] : Succeeded(a) /\ docs[i] = a.docs
  BY <1>1, <1>2, EachMakes
<1>4. ASSUME NEW i \in 1..n
      PROVE  /\ ~NeedsPassword(ds[i])
             /\ \E r : docs[i] = <<r>> /\ IsDocument(r) /\ Asked(f, r)
  <2>1. PICK a \in EncryptPdf(ds[i], f.user, f.owner) : Succeeded(a) /\ docs[i] = a.docs
    BY <1>1, <1>3
  <2>2. ~NeedsPassword(ds[i]) /\ a = Done(<<Secured(ds[i], f.user, f.owner)>>)
    BY <2>1, EncryptSucceeds
  <2>3. docs[i] = <<Secured(ds[i], f.user, f.owner)>>
    BY <2>1, <2>2, Outcomes
  <2>4. IsDocument(ds[i])
    BY <1>1
  <2> QED BY <2>2, <2>3, <2>4, SecuredFacts DEF Asked, NeedsPassword
<1> HIDE DEF docs
<1>5. \A d \in DocsOf(docs) : IsDocument(d) /\ Asked(f, d)
  BY <1>3, <1>4 DEF DocsOf, Range
<1>6. LockRule("handler", f, ds, docs)
  BY <1>1, <1>4 DEF LockRule
<1>7. AskRule("handler", f, n, docs)
  BY <1>5 DEF AskRule
<1> QED BY <1>5, <1>6, <1>7 DEF Rules, Made, n, docs

\* A document for each of none, or one for all.
LEMMA OneOfAll ==
  ASSUME NEW by, NEW f, NEW ds, NEW docs, NoneLocked(ds), NEW r, docs = <<<<r>>>>, IsDocument(r),
         by = "worker" \/ ~Honours(f, Len(ds)) \/ (Asked(f, r) /\ TitleAsked(f, r))
  PROVE  Rules(by, f, ds, docs)
<1>1. DocsOf(docs) = {r}
  BY OneMade
<1>2. LockRule(by, f, ds, docs)
  BY DEF LockRule, NoneLocked
<1>3. AskRule(by, f, Len(ds), docs)
  BY <1>1 DEF AskRule, TitleAsked
<1> QED BY <1>1, <1>2, <1>3 DEF Rules, Made

\* No document at all.
LEMMA NoDocument ==
  ASSUME NEW by, NEW f, NEW ds, NoneLocked(ds)
  PROVE  Rules(by, f, ds, <<<<>>>>)
<1>1. DocsOf(<<<<>>>>) = {}
  BY DEF DocsOf, Range
<1>2. LockRule(by, f, ds, <<<<>>>>)
  BY DEF LockRule, NoneLocked
<1> QED BY <1>1, <1>2 DEF Rules, Made, AskRule

\* The route merge.
LEMMA MergeRules ==
  ASSUME NEW f, IsSequence(f.marks), NEW ds, Documents(ds), f.route = "merge", NEW o \in MergeFiles(f, ds), Succeeded(o)
  PROVE  Rules("handler", f, ds, o.docs)
<1>1. /\ \A i \in DOMAIN ds : ~NeedsPassword(ds[i])
      /\ \E r : o = Done(<<<<r>>>>) /\ IsDocument(r) /\ Asked(f, r) /\ TitleAsked(f, r)
  <2>1. Len(ds) \in Nat /\ DOMAIN ds = 1..Len(ds) /\ \A i \in DOMAIN ds : IsDocument(ds[i])
    BY DEF Documents
  <2> QED BY <2>1, MergeFilesSucceed
<1>2. PICK r : o = Done(<<<<r>>>>) /\ IsDocument(r) /\ Asked(f, r) /\ TitleAsked(f, r)
  BY <1>1
<1>3. o.docs = <<<<r>>>>
  BY <1>2, Outcomes
<1> QED BY <1>1, <1>2, <1>3, OneOfAll DEF NoneLocked

\* The route split.
LEMMA SplitRules ==
  ASSUME NEW f, NEW ds, Documents(ds), f.route = "split", f.mode = "intervals" => f.span \in Nat,
         NEW o \in SplitFiles(f, ds), Succeeded(o)
  PROVE  Rules("handler", f, ds, o.docs)
<1>1. NoneLocked(ds) /\ Made(o.docs) /\ AllAsked(f, o.docs)
  BY SplitFilesSucceed
<1> QED BY <1>1 DEF Rules, LockRule, AskRule, AllAsked, NoneLocked

\* The route flatten.
LEMMA FlattenRules ==
  ASSUME NEW by, NEW f, NEW ds, Documents(ds), f.route = "flatten", NEW o \in FlattenFiles(ds), Succeeded(o)
  PROVE  Rules(by, f, ds, o.docs)
<1> DEFINE outs == [i \in DOMAIN ds |-> Flatten(ds[i])]
<1>1. o \in Each(outs) /\ DOMAIN outs = DOMAIN ds
  BY DEF FlattenFiles
<1>2. \A i \in DOMAIN ds : IsDocument(ds[i]) /\ outs[i] = Flatten(ds[i])
  BY DEF Documents
<1> HIDE DEF outs
<1>3. NoneLocked(ds) /\ OneEach(o.docs, Len(ds))
  BY <1>1, <1>2, EachGated, FlattenMakes
<1> QED BY <1>3, GatedRules DEF Honours

\* The route that writes metadata.
LEMMA WriteMetadataRules ==
  ASSUME NEW by, NEW f, NEW ds, Documents(ds), f.route = "metadata_write",
         NEW o \in WriteMetadataOfFiles(f, ds), Succeeded(o)
  PROVE  Rules(by, f, ds, o.docs)
<1> DEFINE outs == [i \in DOMAIN ds |-> WriteMetadata(ds[i], Meta(f))]
<1>1. o \in Each(outs) /\ DOMAIN outs = DOMAIN ds
  BY DEF WriteMetadataOfFiles
<1>2. \A i \in DOMAIN ds : IsDocument(ds[i]) /\ outs[i] = WriteMetadata(ds[i], Meta(f))
  BY DEF Documents
<1> HIDE DEF outs
<1>3. NoneLocked(ds) /\ OneEach(o.docs, Len(ds))
  BY <1>1, <1>2, EachGated, WriteMetadataMakes
<1> QED BY <1>3, GatedRules DEF Honours

\* The route rotate.
LEMMA RotateRules ==
  ASSUME NEW f, NEW ds, Documents(ds), f.route = "rotate", f.angle \in Int,
         NEW o \in RotateFiles(f, ds), Succeeded(o)
  PROVE  Rules("handler", f, ds, o.docs)
<1> DEFINE rs == IF f.ranges = <<>> THEN <<[from |-> 1, to |-> 0]>> ELSE f.ranges
           outs == [i \in DOMAIN ds |-> AsInternal(Rotate(ds[i], rs, f.angle))]
<1>1. o \in Each(outs) /\ DOMAIN outs = DOMAIN ds
  BY DEF RotateFiles
<1>2. \A i \in DOMAIN ds : IsDocument(ds[i]) /\ outs[i] = AsInternal(Rotate(ds[i], rs, f.angle))
  BY DEF Documents
<1> HIDE DEF outs, rs
<1>3. NoneLocked(ds) /\ OneEach(o.docs, Len(ds))
  BY <1>1, <1>2, EachGated, RotateMakes
<1> QED BY <1>3, GatedRules DEF Honours

\* The route that attaches files.
LEMMA EmbedRules ==
  ASSUME NEW f, NEW ds, Documents(ds), f.route = "embed", NEW o \in EmbedInFile(f, ds), Succeeded(o)
  PROVE  Rules("handler", f, ds, o.docs)
<1> DEFINE outs == [i \in DOMAIN ds |-> AsInternal(Attach(ds[i], f.embeds))]
<1>1. o \in Each(outs) /\ DOMAIN outs = DOMAIN ds
  BY DEF EmbedInFile
<1>2. \A i \in DOMAIN ds : IsDocument(ds[i]) /\ outs[i] = AsInternal(Attach(ds[i], f.embeds))
  BY DEF Documents
<1> HIDE DEF outs
<1>3. NoneLocked(ds) /\ OneEach(o.docs, Len(ds))
  BY <1>1, <1>2, EachGated, AttachMakes
<1> QED BY <1>3, GatedRules DEF Honours

\* The routes watermark and stamp.
LEMMA DrawRules ==
  ASSUME NEW f, NEW ds, Documents(ds), f.route \in {"watermark", "stamp"},
         NEW o \in WatermarkFiles(f, ds), Succeeded(o)
  PROVE  Rules("handler", f, ds, o.docs)
<1> DEFINE outs == [i \in DOMAIN ds |-> AsInternal(Watermark(ds[i], WatermarkOptions(f)))]
<1>1. o \in Each(outs) /\ DOMAIN outs = DOMAIN ds
  BY DEF WatermarkFiles
<1>2. \A i \in DOMAIN ds : IsDocument(ds[i]) /\ outs[i] = AsInternal(Watermark(ds[i], WatermarkOptions(f)))
  BY DEF Documents
<1> HIDE DEF outs
<1>3. NoneLocked(ds) /\ OneEach(o.docs, Len(ds))
  BY <1>1, <1>2, EachGated, WatermarkMakes
<1> QED BY <1>3, GatedRules DEF Honours

\* The route optimise.
LEMMA OptimiseRules ==
  ASSUME NEW by, NEW f, NEW ds, Documents(ds), f.route = "optimise", NEW o \in OptimiseFile(f, ds), Succeeded(o)
  PROVE  Rules(by, f, ds, o.docs)
<1> DEFINE outs == [i \in DOMAIN ds |-> OptimisePdf(ds[i], f.backend)]
<1>1. o \in Each(outs) /\ DOMAIN outs = DOMAIN ds
  BY DEF OptimiseFile
<1>2. \A i \in DOMAIN ds : IsDocument(ds[i]) /\ outs[i] = OptimisePdf(ds[i], f.backend)
  BY DEF Documents
<1> HIDE DEF outs
<1>3. NoneLocked(ds) /\ OneEach(o.docs, Len(ds))
  BY <1>1, <1>2, EachGated, OptimiseSucceeds, ToolsMake
<1> QED BY <1>3, GatedRules DEF Honours

\* PDF/UA alone returns a locked file as it is: locked.
LEMMA ConvertRules ==
  ASSUME NEW f, NEW ds, Documents(ds), f.route = "convert", NEW o \in ConvertFiles(f, ds), Succeeded(o)
  PROVE  Rules("handler", f, ds, o.docs)
<1> DEFINE n == Len(ds)
           docs == o.docs
           outs == [i \in DOMAIN ds |->
                      IF f.pdfa = Absent THEN {Done(<<ds[i]>>)} ELSE AsInternal(ConvertToPdfA(ds[i]))]
<1>1. o \in Each(outs) /\ DOMAIN outs = DOMAIN ds
  BY DEF ConvertFiles
<1>2. \A i \in DOMAIN ds :
        IsDocument(ds[i]) /\ outs[i] = IF f.pdfa = Absent THEN {Done(<<ds[i]>>)} ELSE AsInternal(ConvertToPdfA(ds[i]))
  BY DEF Documents
<1>3. n \in Nat /\ DOMAIN ds = 1..n
  BY DEF Documents
<1>4. CASE f.pdfa # Absent
  <2>1. \A i \in DOMAIN ds : outs[i] = AsInternal(ConvertToPdfA(ds[i])) /\ IsDocument(ds[i])
    BY <1>2, <1>4
  <2> HIDE DEF outs
  <2>2. NoneLocked(ds) /\ OneEach(o.docs, Len(ds))
    BY <1>1, <2>1, EachGated, AsInternalSucceeds, ConvertSucceeds, ToolsMake
  <2> QED BY <2>2, GatedRules DEF Honours
<1>5. CASE f.pdfa = Absent
  <2>1. \A i \in DOMAIN ds : outs[i] = {Done(<<ds[i]>>)}
    BY <1>2, <1>5
  <2> HIDE DEF outs, n
  <2>2. /\ DOMAIN docs = 1..n /\ Len(docs) = n
        /\ \A i \in 1..n : \E a \in outs[i] : Succeeded(a) /\ docs[i] = a.docs
    BY <1>1, <1>3, EachMakes
  <2> HIDE DEF docs
  <2>3. ASSUME NEW i \in 1..n PROVE docs[i] = <<ds[i]>>
    <3>1. PICK a \in outs[i] : docs[i] = a.docs
      BY <2>2
    <3>2. a = Done(<<ds[i]>>)
      BY <1>3, <2>1, <3>1
    <3> QED BY <3>1, <3>2, Outcomes
  <2>4. Made(docs)
    <3>1. \A i \in 1..n : IsDocument(ds[i])
      BY <1>2, <1>3
    <3>2. \A d \in DocsOf(docs) : \E i \in 1..n : d = ds[i]
      BY <2>2, <2>3 DEF DocsOf, Range
    <3> QED BY <3>1, <3>2 DEF Made
  <2>5. \A i \in 1..n : Range(docs[i]) = {ds[i]}
    BY <2>3 DEF Range
  <2>6. LockRule("handler", f, ds, docs)
    BY <1>3, <2>2, <2>5 DEF LockRule, ComesOf, n
  <2> QED BY <2>4, <2>6 DEF Rules, AskRule, Honours, docs
<1> QED BY <1>4, <1>5

\* A locked file keeps its lock with its new bookmarks.
LEMMA WriteBookmarksRules ==
  ASSUME NEW f, IsSequence(f.marks), NEW parts, NEW ds, Documents(ds), f.route = "bookmarks_write",
         NEW o \in WriteBookmarksOfFiles(f, parts, ds), Succeeded(o)
  PROVE  Rules("handler", f, ds, o.docs)
<1> DEFINE n == Len(ds)
           docs == o.docs
           bs(i) == BookmarksFor(f, parts[i].name)
           outs == [i \in DOMAIN ds |-> AsInternal(WriteBookmarks(ds[i], BookmarksFor(f, parts[i].name)))]
<1>1. o \in Each(outs) /\ DOMAIN outs = DOMAIN ds
  BY DEF WriteBookmarksOfFiles
<1>2. \A i \in DOMAIN ds : IsDocument(ds[i]) /\ outs[i] = AsInternal(WriteBookmarks(ds[i], bs(i)))
  BY DEF Documents
<1>3. n \in Nat /\ DOMAIN ds = 1..n
  BY DEF Documents
<1> HIDE DEF outs, n, bs
<1>4. /\ DOMAIN docs = 1..n /\ Len(docs) = n
      /\ \A i \in 1..n : \E a \in outs[i] : Succeeded(a) /\ docs[i] = a.docs
  BY <1>1, <1>3, EachMakes
<1>5. ASSUME NEW i \in 1..n
      PROVE  \E r : docs[i] = <<r>> /\ IsDocument(r) /\ r.user = ds[i].user
  <2>1. PICK a \in AsInternal(WriteBookmarks(ds[i], bs(i))) : Succeeded(a) /\ docs[i] = a.docs
    BY <1>2, <1>3, <1>4
  <2>2. a = Done(<<WithBookmarks(ds[i], bs(i))>>)
    BY <2>1, AsInternalSucceeds, WriteBookmarksSucceeds
  <2>3. docs[i] = <<WithBookmarks(ds[i], bs(i))>>
    BY <2>1, <2>2, Outcomes
  <2>4. IsDocument(ds[i]) /\ IsSequence(bs(i))
    BY <1>2, <1>3, EmptySeq DEF bs, BookmarksFor, IsSequence
  <2> QED BY <2>3, <2>4, WithBookmarksFacts
<1> HIDE DEF docs
<1>6. Made(docs)
  BY <1>4, <1>5 DEF Made, DocsOf, Range
<1>7. \A i \in 1..n : \A d \in Range(docs[i]) : d.user = ds[i].user
  BY <1>5 DEF Range
<1>8. LockRule("handler", f, ds, docs)
  BY <1>3, <1>4, <1>7 DEF LockRule, ComesOf, NeedsPassword, n
<1> QED BY <1>6, <1>8 DEF Rules, AskRule, Honours, docs

-----------------------------------------------------------------------------
(* The routes that read, unlock, or make documents of pages and of files.  *)

\* The routes that file their answers by name.
LEMMA ByNameSucceeds ==
  ASSUME NEW parts, NEW outs, NEW o \in ByName(parts, outs), Succeeded(o)
  PROVE  \E a \in outs : Succeeded(a) /\ o.docs = LastOfName(parts, a.docs)
BY Outcomes DEF ByName

\* Metadata is read of no locked file.
LEMMA ReadMetadataEach ==
  ASSUME NEW ds, Documents(ds), NEW o \in Each([i \in DOMAIN ds |-> ReadMetadata(ds[i])]), Succeeded(o)
  PROVE  NoneLocked(ds)
<1> DEFINE n == Len(ds)
           outs == [i \in DOMAIN ds |-> ReadMetadata(ds[i])]
<1>1. n \in Nat /\ DOMAIN outs = 1..n /\ DOMAIN ds = 1..n /\ \A i \in 1..n : outs[i] = ReadMetadata(ds[i])
  BY DEF Documents
<1>2. o \in Each(outs)
  OBVIOUS
<1> HIDE DEF n, outs
<1>3. \A i \in 1..n : \E a \in outs[i] : Succeeded(a)
  BY <1>1, <1>2, EachMakes
<1> QED BY <1>1, <1>3, ReadMetadataSucceeds DEF NoneLocked

\* The route that reads metadata.
LEMMA ReadMetadataRules ==
  ASSUME NEW by, NEW f, NEW ds, Documents(ds), f.route = "metadata_read", NEW docs, NoneLocked(ds)
  PROVE  Rules(by, f, ds, docs)
BY DEF Rules, LockRule, AskRule, Honours, Reading, NoneLocked

\* The route that reads bookmarks: none of a locked file.
LEMMA ReadBookmarksRules ==
  ASSUME NEW f, NEW parts, NEW ds, Documents(ds), f.route = "bookmarks_read",
         NEW o \in ReadBookmarksOfFiles(parts, ds), Succeeded(o)
  PROVE  Rules("handler", f, ds, o.docs)
<1> DEFINE n == Len(ds)
           outs == [i \in DOMAIN ds |-> AsInternal(ReadBookmarks(ds[i]))]
<1>1. n \in Nat /\ DOMAIN outs = 1..n /\ DOMAIN ds = 1..n /\ \A i \in 1..n : outs[i] = AsInternal(ReadBookmarks(ds[i]))
  BY DEF Documents
<1>2. PICK a \in Each(outs) :
        Succeeded(a) /\ o.docs = LastOfName(parts, a.docs)
  <2>1. o \in ByName(parts, Each(outs))
    BY DEF ReadBookmarksOfFiles
  <2> HIDE DEF n, outs
  <2> QED BY <2>1, ByNameSucceeds
<1> HIDE DEF n, outs
<1>3. DOMAIN a.docs = 1..n /\ \A i \in 1..n : \E b \in outs[i] : Succeeded(b) /\ a.docs[i] = b.docs
  BY <1>1, <1>2, EachMakes
<1>4. ASSUME NEW i \in 1..n, NeedsPassword(ds[i]) PROVE a.docs[i] = <<<<>>>>
  <2>1. PICK b \in AsInternal(ReadBookmarks(ds[i])) : Succeeded(b) /\ a.docs[i] = b.docs
    BY <1>1, <1>3
  <2>2. b = Done(<<<<>>>>)
    BY <1>4, <2>1, AsInternalSucceeds, ReadBookmarksSucceeds
  <2> QED BY <2>1, <2>2, Outcomes
<1>5. \A i \in 1..n : o.docs[i] = <<>> \/ o.docs[i] = a.docs[i]
  BY <1>2, <1>3 DEF LastOfName
<1>6. LockRule("handler", f, ds, o.docs)
  BY <1>1, <1>4, <1>5 DEF LockRule
<1> QED BY <1>6 DEF Rules, AskRule, Honours, Reading

\* The route decrypt.
LEMMA DecryptRules ==
  ASSUME NEW by, NEW f, NEW ds, Documents(ds), f.route = "decrypt", NEW o \in DecryptFile(f, ds), Succeeded(o)
  PROVE  Rules(by, f, ds, o.docs)
<1> DEFINE n == Len(ds)
           docs == o.docs
           outs == [i \in DOMAIN ds |-> DecryptPdf(ds[i], f.password)]
<1>1. n \in Nat /\ DOMAIN outs = 1..n /\ DOMAIN ds = 1..n
      /\ \A i \in 1..n : IsDocument(ds[i]) /\ outs[i] = DecryptPdf(ds[i], f.password)
  BY DEF Documents
<1>2. o \in Each(outs)
  BY DEF DecryptFile
<1> HIDE DEF n, outs
<1>3. /\ DOMAIN docs = 1..n /\ Len(docs) = n
      /\ \A i \in 1..n : \E a \in outs[i] : Succeeded(a) /\ docs[i] = a.docs
  BY <1>1, <1>2, EachMakes
<1>4. ASSUME NEW i \in 1..n
      PROVE  /\ NeedsPassword(ds[i]) => f.password \in {ds[i].user, ds[i].owner}
             /\ \E r : docs[i] = <<r>> /\ IsDocument(r)
  <2>1. PICK a \in DecryptPdf(ds[i], f.password) : Succeeded(a) /\ docs[i] = a.docs
    BY <1>1, <1>3
  <2>2. /\ NeedsPassword(ds[i]) => f.password \in {ds[i].user, ds[i].owner}
        /\ a = Done(<<Renumbered(Unlocked(ds[i]))>>)
    BY <2>1, DecryptSucceeds
  <2>3. docs[i] = <<Renumbered(Unlocked(ds[i]))>>
    BY <2>1, <2>2, Outcomes
  <2>4. IsDocument(ds[i])
    BY <1>1
  <2> QED BY <2>2, <2>3, <2>4, UnlockedFacts, RenumberedFacts
<1> HIDE DEF docs
<1>5. Made(docs)
  BY <1>3, <1>4 DEF Made, DocsOf, Range
<1>6. LockRule(by, f, ds, docs)
  BY <1>1, <1>4 DEF LockRule
<1> QED BY <1>5, <1>6 DEF Rules, AskRule, Honours, docs

-----------------------------------------------------------------------------
(* The page routes and the office.                                         *)

\* The routes of a page, with the fields of their form.
LEMMA HtmlMakes ==
  ASSUME NEW f, NEW o \in HtmlPage(f), Succeeded(o)
  PROVE  \E r : o = Done(<<r>>) /\ IsDocument(r) /\ Asked(f, r) /\ TitleAsked(f, r)
<1>1. PICK a \in Render : Succeeded(a) /\ o \in Bind(NativeRanges(f, a.docs[1]), LAMBDA x : Finished(x, f))
  BY DEF HtmlPage, Bind
<1>2. a.docs[1] = Rendered
  BY <1>1, RenderMakes, Outcomes
<1>3. PICK b \in NativeRanges(f, Rendered) : Succeeded(b) /\ o \in Finished(b.docs[1], f)
  BY <1>1, <1>2 DEF Bind
<1>4. b = Done(<<Rendered>>)
  BY <1>3, Outcomes DEF NativeRanges
<1>5. o \in Finished(Rendered, f) /\ IsDocument(Rendered)
  BY <1>3, <1>4, Outcomes, RenderedFacts
<1> DEFINE d == Rendered
<1> HIDE DEF d
<1>6. o \in Finished(d, f) /\ IsDocument(d)
  BY <1>5 DEF d
<1>7. PICK r : o = Done(<<r>>) /\ IsDocument(r) /\ r.pages = d.pages /\ Asked(f, r) /\ TitleAsked(f, r)
  BY <1>6, FinishedSucceeds
<1> QED BY <1>7

\* The same for markdown.
LEMMA MarkdownMakes ==
  ASSUME NEW f, NEW o \in MarkdownPage(f), Succeeded(o)
  PROVE  \E r : o = Done(<<r>>) /\ IsDocument(r) /\ Asked(f, r) /\ TitleAsked(f, r)
<1>1. PICK a \in Render : Succeeded(a) /\ o \in Finished(a.docs[1], f)
  BY DEF MarkdownPage, Bind
<1>2. a.docs[1] = Rendered
  BY <1>1, RenderMakes, Outcomes
<1> DEFINE d == Rendered
<1>3. o \in Finished(d, f) /\ IsDocument(d)
  BY <1>1, <1>2, RenderedFacts
<1> HIDE DEF d
<1>4. PICK r : o = Done(<<r>>) /\ IsDocument(r) /\ r.pages = d.pages /\ Asked(f, r) /\ TitleAsked(f, r)
  BY <1>3, FinishedSucceeds
<1> QED BY <1>4

\* One document of a whole that is a set of one-document outcomes.
LEMMA WholeRules ==
  ASSUME NEW by, NEW f, NEW ds, NoneLocked(ds), NEW outs,
         \A a \in outs : Succeeded(a) =>
           \E r : /\ a = Done(<<r>>) /\ IsDocument(r)
                  /\ by = "worker" \/ ~Honours(f, Len(ds)) \/ (Asked(f, r) /\ TitleAsked(f, r)),
         NEW o \in Whole(outs), Succeeded(o)
  PROVE  Rules(by, f, ds, o.docs)
<1>1. PICK a \in outs : Succeeded(a) /\ o = Done(<<a.docs>>)
  BY WholeSucceeds
<1>2. PICK r : /\ a = Done(<<r>>) /\ IsDocument(r)
               /\ by = "worker" \/ ~Honours(f, Len(ds)) \/ (Asked(f, r) /\ TitleAsked(f, r))
  BY <1>1
<1>3. o.docs = <<<<r>>>>
  BY <1>1, <1>2, Outcomes
<1> QED BY <1>2, <1>3, OneOfAll

\* Images.
LEMMA ScreenshotRules ==
  ASSUME NEW by, NEW f, NEW ds, NoneLocked(ds),
         NEW o \in Whole(Screenshot) \cup Whole(Preview) \cup Whole(PreviewCompare), Succeeded(o)
  PROVE  Rules(by, f, ds, o.docs)
<1>1. PICK a \in Screenshot \cup Preview \cup PreviewCompare : Succeeded(a) /\ o = Done(<<a.docs>>)
  BY WholeSucceeds
<1>2. \A b \in Screenshot : Succeeded(b) => b = Done(<<>>)
  BY DEF Screenshot
<1>3. \A b \in Preview : Succeeded(b) => b = Done(<<>>)
  BY <1>2, AsInternalSucceeds DEF Preview
<1>4. \A b \in PreviewCompare : Succeeded(b) => b = Done(<<>>)
  BY <1>3 DEF PreviewCompare, Then
<1>5. o.docs = <<<<>>>>
  BY <1>1, <1>2, <1>3, <1>4, Outcomes
<1> QED BY <1>5, NoDocument

\* LibreOffice, for each of the files.
LEMMA PrintoutsMake ==
  ASSUME NEW ds, Documents(ds), NEW o \in Each(Printouts(ds)), Succeeded(o)
  PROVE  NoneLocked(ds) /\ OneEach(o.docs, Len(ds))
<1> DEFINE outs == Printouts(ds)
<1>1. DOMAIN outs = DOMAIN ds /\ \A i \in DOMAIN ds : IsDocument(ds[i]) /\ outs[i] = OfficeConvert(ds[i])
  BY DEF Printouts, Documents
<1>2. o \in Each(outs)
  OBVIOUS
<1> HIDE DEF outs
<1> QED BY <1>1, <1>2, EachGated, OfficeConvertMakes

\* The route office, on the spot.
LEMMA OfficeFilesRules ==
  ASSUME NEW f, NEW ds, Documents(ds), f.route = "office", NEW o \in OfficeFiles(f, ds), Succeeded(o)
  PROVE  Rules("handler", f, ds, o.docs)
<1> DEFINE n == Len(ds)
<1>0. n \in Nat /\ n = Len(ds)
  BY DEF Documents
<1> HIDE DEF n
<1>1. PICK b \in Singles(Each(Printouts(ds))) :
        /\ Succeeded(b)
        /\ o \in IF f.merge /\ Len(b.docs) > 1
                 THEN Whole(Bind(Merge(b.docs), LAMBDA d : Finished(d, f)))
                 ELSE IF Len(b.docs) = 1 THEN Whole(Finished(b.docs[1], f))
                 ELSE {Done([i \in DOMAIN b.docs |-> <<b.docs[i]>>])}
  BY DEF OfficeFiles, Then
<1>2. NoneLocked(ds)
  <2>1. \E a \in Each(Printouts(ds)) : Succeeded(a)
    BY <1>1, SinglesSucceed
  <2> QED BY <2>1, PrintoutsMake
<1>3. Len(b.docs) = n /\ Documents(b.docs)
  <2>1. \A a \in Each(Printouts(ds)) : Succeeded(a) => OneEach(a.docs, n)
    BY <1>0, PrintoutsMake
  <2> QED BY <1>0, <1>1, <2>1, SinglesMake
<1>4. CASE f.merge /\ n > 1
  <2> DEFINE outs == Bind(Merge(b.docs), LAMBDA d : Finished(d, f))
  <2>1. o \in Whole(outs)
    BY <1>1, <1>3, <1>4
  <2>2. ASSUME NEW a \in outs, Succeeded(a)
        PROVE  \E r : a = Done(<<r>>) /\ IsDocument(r) /\ Asked(f, r) /\ TitleAsked(f, r)
    <3>1. PICK m \in Merge(b.docs) : Succeeded(m) /\ a \in Finished(m.docs[1], f)
      BY <2>2 DEF Bind
    <3>2. PICK x : m = Done(<<x>>) /\ IsDocument(x)
      BY <1>3, <3>1, MergeMakes DEF Documents
    <3>3. m.docs[1] = x
      BY <3>2, Outcomes
    <3>4. PICK r : a = Done(<<r>>) /\ IsDocument(r) /\ r.pages = x.pages /\ Asked(f, r) /\ TitleAsked(f, r)
      BY <2>2, <3>1, <3>2, <3>3, FinishedSucceeds
    <3> QED BY <3>4
  <2> HIDE DEF outs
  <2> QED BY <1>2, <2>1, <2>2, WholeRules
<1>5. CASE ~(f.merge /\ n > 1) /\ n = 1
  <2>1. o \in Whole(Finished(b.docs[1], f))
    BY <1>1, <1>3, <1>5
  <2>2. IsDocument(b.docs[1])
    BY <1>3, <1>5 DEF Documents
  <2>3. ASSUME NEW a \in Finished(b.docs[1], f), Succeeded(a)
        PROVE  \E r : a = Done(<<r>>) /\ IsDocument(r) /\ Asked(f, r) /\ TitleAsked(f, r)
    <3> DEFINE x == b.docs[1]
    <3>1. a \in Finished(x, f) /\ IsDocument(x)
      BY <2>2
    <3> HIDE DEF x
    <3>2. PICK r : a = Done(<<r>>) /\ IsDocument(r) /\ r.pages = x.pages /\ Asked(f, r) /\ TitleAsked(f, r)
      BY <2>3, <3>1, FinishedSucceeds
    <3> QED BY <3>2
  <2> QED BY <1>2, <2>1, <2>3, WholeRules
<1>6. CASE ~(f.merge /\ n > 1) /\ n # 1
  <2>1. o = Done([i \in DOMAIN b.docs |-> <<b.docs[i]>>])
    BY <1>1, <1>3, <1>6
  <2>2. o.docs = [i \in DOMAIN b.docs |-> <<b.docs[i]>>]
    BY <2>1, Outcomes
  <2>3. OneEach(o.docs, n)
    <3>1. DOMAIN b.docs = 1..n /\ \A i \in 1..n : IsDocument(b.docs[i])
      BY <1>3 DEF Documents
    <3>2. DOMAIN o.docs = 1..n /\ Len(o.docs) = n /\ \A i \in 1..n : o.docs[i] = <<b.docs[i]>>
      BY <1>0, <2>2, <3>1
    <3> QED BY <3>1, <3>2 DEF OneEach
  <2>4. CASE n = 0
    <3>1. DocsOf(o.docs) = {}
      BY <2>3, <2>4 DEF OneEach, DocsOf
    <3> QED BY <1>2, <3>1 DEF Rules, Made, LockRule, AskRule, NoneLocked
  <2>5. CASE n # 0
    <3>1. ~Honours(f, n)
      BY <1>0, <1>6, <2>5 DEF Honours
    <3> QED BY <1>0, <1>2, <2>3, <3>1, GatedRules
  <2> QED BY <2>4, <2>5
<1> QED BY <1>4, <1>5, <1>6

-----------------------------------------------------------------------------
(* What a handler answers on the spot, and what a worker makes of a job.   *)

\* Intervals of a route have a length.
LEMMA SplitSpan ==
  ASSUME NEW f, NEW n, f.route = "split", Refusal(f, n) = "none", f.span \in Nat \cup {-1}
  PROVE  f.mode = "intervals" => f.span \in Nat
<1> SUFFICES ASSUME f.mode = "intervals" PROVE f.span \in Nat
  OBVIOUS
<1>1. First(<<Some(n), PdfATogether(f), StampFile(f), SplitModeField(f)>>) = "none"
  BY DEF Refusal
<1> DEFINE a == Some(n)
           b == PdfATogether(f)
           c == StampFile(f)
           s == SplitModeField(f)
<1>2. SplitModeField(f) = "none"
  <2>1. First(<<a, b, c, s>>) = "none"
    BY <1>1
  <2> HIDE DEF a, b, c, s
  <2>2. DOMAIN <<a, b, c, s>> \subseteq Nat /\ 4 \in DOMAIN <<a, b, c, s>> /\ <<a, b, c, s>>[4] = s
    OBVIOUS
  <2>3. s = "none"
    BY <2>1, <2>2, FirstNone
  <2> QED BY <2>3 DEF s
<1> DEFINE x == Unless(f.span # -1, "MissingField")
           y == Unless(f.bad # "span", "InvalidField")
<1>3. First(<<x, y>>) = "none"
  BY <1>2 DEF SplitModeField
<1>4. x = "none"
  <2> HIDE DEF x, y
  <2>1. DOMAIN <<x, y>> \subseteq Nat /\ 1 \in DOMAIN <<x, y>> /\ <<x, y>>[1] = x
    OBVIOUS
  <2> QED BY <1>3, <2>1, FirstNone
<1> QED BY <1>4 DEF Unless

\* The route office has a file.
LEMMA OfficeHasFiles ==
  ASSUME NEW f, NEW n \in Nat, f.route = "office", Refusal(f, n) = "none"
  PROVE  n # 0
<1> DEFINE a == OfficeOptions(f)
           b == MergeFlag(f)
           c == Some(n)
<1>1. First(<<a, b, c>>) = "none"
  BY DEF Refusal
<1>2. c = "none"
  <2> HIDE DEF a, b, c
  <2>1. DOMAIN <<a, b, c>> \subseteq Nat /\ 3 \in DOMAIN <<a, b, c>> /\ <<a, b, c>>[3] = c
    OBVIOUS
  <2> QED BY <1>1, <2>1, FirstNone
<1> QED BY <1>2 DEF Some, Unless

\* What a handler answers on the spot.
LEMMA AnswerRules ==
  ASSUME NEW f, NEW parts, NEW ds, Documents(ds), f.route \in PageRoutes \cup FileRoutes,
         f.route \in PageRoutes => Len(ds) = 0, f.angle \in Int, f.span \in Nat \cup {-1},
         IsSequence(f.marks), Refusal(f, Len(ds)) = "none", NEW o \in Convert(f, parts, ds), Succeeded(o)
  PROVE  Rules("handler", f, ds, o.docs)
<1>0. f.route \in PageRoutes => NoneLocked(ds)
  BY DEF NoneLocked, Documents
<1>1. CASE f.route = "merge"
  BY <1>1, MergeRules DEF Convert, Screenshots, Previews
<1>2. CASE f.route = "split"
  BY <1>2, SplitSpan, SplitRules DEF Convert, Screenshots, Previews
<1>3. CASE f.route = "flatten"
  BY <1>3, FlattenRules DEF Convert, Screenshots, Previews
<1>4. CASE f.route = "metadata_read"
  <2>1. o \in ReadMetadataOfFiles(parts, ds)
    BY <1>4 DEF Convert, Screenshots, Previews
  <2>2. \E a \in Each([i \in DOMAIN ds |-> ReadMetadata(ds[i])]) : Succeeded(a)
    BY <2>1, ByNameSucceeds DEF ReadMetadataOfFiles
  <2> QED BY <1>4, <2>2, ReadMetadataEach, ReadMetadataRules
<1>5. CASE f.route = "metadata_write"
  BY <1>5, WriteMetadataRules DEF Convert, Screenshots, Previews
<1>6. CASE f.route = "rotate"
  BY <1>6, RotateRules DEF Convert, Screenshots, Previews
<1>7. CASE f.route = "embed"
  BY <1>7, EmbedRules DEF Convert, Screenshots, Previews
<1>8. CASE f.route = "convert"
  BY <1>8, ConvertRules DEF Convert, Screenshots, Previews
<1>9. CASE f.route = "bookmarks_read"
  BY <1>9, ReadBookmarksRules DEF Convert, Screenshots, Previews
<1>10. CASE f.route = "bookmarks_write"
  BY <1>10, WriteBookmarksRules DEF Convert, Screenshots, Previews
<1>11. CASE f.route = "watermark"
  BY <1>11, DrawRules DEF Convert, Screenshots, Previews
<1>12. CASE f.route = "stamp"
  BY <1>12, DrawRules DEF Convert, Screenshots, Previews, StampFiles, WatermarkFiles
<1>13. CASE f.route = "encrypt"
  BY <1>13, EncryptFilesRules DEF Convert, Screenshots, Previews
<1>14. CASE f.route = "decrypt"
  BY <1>14, DecryptRules DEF Convert, Screenshots, Previews
<1>15. CASE f.route = "optimise"
  BY <1>15, OptimiseRules DEF Convert, Screenshots, Previews
<1>16. CASE f.route = "html"
  <2>1. o \in Whole(HtmlPage(f)) /\ NoneLocked(ds)
    BY <1>0, <1>16 DEF Convert, Screenshots, Previews, PageRoutes
  <2> QED BY <2>1, HtmlMakes, WholeRules
<1>17. CASE f.route = "url"
  <2>1. o \in Whole(Render) /\ NoneLocked(ds) /\ ~Honours(f, Len(ds))
    BY <1>0, <1>17 DEF Convert, Screenshots, Previews, UrlPage, PageRoutes, Honours
  <2> QED BY <2>1, RenderMakes, RenderedFacts, WholeRules
<1>18. CASE f.route = "markdown"
  <2>1. o \in Whole(MarkdownPage(f)) /\ NoneLocked(ds)
    BY <1>0, <1>18 DEF Convert, Screenshots, Previews, PageRoutes
  <2> QED BY <2>1, MarkdownMakes, WholeRules
<1>19. CASE f.route \in Screenshots \cup Previews \cup {"preview_compare"}
  <2>1. NoneLocked(ds)
    BY <1>0, <1>19 DEF PageRoutes
  <2>2. o \in Whole(Screenshot) \cup Whole(Preview) \cup Whole(PreviewCompare)
    BY <1>19 DEF Convert, Screenshots, Previews
  <2> QED BY <2>1, <2>2, ScreenshotRules
<1>20. CASE f.route = "office"
  BY <1>20, OfficeFilesRules DEF Convert, Screenshots, Previews
<1> QED BY <1>1, <1>2, <1>3, <1>4, <1>5, <1>6, <1>7, <1>8, <1>9, <1>10, <1>11, <1>12, <1>13, <1>14, <1>15,
           <1>16, <1>17, <1>18, <1>19, <1>20 DEF PageRoutes, FileRoutes

-----------------------------------------------------------------------------

\* An office job returns the first of its files.
LEMMA FirstOfficeRules ==
  ASSUME NEW f, NEW ds, Documents(ds), Len(ds) # 0, f.route = "office", NEW o \in Whole(OfficeConvert(ds[1])),
         Succeeded(o)
  PROVE  Rules("worker", f, ds, o.docs)
<1> DEFINE n == Len(ds)
           docs == o.docs
<1>1. n \in Nat /\ n # 0 /\ DOMAIN ds = 1..n /\ IsDocument(ds[1])
  BY DEF Documents
<1>2. PICK a \in OfficeConvert(ds[1]) : Succeeded(a) /\ o = Done(<<a.docs>>)
  BY WholeSucceeds
<1>3. ~NeedsPassword(ds[1]) /\ a = Done(<<Printout(ds[1])>>)
  BY <1>2, OfficeConvertSucceeds
<1>4. docs = <<<<Printout(ds[1])>>>>
  BY <1>2, <1>3, Outcomes
<1>5. IsDocument(Printout(ds[1]))
  BY <1>1, PrintoutFacts
<1>6. Made(docs)
  BY <1>4, <1>5, OneMade DEF Made
<1>7. LockRule("worker", f, ds, docs)
  <2>1. Len(docs) = 1
    BY <1>4
  <2> HIDE DEF n, docs
  <2>2. \A i \in 1..n : i # 1 => ComesOf("worker", f, n, docs, i) = {}
    BY <1>1, <2>1 DEF ComesOf
  <2> QED BY <1>1, <1>3, <2>2 DEF LockRule, n
<1> QED BY <1>6, <1>7 DEF Rules, AskRule

\* What a worker makes of a job.
LEMMA JobRules ==
  ASSUME NEW f, NEW ds, Documents(ds), f.route \in PageRoutes => Len(ds) = 0,
         Refusal(f, Len(ds)) = "none", Spawns(f, Len(ds)), NEW o \in RunJob(f, ds), Succeeded(o)
  PROVE  Rules("worker", f, ds, o.docs)
<1>0. f.route \in PageRoutes => NoneLocked(ds)
  BY DEF NoneLocked, Documents
<1>1. CASE f.route = "office"
  <2>1. Len(ds) \in Nat /\ Len(ds) # 0
    BY <1>1, OfficeHasFiles DEF Documents
  <2>2. CASE Len(ds) = 1 \/ f.merge
    BY <1>1, <2>1, <2>2, FirstOfficeRules DEF RunJob, OfficeJob
  <2>3. CASE ~(Len(ds) = 1 \/ f.merge)
    <3>1. o \in Each(Printouts(ds))
      BY <1>1, <2>3 DEF RunJob, OfficeJob
    <3> QED BY <3>1, PrintoutsMake, GatedRules
  <2> QED BY <2>2, <2>3
<1>2. CASE f.route \in {"html", "url", "markdown"}
  <2>1. o \in Whole(Render) /\ NoneLocked(ds)
    BY <1>0, <1>2 DEF RunJob, ChromiumJob, Screenshots, PageRoutes
  <2> QED BY <2>1, RenderMakes, RenderedFacts, WholeRules
<1>3. CASE f.route \in Screenshots
  <2>1. o \in Whole(Screenshot) /\ NoneLocked(ds)
    BY <1>0, <1>3 DEF RunJob, ChromiumJob, Screenshots, PageRoutes
  <2> QED BY <2>1, ScreenshotRules
<1>4. CASE f.route = "merge"
  <2>1. o \in Whole(Merge(ds))
    BY <1>4 DEF RunJob, PdfJob, Screenshots
  <2>2. PICK a \in Merge(ds) : Succeeded(a) /\ o = Done(<<a.docs>>)
    BY <2>1, WholeSucceeds
  <2>3. NoneLocked(ds) /\ \E r : a = Done(<<r>>) /\ IsDocument(r)
    BY <2>2, MergeMakes DEF Documents, NoneLocked
  <2>4. PICK r : a = Done(<<r>>) /\ IsDocument(r)
    BY <2>3
  <2>5. o.docs = <<<<r>>>>
    BY <2>2, <2>4, Outcomes
  <2> QED BY <2>3, <2>4, <2>5, OneOfAll
<1>5. CASE f.route = "flatten"
  BY <1>5, FlattenRules DEF RunJob, PdfJob, Screenshots
<1>6. CASE f.route = "metadata_read"
  <2>1. o \in Each([i \in DOMAIN ds |-> ReadMetadata(ds[i])])
    BY <1>6 DEF RunJob, PdfJob, Screenshots
  <2> QED BY <1>6, <2>1, ReadMetadataEach, ReadMetadataRules
<1>7. CASE f.route = "metadata_write"
  BY <1>7, WriteMetadataRules DEF RunJob, PdfJob, Screenshots
<1>8. CASE f.route = "decrypt"
  BY <1>8, DecryptRules DEF RunJob, PdfJob, Screenshots
<1>9. CASE f.route = "optimise"
  BY <1>9, OptimiseRules DEF RunJob, PdfJob, Screenshots
<1> QED BY <1>1, <1>2, <1>3, <1>4, <1>5, <1>6, <1>7, <1>8, <1>9 DEF Spawns

-----------------------------------------------------------------------------
(* The commands.                                                           *)

\* A command reads the file it is given.
LEMMA ReadInputSucceeds ==
  ASSUME NEW d, NEW o \in ReadInput(d), Succeeded(o)
  PROVE  o.docs[1] = d
BY Outcomes DEF ReadInput

\* It writes one document.
LEMMA WriteOutputSucceeds ==
  ASSUME NEW d, NEW o \in WriteOutput(d), Succeeded(o)
  PROVE  o = Done(<<d>>)
BY Outcomes DEF WriteOutput

\* The one file of a command.
LEMMA AloneUnlocked ==
  ASSUME NEW ds, Documents(ds), Len(ds) = 1
  PROVE  IsDocument(ds[1]) /\ (~NeedsPassword(ds[1]) => NoneLocked(ds))
BY DEF Documents, NoneLocked

\* The command merge.
LEMMA CliMergeRules ==
  ASSUME NEW f, NEW ds, Documents(ds), f.route = "cli_merge", NEW o \in Whole(RunMerge(f, ds)), Succeeded(o)
  PROVE  Rules("command", f, ds, o.docs)
<1>1. PICK b \in RunMerge(f, ds) : Succeeded(b) /\ o = Done(<<b.docs>>)
  BY WholeSucceeds
<1>2. b \in Bind({Fail("Io")} \cup Merge(ds), WriteOutput)
  BY <1>1, Outcomes DEF RunMerge
<1>3. PICK m \in {Fail("Io")} \cup Merge(ds) : Succeeded(m) /\ b \in WriteOutput(m.docs[1])
  BY <1>1, <1>2 DEF Bind
<1>4. m \in Merge(ds)
  BY <1>3, Outcomes
<1>5. NoneLocked(ds) /\ \E r : m = Done(<<r>>) /\ IsDocument(r)
  BY <1>3, <1>4, MergeMakes DEF Documents, NoneLocked
<1>6. PICK r : m = Done(<<r>>) /\ IsDocument(r)
  BY <1>5
<1>7. b = Done(<<r>>)
  BY <1>1, <1>3, <1>6, WriteOutputSucceeds, Outcomes
<1>8. o.docs = <<<<r>>>>
  BY <1>1, <1>7, Outcomes
<1> QED BY <1>5, <1>6, <1>8, OneOfAll DEF Honours

\* What a command that works on one document writes.
LEMMA WrittenRules ==
  ASSUME NEW f, NEW ds, NoneLocked(ds), NEW outs,
         \A a \in outs : Succeeded(a) =>
           \E r : /\ a = Done(<<r>>) /\ IsDocument(r)
                  /\ ~Honours(f, Len(ds)) \/ (Asked(f, r) /\ TitleAsked(f, r)),
         NEW o \in Whole(Bind(outs, WriteOutput)), Succeeded(o)
  PROVE  Rules("command", f, ds, o.docs)
<1>1. PICK b \in Bind(outs, WriteOutput) : Succeeded(b) /\ o = Done(<<b.docs>>)
  BY WholeSucceeds
<1>2. PICK a \in outs : Succeeded(a) /\ b \in WriteOutput(a.docs[1])
  BY <1>1 DEF Bind
<1>3. PICK r : /\ a = Done(<<r>>) /\ IsDocument(r)
               /\ ~Honours(f, Len(ds)) \/ (Asked(f, r) /\ TitleAsked(f, r))
  BY <1>2
<1>4. b = Done(<<r>>)
  BY <1>1, <1>2, <1>3, WriteOutputSucceeds, Outcomes
<1>5. o.docs = <<<<r>>>>
  BY <1>1, <1>4, Outcomes
<1> QED BY <1>3, <1>5, OneOfAll

\* The command flatten.
LEMMA CliFlattenRules ==
  ASSUME NEW f, NEW ds, Documents(ds), Len(ds) = 1, f.route = "cli_flatten",
         NEW o \in Whole(RunFlatten(ds[1])), Succeeded(o)
  PROVE  Rules("command", f, ds, o.docs)
<1> DEFINE outs == Bind(ReadInput(ds[1]), Flatten)
<1>1. ASSUME NEW a \in outs, Succeeded(a)
      PROVE  ~NeedsPassword(ds[1]) /\ \E r : a = Done(<<r>>) /\ IsDocument(r)
  <2>1. PICK b \in ReadInput(ds[1]) : Succeeded(b) /\ a \in Flatten(b.docs[1])
    BY <1>1 DEF Bind
  <2>2. a \in Flatten(ds[1]) /\ IsDocument(ds[1])
    BY <2>1, ReadInputSucceeds, AloneUnlocked
  <2> QED BY <1>1, <2>2, FlattenMakes
<1>2. o \in Whole(Bind(outs, WriteOutput))
  BY DEF RunFlatten
<1> HIDE DEF outs
<1>3. \E a \in outs : Succeeded(a)
  <2>1. PICK b \in Bind(outs, WriteOutput) : Succeeded(b)
    BY <1>2, WholeSucceeds
  <2> QED BY <2>1 DEF Bind
<1>4. NoneLocked(ds)
  BY <1>1, <1>3, AloneUnlocked
<1> QED BY <1>1, <1>2, <1>4, WrittenRules DEF Honours

\* The command that reads metadata.
LEMMA CliMetadataReadRules ==
  ASSUME NEW f, NEW ds, Documents(ds), Len(ds) = 1, f.route = "cli_metadata_read",
         NEW o \in Whole(RunMetadataRead(ds[1])), Succeeded(o)
  PROVE  Rules("command", f, ds, o.docs)
<1>1. PICK b \in RunMetadataRead(ds[1]) : Succeeded(b)
  BY WholeSucceeds
<1>2. PICK c \in ReadInput(ds[1]) : Succeeded(c) /\ b \in ReadMetadata(c.docs[1])
  BY <1>1 DEF RunMetadataRead, Bind
<1>3. ~NeedsPassword(ds[1])
  BY <1>1, <1>2, ReadInputSucceeds, ReadMetadataSucceeds
<1>4. NoneLocked(ds)
  BY <1>3, AloneUnlocked
<1> QED BY <1>4 DEF Rules, LockRule, AskRule, Honours, Reading, NoneLocked

\* The command that writes it.
LEMMA CliMetadataWriteRules ==
  ASSUME NEW f, NEW ds, Documents(ds), Len(ds) = 1, f.route = "cli_metadata_write",
         f.user = Absent, f.owner = Absent,
         NEW o \in Whole(RunMetadataWrite(f, ds[1])), Succeeded(o)
  PROVE  Rules("command", f, ds, o.docs)
<1>1. PICK b \in RunMetadataWrite(f, ds[1]) : Succeeded(b) /\ o = Done(<<b.docs>>)
  BY WholeSucceeds
<1>2. PICK c \in ReadInput(ds[1]) :
        /\ Succeeded(c)
        /\ b \in IF ApplySet(f) # "none" THEN {Fail(ApplySet(f))}
                 ELSE Bind(WriteMetadata(c.docs[1], Meta(f)), WriteOutput)
  BY <1>1 DEF RunMetadataWrite, Bind
<1>3. b \in Bind(WriteMetadata(ds[1], Meta(f)), WriteOutput)
  BY <1>1, <1>2, ReadInputSucceeds, Outcomes
<1>4. PICK a \in WriteMetadata(ds[1], Meta(f)) : Succeeded(a) /\ b \in WriteOutput(a.docs[1])
  BY <1>1, <1>3 DEF Bind
<1>5. ~NeedsPassword(ds[1]) /\ a = Done(<<Titled(Unlocked(ds[1]), f.title)>>)
  BY <1>4, WriteMetadataSucceeds DEF Meta
<1> DEFINE r == Titled(Unlocked(ds[1]), f.title)
<1>6. IsDocument(r) /\ Asked(f, r) /\ TitleAsked(f, r)
  <2>1. IsDocument(ds[1])
    BY AloneUnlocked
  <2>2. IsDocument(Unlocked(ds[1]))
    BY <2>1, UnlockedFacts
  <2> QED BY <2>2, TitledFacts DEF Asked, TitleAsked
<1>7. o.docs = <<<<r>>>>
  <2>1. b = Done(<<r>>)
    BY <1>1, <1>4, <1>5, WriteOutputSucceeds, Outcomes
  <2> HIDE DEF r
  <2> QED BY <1>1, <2>1, Outcomes
<1>8. NoneLocked(ds)
  BY <1>5, AloneUnlocked
<1> HIDE DEF r
<1> QED BY <1>6, <1>7, <1>8, OneOfAll

\* The command encrypt.
LEMMA CliEncryptRules ==
  ASSUME NEW f, NEW ds, Documents(ds), Len(ds) = 1, f.route = "cli_encrypt", ~f.meta,
         NEW o \in Whole(RunEncrypt(f, ds[1])), Succeeded(o)
  PROVE  Rules("command", f, ds, o.docs)
<1> DEFINE outs == Bind(ReadInput(ds[1]), LAMBDA x : EncryptPdf(x, f.user, f.owner))
<1>1. ASSUME NEW a \in outs, Succeeded(a)
      PROVE  /\ ~NeedsPassword(ds[1])
             /\ \E r : a = Done(<<r>>) /\ IsDocument(r) /\ Asked(f, r) /\ TitleAsked(f, r)
  <2>1. PICK b \in ReadInput(ds[1]) : Succeeded(b) /\ a \in EncryptPdf(b.docs[1], f.user, f.owner)
    BY <1>1 DEF Bind
  <2>2. a \in EncryptPdf(ds[1], f.user, f.owner) /\ IsDocument(ds[1])
    BY <2>1, ReadInputSucceeds, AloneUnlocked
  <2>3. ~NeedsPassword(ds[1]) /\ a = Done(<<Secured(ds[1], f.user, f.owner)>>)
    BY <1>1, <2>2, EncryptSucceeds
  <2> QED BY <2>2, <2>3, SecuredFacts DEF Asked, TitleAsked, NeedsPassword
<1>2. o \in Whole(Bind(outs, WriteOutput))
  BY DEF RunEncrypt
<1> HIDE DEF outs
<1>3. \E a \in outs : Succeeded(a)
  <2>1. PICK b \in Bind(outs, WriteOutput) : Succeeded(b)
    BY <1>2, WholeSucceeds
  <2> QED BY <2>1 DEF Bind
<1>4. NoneLocked(ds)
  BY <1>1, <1>3, AloneUnlocked
<1> QED BY <1>1, <1>2, <1>4, WrittenRules

\* The command decrypt.
LEMMA CliDecryptRules ==
  ASSUME NEW f, NEW ds, Documents(ds), Len(ds) = 1, f.route = "cli_decrypt",
         NEW o \in Whole(RunDecrypt(f, ds[1])), Succeeded(o)
  PROVE  Rules("command", f, ds, o.docs)
<1>1. PICK b \in RunDecrypt(f, ds[1]) : Succeeded(b) /\ o = Done(<<b.docs>>)
  BY WholeSucceeds
<1>2. PICK a \in Bind(ReadInput(ds[1]), LAMBDA x : DecryptPdf(x, f.password)) :
        Succeeded(a) /\ b \in WriteOutput(a.docs[1])
  BY <1>1 DEF RunDecrypt, Bind
<1>3. PICK c \in ReadInput(ds[1]) : Succeeded(c) /\ a \in DecryptPdf(c.docs[1], f.password)
  BY <1>2 DEF Bind
<1>4. a \in DecryptPdf(ds[1], f.password)
  BY <1>3, ReadInputSucceeds
<1>5. /\ NeedsPassword(ds[1]) => f.password \in {ds[1].user, ds[1].owner}
      /\ a = Done(<<Renumbered(Unlocked(ds[1]))>>)
  BY <1>2, <1>4, DecryptSucceeds
<1>6. IsDocument(ds[1]) /\ Len(ds) = 1 /\ DOMAIN ds = 1..1
  BY DEF Documents
<1> DEFINE r == Renumbered(Unlocked(ds[1]))
<1>7. IsDocument(r)
  BY <1>6, UnlockedFacts, RenumberedFacts
<1>8. o.docs = <<<<r>>>>
  <2>1. b = Done(<<r>>)
    BY <1>1, <1>2, <1>5, WriteOutputSucceeds, Outcomes
  <2> HIDE DEF r
  <2> QED BY <1>1, <2>1, Outcomes
<1> HIDE DEF r
<1>9. Made(o.docs)
  BY <1>7, <1>8, OneMade DEF Made
<1>10. LockRule("command", f, ds, o.docs)
  BY <1>5, <1>6 DEF LockRule
<1> QED BY <1>9, <1>10 DEF Rules, AskRule, Honours

\* The commands that convert.
LEMMA CliConvertRules ==
  ASSUME NEW f, NEW ds, Documents(ds), f.route = "cli_convert",
         Len(ds) = IF f.page # "office" THEN 0 ELSE 1,
         NEW o \in Whole(RunConvert(f, ds)), Succeeded(o)
  PROVE  Rules("command", f, ds, o.docs)
<1> DEFINE outs == {Fail("Io"), Fail("Launch")} \cup
                     (CASE f.page = "office" -> OfficeConvert(ds[1])
                        [] f.page = "stdin" /\ f.bad = "utf8" -> {Fail("Generic")}
                        [] OTHER -> Render)
<1>1. ASSUME NEW a \in outs, Succeeded(a)
      PROVE  NoneLocked(ds) /\ \E r : a = Done(<<r>>) /\ IsDocument(r)
  <2>1. a \notin {Fail("Io"), Fail("Launch"), Fail("Generic")}
    BY <1>1, Outcomes
  <2>2. CASE f.page = "office"
    <3>1. a \in OfficeConvert(ds[1]) /\ IsDocument(ds[1])
      BY <2>1, <2>2, AloneUnlocked
    <3> QED BY <1>1, <2>2, <3>1, OfficeConvertMakes, AloneUnlocked
  <2>3. CASE f.page # "office"
    <3>1. a \in Render /\ NoneLocked(ds)
      BY <2>1, <2>3 DEF NoneLocked, Documents
    <3> QED BY <1>1, <3>1, RenderMakes, RenderedFacts
  <2> QED BY <2>2, <2>3
<1>2. o \in Whole(Bind(outs, WriteOutput))
  BY DEF RunConvert
<1> HIDE DEF outs
<1>3. \E a \in outs : Succeeded(a)
  <2>1. PICK b \in Bind(outs, WriteOutput) : Succeeded(b)
    BY <1>2, WholeSucceeds
  <2> QED BY <2>1 DEF Bind
<1> QED BY <1>1, <1>2, <1>3, WrittenRules DEF Honours

\* A split fails when it cannot open its file, or for its mode.
LEMMA SplitFails ==
  ASSUME NEW d, NEW mode, NEW a \in Split(d, mode), ~Succeeded(a)
  PROVE  a \in Open(d) \/ a = Fail("InvalidOption")
<1> SUFFICES ASSUME a \notin Open(d), a # Fail("InvalidOption") PROVE FALSE
  OBVIOUS
<1>1. PICK y \in Open(d) :
        /\ Succeeded(y)
        /\ a = Done([i \in DOMAIN Chunks(mode, Len(y.docs[1].pages)) |->
                       Keep(y.docs[1], Chunks(mode, Len(y.docs[1].pages))[i])])
  BY Outcomes DEF Split, Bind
<1> QED BY <1>1, Outcomes

\* The command split.
LEMMA CliSplitRules ==
  ASSUME NEW f, NEW ds, Documents(ds), Len(ds) = 1, f.route = "cli_split", f.span \in Nat \cup {-1},
         NEW o \in Whole(RunSplit(f, ds[1]))
  PROVE  Made(o.docs) /\ (Succeeded(o) => Rules("command", f, ds, o.docs))
<1> DEFINE mode == CommandSplitMode(f)
<1>0. IsDocument(ds[1])
  BY AloneUnlocked
<1>1. \A k : Fail(k).docs = <<>> /\ Made(Fail(k).docs)
  BY DEF Fail, Made, DocsOf
<1>2. \A a \in ReadInput(ds[1]) \cup Split(ds[1], mode) : ~Succeeded(a) => Made(a.docs)
  <2>1. \A a \in Open(ds[1]) : ~Succeeded(a) => Made(a.docs)
    BY <1>1, Outcomes DEF Open, Trouble
  <2>2. \A a \in Split(ds[1], mode) : ~Succeeded(a) => Made(a.docs)
    BY <1>1, <2>1, SplitFails
  <2> QED BY <1>1, <2>2, Outcomes DEF ReadInput
<1>3. PICK b \in RunSplit(f, ds[1]) : o = IF Succeeded(b) THEN Done(<<b.docs>>) ELSE b
  BY DEF Whole
<1>4. \/ b \in ReadInput(ds[1]) /\ ~Succeeded(b)
      \/ b = Fail(ParseSplitMode(f)) /\ ParseSplitMode(f) # "none"
      \/ ParseSplitMode(f) = "none" /\ b \in Then(Split(ds[1], mode), WriteChunks)
  <2>1. CASE ~(b \in ReadInput(ds[1]) /\ ~Succeeded(b))
    <3>1. PICK a \in ReadInput(ds[1]) :
            /\ Succeeded(a)
            /\ b \in IF ParseSplitMode(f) # "none" THEN {Fail(ParseSplitMode(f))}
                     ELSE Then(Split(a.docs[1], mode), WriteChunks)
      BY <2>1 DEF RunSplit, Bind
    <3>2. a.docs[1] = ds[1]
      BY <3>1, ReadInputSucceeds
    <3> QED BY <3>1, <3>2
  <2> QED BY <2>1
<1>5. CASE b \in ReadInput(ds[1]) /\ ~Succeeded(b)
  BY <1>2, <1>3, <1>5
<1>6. CASE b = Fail(ParseSplitMode(f)) /\ ParseSplitMode(f) # "none"
  BY <1>1, <1>3, <1>6, Outcomes
<1>7. CASE ParseSplitMode(f) = "none" /\ b \in Then(Split(ds[1], mode), WriteChunks)
  <2>1. CASE b \in Split(ds[1], mode) /\ ~Succeeded(b)
    BY <1>2, <1>3, <2>1
  <2>2. CASE ~(b \in Split(ds[1], mode) /\ ~Succeeded(b))
    <3>1. PICK a \in Split(ds[1], mode) : Succeeded(a) /\ b \in WriteChunks(a.docs)
      BY <1>7, <2>2 DEF Then
    <3>2. ModeIsRight(mode)
      <4>1. CASE f.mode = "every-n"
        BY <1>7, <4>1 DEF CommandSplitMode, ModeIsRight, ParseSplitMode, Unless
      <4>2. CASE f.mode = "one-per-page"
        BY <4>2 DEF CommandSplitMode, ModeIsRight
      <4>3. CASE f.mode \notin {"every-n", "one-per-page"}
        <5> DEFINE rs == f.ranges
        <5>1. mode = [kind |-> "ranges", chunks |-> <<rs>>]
          BY <4>3 DEF CommandSplitMode
        <5> HIDE DEF rs, mode
        <5> QED BY <5>1 DEF ModeIsRight
      <4> QED BY <4>1, <4>2, <4>3
    <3> DEFINE cs == a.docs
               n == Len(cs)
    <3>3. /\ ~NeedsPassword(ds[1]) /\ n \in Nat /\ DOMAIN cs = 1..n
          /\ \A c \in DOMAIN cs : IsDocument(cs[c])
      BY <1>0, <3>1, <3>2, SplitMakes
    <3>4. NoneLocked(ds)
      BY <3>3, AloneUnlocked
    <3>5. \/ b = Done(cs)
          \/ \E k \in 0..(n - 1) : b = [error |-> "Io", docs |-> <<SubSeq(cs, 1, k)>>]
      BY <3>1 DEF WriteChunks
    <3> HIDE DEF cs
    <3>6. CASE b = Done(cs)
      <4>1. o.docs = <<cs>>
        BY <1>3, <3>6, Outcomes
      <4>2. DocsOf(<<cs>>) = Range(cs)
        BY DEF DocsOf
      <4>3. Made(o.docs)
        BY <3>3, <4>1, <4>2 DEF Made, Range
      <4> QED BY <3>4, <4>3 DEF Rules, LockRule, AskRule, Honours, NoneLocked
    <3>7. CASE \E k \in 0..(n - 1) : b = [error |-> "Io", docs |-> <<SubSeq(cs, 1, k)>>]
      <4>1. PICK k \in 0..(n - 1) : b = [error |-> "Io", docs |-> <<SubSeq(cs, 1, k)>>]
        BY <3>7
      <4> DEFINE part == SubSeq(cs, 1, k)
      <4>2. ~Succeeded(b) /\ b.docs = <<part>>
        BY <4>1 DEF Succeeded
      <4>3. /\ part \in Seq(Range(cs))
            /\ \A i \in 1..k : part[i] = cs[i]
            /\ Len(part) = IF 1 <= k THEN k ELSE 0
        <5>1. \A i \in 1..k : cs[i] \in Range(cs)
          BY <3>3 DEF Range
        <5> QED BY <5>1, <3>3, SubSeqProperties
      <4>4. \A i \in DOMAIN part : IsDocument(part[i])
        BY <3>3, <4>3, LenProperties
      <4> HIDE DEF part
      <4>5. DocsOf(<<part>>) = Range(part)
        BY DEF DocsOf
      <4> QED BY <1>3, <4>2, <4>4, <4>5 DEF Made, Range
    <3> QED BY <3>5, <3>6, <3>7
  <2> QED BY <2>1, <2>2
<1> QED BY <1>4, <1>5, <1>6, <1>7

-----------------------------------------------------------------------------
(* One command or route, whatever it is, and what it is given.             *)

\* Every command keeps the rules of the passwords.
LEMMA CommandRules ==
  ASSUME NEW f, NEW ds, Documents(ds), f.route \in Commands, f.span \in Nat \cup {-1},
         f.route \in Commands \ {"cli_merge"} =>
           Len(ds) = IF f.route = "cli_convert" /\ f.page # "office" THEN 0 ELSE 1,
         f.route = "cli_metadata_write" => f.user = Absent /\ f.owner = Absent,
         f.route = "cli_encrypt" => ~f.meta,
         NEW o \in RunCommand(f, ds)
  PROVE  /\ Succeeded(o) => Rules("command", f, ds, o.docs)
         /\ f.route = "cli_split" => Made(o.docs)
<1>1. CASE f.route = "cli_merge"
  BY <1>1, CliMergeRules DEF RunCommand
<1>2. CASE f.route = "cli_split"
  BY <1>2, CliSplitRules DEF RunCommand, Commands
<1>3. CASE f.route = "cli_flatten"
  BY <1>3, CliFlattenRules DEF RunCommand, Commands
<1>4. CASE f.route = "cli_metadata_read"
  BY <1>4, CliMetadataReadRules DEF RunCommand, Commands
<1>5. CASE f.route = "cli_metadata_write"
  BY <1>5, CliMetadataWriteRules DEF RunCommand, Commands
<1>6. CASE f.route = "cli_encrypt"
  BY <1>6, CliEncryptRules DEF RunCommand, Commands
<1>7. CASE f.route = "cli_decrypt"
  BY <1>7, CliDecryptRules DEF RunCommand, Commands
<1>8. CASE f.route = "cli_convert"
  BY <1>8, CliConvertRules DEF RunCommand, Commands
<1> QED BY <1>1, <1>2, <1>3, <1>4, <1>5, <1>6, <1>7, <1>8 DEF Commands

\* Each file a route works on is one that was uploaded.
LEMMA ReceivedFacts ==
  ASSUME NEW parts, NEW n \in Nat, DOMAIN parts = 1..n
  PROVE  /\ DOMAIN Received(parts) = 1..n /\ Len(Received(parts)) = n
         /\ \A i \in 1..n : \E j \in 1..n : Received(parts)[i] = parts[j].doc
<1>1. ASSUME NEW i \in 1..n PROVE \E j \in 1..n : Content(parts, i) = parts[j].doc
  <2> DEFINE same(j) == Path(parts, j) = Path(parts, i)
             T == {m \in Nat : m <= n /\ n - m \in 1..n /\ same(n - m)}
  <2>1. n - i \in T
    <3>1. n - (n - i) = i /\ n - i \in Nat /\ n - i <= n
      OBVIOUS
    <3> QED BY <3>1
  <2> HIDE DEF same
  <2>2. PICK m \in T : \A k \in T : m <= k
    BY <2>1, LeastNat
  <2>3. /\ n - m \in 1..n /\ same(n - m)
        /\ \A k \in 1..n : same(k) => k <= n - m
    <3>1. ASSUME NEW k \in 1..n, same(k) PROVE k <= n - m
      <4>1. n - (n - k) = k /\ n - k \in Nat /\ n - k <= n
        OBVIOUS
      <4>2. n - k \in T
        BY <3>1, <4>1
      <4> QED BY <2>2, <4>2
    <3> QED BY <2>2, <3>1
  <2>4. \E j \in DOMAIN parts : same(j) /\ \A k \in DOMAIN parts : same(k) => k <= j
    BY <2>3
  <2> USE DEF same
  <2>5. (CHOOSE j \in DOMAIN parts :
           /\ Path(parts, j) = Path(parts, i)
           /\ \A k \in DOMAIN parts : Path(parts, k) = Path(parts, i) => k <= j) \in 1..n
    BY <2>4
  <2> QED BY <2>5 DEF Content
<1>2. /\ DOMAIN Received(parts) = 1..n /\ Len(Received(parts)) = n
      /\ \A i \in 1..n : Received(parts)[i] = Content(parts, i)
  BY DEF Received
<1> QED BY <1>1, <1>2

\* So what it works on is as many documents.
LEMMA ReceivedDocuments ==
  ASSUME NEW parts, NEW n \in Nat, DOMAIN parts = 1..n, \A i \in 1..n : IsDocument(parts[i].doc)
  PROVE  Documents(Received(parts)) /\ Len(Received(parts)) = n
<1> DEFINE ds == Received(parts)
<1>1. DOMAIN ds = 1..n /\ Len(ds) = n /\ \A i \in 1..n : \E j \in 1..n : ds[i] = parts[j].doc
  BY ReceivedFacts
<1> HIDE DEF ds
<1>2. \A i \in 1..n : IsDocument(ds[i])
  BY <1>1
<1> QED BY <1>1, <1>2 DEF Documents, ds

\* A status of success is one of a success.
LEMMA StatusOfSuccess ==
  ASSUME NEW kind
  PROVE  /\ Status(kind) \in {200, 400, 422, 500, 502, 504} /\ (Status(kind) = 200 => kind = "none")
         /\ ExitCode(kind) \in 0..5 /\ (ExitCode(kind) = 0 => kind = "none")
BY DEF Status, ExitCode

-----------------------------------------------------------------------------
(* The inductive invariant.                                                *)

\* The documents of the client are documents.
Library == Originals \subseteq library /\ \A d \in library : IsDocument(d)

\* A request as the client can make it.
IsRequest(r) ==
  \E q \in Requests :
    /\ r.form = q.form /\ DOMAIN r.parts = 1..Len(q.layout) /\ Len(r.parts) = Len(q.layout)
    /\ \A i \in DOMAIN r.parts : IsDocument(r.parts[i].doc) /\ IsSequence(r.parts[i].name)

\* A job on the queue comes from a request that was not refused.
JobKept ==
  job # NoJob =>
    /\ IsRequest(job) /\ job.form.route \notin Commands
    /\ Refusal(job.form, Len(job.parts)) = "none"
    /\ Spawns(job.form, Len(job.parts))

\* What a route or a command can come to that was not refused.
Possible(by, f, parts) ==
  CASE by = "command" -> RunCommand(f, [i \in DOMAIN parts |-> parts[i].doc])
    [] by = "handler" -> Convert(f, parts, Received(parts))
    [] by = "worker" -> RunJob(f, Received(parts))
CameFrom(by, f, parts, docs) ==
  /\ by = "command" <=> f.route \in Commands
  /\ by # "command" => Refusal(f, Len(parts)) = "none"
  /\ by = "worker" => Spawns(f, Len(parts))
  /\ by = "handler" => ~Spawns(f, Len(parts))
  /\ \E o \in Possible(by, f, parts) : Succeeded(o) /\ o.docs = docs

\* What was answered is what a request that was not refused came to.
ReplyKept ==
  /\ requests \in 0..MaxRequests
  /\ reply.by \in {"nobody", "handler", "worker", "command"}
  /\ reply.status \in 0..5 \cup {200, 202, 400, 422, 500, 502, 504}
  /\ Answered => IsRequest(reply) /\ CameFrom(reply.by, reply.form, reply.parts, reply.docs)

SessionInv == Library /\ JobKept /\ ReplyKept

\* What a request brings.
LEMMA RequestFacts ==
  ASSUME NEW r, IsRequest(r)
  PROVE  /\ Len(r.parts) \in Nat /\ DOMAIN r.parts = 1..Len(r.parts)
         /\ \A i \in DOMAIN r.parts : IsDocument(r.parts[i].doc) /\ IsSequence(r.parts[i].name)
         /\ Documents(Received(r.parts)) /\ Len(Received(r.parts)) = Len(r.parts)
         /\ Documents([i \in DOMAIN r.parts |-> r.parts[i].doc])
         /\ Len([i \in DOMAIN r.parts |-> r.parts[i].doc]) = Len(r.parts)
         /\ r.form.route \in PageRoutes \cup FileRoutes \cup Commands
         /\ r.form.route \in PageRoutes => Len(r.parts) = 0
         /\ r.form.route \in Commands \ {"cli_merge"} =>
              Len(r.parts) = IF r.form.route = "cli_convert" /\ r.form.page # "office" THEN 0 ELSE 1
         /\ r.form.route = "cli_metadata_write" => r.form.user = Absent /\ r.form.owner = Absent
         /\ r.form.route = "cli_encrypt" => ~r.form.meta
         /\ r.form.angle \in Int /\ r.form.span \in Nat \cup {-1} /\ IsSequence(r.form.marks)
<1>1. PICK q \in Requests :
        /\ r.form = q.form /\ DOMAIN r.parts = 1..Len(q.layout) /\ Len(r.parts) = Len(q.layout)
        /\ \A i \in DOMAIN r.parts : IsDocument(r.parts[i].doc) /\ IsSequence(r.parts[i].name)
  BY DEF IsRequest
<1> DEFINE n == Len(r.parts)
<1>2. n \in Nat /\ DOMAIN r.parts = 1..n /\ n = Len(q.layout)
  BY <1>1, RequestsAssumption, SequenceFacts
<1> HIDE DEF n
<1>3. Documents(Received(r.parts)) /\ Len(Received(r.parts)) = n
  BY <1>1, <1>2, ReceivedDocuments
<1> DEFINE own == [i \in DOMAIN r.parts |-> r.parts[i].doc]
<1>4. DOMAIN own = 1..n /\ Len(own) = n /\ \A i \in 1..n : IsDocument(own[i])
  BY <1>1, <1>2
<1>5. Documents(own) /\ Len(own) = n
  BY <1>2, <1>4 DEF Documents
<1>6. n = Len(r.parts)
  BY DEF n
<1> HIDE DEF own
<1>7. LET f == q.form IN
        /\ f.route \in PageRoutes \cup FileRoutes \cup Commands
        /\ f.route \in PageRoutes => Len(q.layout) = 0
        /\ f.route \in Commands \ {"cli_merge"} =>
             Len(q.layout) = IF f.route = "cli_convert" /\ f.page # "office" THEN 0 ELSE 1
        /\ f.route = "cli_metadata_write" => f.user = Absent /\ f.owner = Absent
        /\ f.route = "cli_encrypt" => ~f.meta
        /\ f.angle \in Int /\ f.span \in Nat \cup {-1} /\ IsSequence(f.marks)
  BY RequestsAssumption
<1> QED BY <1>1, <1>2, <1>3, <1>5, <1>6, <1>7 DEF own

\* The uploads of the client are requests.
LEMMA UploadsAreRequests ==
  ASSUME Library, NEW q \in Requests, NEW parts \in Uploads(q.layout)
  PROVE  IsRequest([form |-> q.form, parts |-> parts])
<1>1. PICK ds \in [DOMAIN q.layout -> library] :
        parts = [i \in DOMAIN q.layout |->
                   [name |-> q.layout[i].name, fetched |-> q.layout[i].fetched, doc |-> ds[i]]]
  BY DEF Uploads
<1>2. /\ Len(q.layout) \in Nat /\ DOMAIN q.layout = 1..Len(q.layout)
      /\ \A i \in DOMAIN q.layout : IsSequence(q.layout[i].name)
  BY RequestsAssumption, SequenceFacts
<1>3. DOMAIN parts = 1..Len(q.layout) /\ Len(parts) = Len(q.layout)
  BY <1>1, <1>2
<1>4. \A i \in DOMAIN parts : IsDocument(parts[i].doc) /\ IsSequence(parts[i].name)
  BY <1>1, <1>2 DEF Library
<1> DEFINE r == [form |-> q.form, parts |-> parts]
<1>5. r.form = q.form /\ r.parts = parts
  OBVIOUS
<1> HIDE DEF r
<1>6. IsRequest(r)
  BY <1>3, <1>4, <1>5 DEF IsRequest
<1> QED BY <1>6 DEF r

\* What is delivered of an outcome that keeps the rules is documents.
LEMMA DeliveryKeeps ==
  ASSUME Library, NEW r, NEW o,
         Succeeded(o) => (r.form.route \notin Reading => Made(o.docs)),
         r.form.route = "cli_split" => Made(o.docs),
         library' = Delivery(r, o)
  PROVE  Library'
BY OriginalsAssumption DEF Library, Delivery, Made

\* A reply that says what a request came to is kept.
LEMMA ReplyKeeps ==
  ASSUME NEW by, by \in {"handler", "worker", "command"}, NEW r, NEW o, NEW status,
         reply' = [by |-> by, form |-> r.form, parts |-> r.parts, status |-> status, docs |-> o.docs],
         requests' \in 0..MaxRequests,
         status \in 0..5 \cup {200, 202, 400, 422, 500, 502, 504},
         status \in {0, 200} => IsRequest(r) /\ CameFrom(by, r.form, r.parts, o.docs)
  PROVE  ReplyKept'
<1>1. /\ reply'.by = by /\ reply'.form = r.form /\ reply'.parts = r.parts
      /\ reply'.status = status /\ reply'.docs = o.docs
  OBVIOUS
<1>2. Answered' => status \in {0, 200}
  BY <1>1 DEF Answered
<1>3. Answered' => CameFrom(reply'.by, reply'.form, reply'.parts, reply'.docs)
  BY <1>1, <1>2
<1>4. Answered' => IsRequest(reply')
  <2> SUFFICES ASSUME IsRequest(r) PROVE IsRequest(reply')
    BY <1>2
  <2> QED BY <1>1 DEF IsRequest
<1> QED BY <1>1, <1>3, <1>4 DEF ReplyKept

-----------------------------------------------------------------------------
(* Every step keeps the invariant.                                         *)

\* At the start nothing was answered.
LEMMA InitKeeps == Init => SessionInv
<1> SUFFICES ASSUME Init PROVE SessionInv
  OBVIOUS
<1>1. Library
  BY OriginalsAssumption DEF Init, Library
<1>2. JobKept
  BY DEF Init, JobKept
<1>3. ReplyKept
  BY MaxRequestsAssumption DEF Init, ReplyKept, NoReply, Answered
<1> QED BY <1>1, <1>2, <1>3 DEF SessionInv

\* The client sends no more than its requests.
LEMMA SendCounts ==
  ASSUME SessionInv, NEW r, Send(r)
  PROVE  requests' \in 0..MaxRequests
BY MaxRequestsAssumption DEF SessionInv, ReplyKept, Send

\* A command.
LEMMA RunKeeps ==
  ASSUME SessionInv, NEW r, IsRequest(r), Run(r)
  PROVE  SessionInv'
<1> DEFINE ds == [i \in DOMAIN r.parts |-> r.parts[i].doc]
<1>1. PICK o \in RunCommand(r.form, ds) :
        reply' = [Reply("command", r, o) EXCEPT !.status = ExitCode(o.error)] /\ library' = Delivery(r, o)
  BY DEF Run
<1>2. requests' \in 0..MaxRequests
  BY SendCounts DEF Run
<1>3. Documents(ds) /\ Len(ds) = Len(r.parts)
  BY RequestFacts
<1>4. r.form.route \in Commands
  BY DEF Run
<1> HIDE DEF ds
<1>6. /\ Succeeded(o) => Rules("command", r.form, ds, o.docs)
      /\ r.form.route = "cli_split" => Made(o.docs)
  BY <1>1, <1>3, <1>4, CommandRules, RequestFacts
<1>7. Library'
  BY <1>1, <1>6, DeliveryKeeps DEF SessionInv, Rules
<1>8. ReplyKept'
  <2> DEFINE status == ExitCode(o.error)
  <2>1. reply' = [by |-> "command", form |-> r.form, parts |-> r.parts, status |-> status, docs |-> o.docs]
    BY <1>1 DEF Reply
  <2>2. status \in 0..5 /\ (status = 0 => Succeeded(o))
    BY StatusOfSuccess DEF Succeeded
  <2> HIDE DEF status
  <2>3. Succeeded(o) => CameFrom("command", r.form, r.parts, o.docs)
    BY <1>1, <1>4 DEF CameFrom, Possible, ds
  <2>4. status \in 0..5 \cup {200, 202, 400, 422, 500, 502, 504}
    BY <2>2
  <2>5. status \in {0, 200} => IsRequest(r) /\ CameFrom("command", r.form, r.parts, o.docs)
    BY <2>2, <2>3
  <2> QED BY <1>2, <2>1, <2>4, <2>5, ReplyKeeps
<1>9. JobKept'
  BY DEF Run, SessionInv, JobKept
<1> QED BY <1>7, <1>8, <1>9 DEF SessionInv

\* A handler that answers.
LEMMA AnswerKeeps ==
  ASSUME SessionInv, NEW r, IsRequest(r), Answer(r)
  PROVE  SessionInv'
<1> DEFINE n == Len(r.parts)
           ds == Received(r.parts)
           kind == Refusal(r.form, n)
<1>1. PICK o \in Unfetched(r.parts) \cup
                 (IF kind # "none" THEN {Fail(kind)}
                  ELSE IF Spawns(r.form, n) THEN {}
                  ELSE Convert(r.form, r.parts, Received(r.parts))) :
        reply' = Reply("handler", r, o) /\ library' = Delivery(r, o)
  BY DEF Answer
<1>2. requests' \in 0..MaxRequests
  BY SendCounts DEF Answer
<1>3. Documents(ds) /\ Len(ds) = n
  BY RequestFacts
<1>4. r.form.route \notin Commands /\ r.form.route \in PageRoutes \cup FileRoutes
  BY RequestFacts DEF Answer
<1>5. Succeeded(o) => kind = "none" /\ o \in Convert(r.form, r.parts, ds)
  BY <1>1, Outcomes DEF Unfetched
<1>6. Succeeded(o) => Rules("handler", r.form, ds, o.docs)
  <2> HIDE DEF ds
  <2>1. Refusal(r.form, Len(ds)) = kind
    BY <1>3
  <2> QED BY <1>3, <1>4, <1>5, <2>1, AnswerRules, RequestFacts
<1>7. Library'
  <2>1. r.form.route # "cli_split"
    BY <1>4 DEF Commands
  <2> QED BY <1>1, <1>6, <2>1, DeliveryKeeps DEF SessionInv, Rules
<1>8. ReplyKept'
  <2> DEFINE status == Status(o.error)
  <2>1. reply' = [by |-> "handler", form |-> r.form, parts |-> r.parts, status |-> status, docs |-> o.docs]
    BY <1>1 DEF Reply
  <2>2. status \in {200, 400, 422, 500, 502, 504} /\ (status = 200 => Succeeded(o))
    BY StatusOfSuccess DEF Succeeded
  <2> HIDE DEF status
  <2>3. Succeeded(o) => CameFrom("handler", r.form, r.parts, o.docs)
    <3> SUFFICES ASSUME Succeeded(o) PROVE CameFrom("handler", r.form, r.parts, o.docs)
      OBVIOUS
    <3>1. Refusal(r.form, Len(r.parts)) = "none" /\ o \in Possible("handler", r.form, r.parts)
      BY <1>5 DEF Possible
    <3>2. ~Spawns(r.form, Len(r.parts))
      BY <1>1, Outcomes DEF Unfetched
    <3> QED BY <1>4, <3>1, <3>2 DEF CameFrom
  <2>4. status \in {0, 200} => IsRequest(r) /\ CameFrom("handler", r.form, r.parts, o.docs)
    BY <2>2, <2>3
  <2>5. status \in 0..5 \cup {200, 202, 400, 422, 500, 502, 504}
    BY <2>2
  <2> QED BY <1>2, <2>1, <2>4, <2>5, ReplyKeeps
<1>9. JobKept'
  BY DEF Answer, SessionInv, JobKept
<1> QED BY <1>7, <1>8, <1>9 DEF SessionInv

\* A handler that leaves the work to a worker.
LEMMA AcceptKeeps ==
  ASSUME SessionInv, NEW r, IsRequest(r), Accept(r)
  PROVE  SessionInv'
<1>1. requests' \in 0..MaxRequests
  BY SendCounts DEF Accept
<1>2. Library'
  BY DEF Accept, SessionInv, Library
<1>3. ReplyKept'
  <2>1. reply'.by = "handler" /\ reply'.status = 202
    BY DEF Accept, Reply
  <2> QED BY <1>1, <2>1 DEF ReplyKept, Answered
<1>4. JobKept'
  BY DEF Accept, JobKept, IsRequest
<1> QED BY <1>2, <1>3, <1>4 DEF SessionInv

\* The worker.
LEMMA WorkKeeps ==
  ASSUME SessionInv, Work
  PROVE  SessionInv'
<1> DEFINE r == job
           n == Len(r.parts)
           ds == Received(r.parts)
<1>1. PICK o \in RunJob(r.form, ds) : reply' = Reply("worker", r, o) /\ library' = Delivery(r, o)
  BY DEF Work
<1>2. /\ IsRequest(r) /\ r.form.route \notin Commands
      /\ Refusal(r.form, n) = "none" /\ Spawns(r.form, n)
  BY DEF Work, SessionInv, JobKept
<1>3. Documents(ds) /\ Len(ds) = n
  BY <1>2, RequestFacts
<1>4. requests' \in 0..MaxRequests
  BY DEF Work, SessionInv, ReplyKept
<1> HIDE DEF r
<1>5. Succeeded(o) => Rules("worker", r.form, ds, o.docs)
  <2> HIDE DEF ds
  <2>1. Refusal(r.form, Len(ds)) = "none" /\ Spawns(r.form, Len(ds))
    BY <1>2, <1>3
  <2>2. r.form.route \in PageRoutes => Len(ds) = 0
    BY <1>2, <1>3, RequestFacts
  <2> QED BY <1>1, <1>3, <2>1, <2>2, JobRules
<1>6. Library'
  <2>1. r.form.route # "cli_split"
    BY <1>2 DEF Commands
  <2> QED BY <1>1, <1>5, <2>1, DeliveryKeeps DEF SessionInv, Rules
<1>7. ReplyKept'
  <2> DEFINE status == Status(o.error)
  <2>1. reply' = [by |-> "worker", form |-> r.form, parts |-> r.parts, status |-> status, docs |-> o.docs]
    BY <1>1 DEF Reply
  <2>2. status \in {200, 400, 422, 500, 502, 504} /\ (status = 200 => Succeeded(o))
    BY StatusOfSuccess DEF Succeeded
  <2> HIDE DEF status
  <2>3. Succeeded(o) => CameFrom("worker", r.form, r.parts, o.docs)
    <3>1. o \in Possible("worker", r.form, r.parts)
      BY <1>1 DEF Possible
    <3> QED BY <1>2, <3>1 DEF CameFrom
  <2>4. status \in {0, 200} => IsRequest(r) /\ CameFrom("worker", r.form, r.parts, o.docs)
    BY <1>2, <2>2, <2>3
  <2>5. status \in 0..5 \cup {200, 202, 400, 422, 500, 502, 504}
    BY <2>2
  <2> QED BY <1>4, <2>1, <2>4, <2>5, ReplyKeeps
<1>8. JobKept'
  BY DEF Work, JobKept
<1> QED BY <1>6, <1>7, <1>8 DEF SessionInv

\* Every step.
LEMMA StepKeeps == SessionInv /\ [Next]_vars => SessionInv'
<1> SUFFICES ASSUME SessionInv, [Next]_vars PROVE SessionInv'
  OBVIOUS
<1>1. CASE UNCHANGED vars
  BY <1>1 DEF vars, SessionInv, Library, JobKept, ReplyKept, Answered
<1>2. ASSUME NEW q \in Requests, NEW parts \in Uploads(q.layout),
             \/ Run([form |-> q.form, parts |-> parts])
             \/ Answer([form |-> q.form, parts |-> parts])
             \/ Accept([form |-> q.form, parts |-> parts])
      PROVE  SessionInv'
  <2> DEFINE r == [form |-> q.form, parts |-> parts]
  <2>1. IsRequest(r)
    BY UploadsAreRequests DEF SessionInv
  <2> HIDE DEF r
  <2>2. Run(r) \/ Answer(r) \/ Accept(r)
    BY <1>2 DEF r
  <2> QED BY <2>1, <2>2, RunKeeps, AnswerKeeps, AcceptKeeps
<1>3. CASE Work
  BY <1>3, WorkKeeps
<1> QED BY <1>1, <1>2, <1>3 DEF Next

\* So every answer keeps the rules, on files as many as the client sent.
LEMMA AnswersKeepRules ==
  ASSUME SessionInv, Answered
  PROVE  Len(Uploaded) = Len(reply.parts) /\ Documents(Uploaded)
         /\ Rules(reply.by, reply.form, Uploaded, reply.docs)
<1> DEFINE by == reply.by
           f == reply.form
           parts == reply.parts
           docs == reply.docs
           n == Len(parts)
<1>1. IsRequest(reply) /\ CameFrom(by, f, parts, docs)
  BY DEF SessionInv, ReplyKept
<1>2. by \in {"handler", "worker", "command"}
  BY DEF SessionInv, ReplyKept, Answered
<1>3. PICK o \in Possible(by, f, parts) : Succeeded(o) /\ o.docs = docs
  BY <1>1 DEF CameFrom
<1> HIDE DEF docs
<1>4. CASE by = "command"
  <2> DEFINE ds == [i \in DOMAIN parts |-> parts[i].doc]
  <2>1. Uploaded = ds
    BY <1>4 DEF Uploaded
  <2>2. Documents(ds) /\ Len(ds) = n
    BY <1>1, RequestFacts
  <2>3. o \in RunCommand(f, ds) /\ f.route \in Commands
    BY <1>1, <1>3, <1>4 DEF Possible, CameFrom
  <2> HIDE DEF ds
  <2>4. Rules("command", f, ds, o.docs)
    BY <1>1, <1>3, <2>2, <2>3, CommandRules, RequestFacts
  <2> QED BY <1>3, <1>4, <2>1, <2>2, <2>4 DEF docs
<1>5. CASE by \in {"handler", "worker"}
  <2> DEFINE ds == Received(parts)
  <2>1. Uploaded = ds
    BY <1>5 DEF Uploaded
  <2>2. Documents(ds) /\ Len(ds) = n
    BY <1>1, RequestFacts
  <2>3. Refusal(f, n) = "none" /\ f.route \notin Commands /\ f.route \in PageRoutes \cup FileRoutes
    BY <1>1, <1>5, RequestFacts DEF CameFrom
  <2>4. f.route \in PageRoutes => n = 0
    BY <1>1, RequestFacts
  <2>5. by = "handler" => o \in Convert(f, parts, ds)
    BY <1>3 DEF Possible
  <2>6. by = "worker" => o \in RunJob(f, ds) /\ Spawns(f, n)
    BY <1>1, <1>3 DEF Possible, CameFrom
  <2> HIDE DEF ds
  <2>7. by = "handler" => Rules("handler", f, ds, o.docs)
    BY <1>1, <1>3, <2>2, <2>3, <2>5, AnswerRules, RequestFacts
  <2>8. by = "worker" => Rules("worker", f, ds, o.docs)
    BY <1>1, <1>3, <2>2, <2>3, <2>4, <2>6, JobRules, RequestFacts
  <2> QED BY <1>3, <1>5, <2>1, <2>2, <2>7, <2>8 DEF docs
<1> QED BY <1>2, <1>4, <1>5

\* What SessionInv says of the documents the client has, of the job on the queue
\* and of the last answer is never broken: the answer is what a route, a worker or
\* a command came to that worked on documents, and so it is documents again.
THEOREM SessionInductive == Spec => []SessionInv
<1> QED BY InitKeeps, StepKeeps, PTL DEF Spec

\* Whatever the client sends, in whatever order, each document it has afterwards
\* is a sequence of pages, each turned by 0 to 3 quarters however often it went
\* through rotate, and every status is one the server or the binary knows.
THEOREM SessionTypeOK == Spec => []TypeOK
<1>1. SessionInv => TypeOK
  BY DEF SessionInv, Library, ReplyKept, TypeOK
<1> QED BY <1>1, SessionInductive, PTL

\* Content behind a user password comes out of no route and of no command without
\* one, except of decrypt with one of its passwords, for every set of documents and
\* of requests and every number of them.
THEOREM LockedStaysLocked == Spec => []LockedContentStaysLocked
<1>1. SessionInv => LockedContentStaysLocked
  <2> SUFFICES ASSUME SessionInv, Answered PROVE LockedContentStaysLocked
    BY DEF LockedContentStaysLocked
  <2>1. Len(Uploaded) = Len(reply.parts) /\ LockRule(reply.by, reply.form, Uploaded, reply.docs)
    BY AnswersKeepRules DEF Rules
  <2> QED BY <2>1 DEF LockedContentStaysLocked, LockRule, ComesOf, MadeOf, Results
<1> QED BY <1>1, SessionInductive, PTL

\* A route that honours the two password fields (merge, split, encrypt, html,
\* markdown, office on the spot, two commands) protects each document it returns by
\* just those passwords, after it wrote the metadata that was asked for.
THEOREM AskedLocks == Spec => []AskedPasswordLocks
<1>1. SessionInv => AskedPasswordLocks
  <2> SUFFICES ASSUME SessionInv, Answered PROVE AskedPasswordLocks
    BY DEF AskedPasswordLocks
  <2>1. Len(Uploaded) = Len(reply.parts) /\ AskRule(reply.by, reply.form, Len(reply.parts), reply.docs)
    BY AnswersKeepRules DEF Rules
  <2> QED BY <2>1 DEF AskedPasswordLocks, AskRule, Asked, Results
<1> QED BY <1>1, SessionInductive, PTL

-----------------------------------------------------------------------------
(* What a route works on is what the client sent.                          *)

\* The name a file is stored under, when the suffix keeps the names apart.
LEMMA PathFacts ==
  ASSUME NEW parts, NEW n \in Nat, DOMAIN parts = 1..n, KeptApart(parts), NEW i \in 1..n
  PROVE  \/ /\ parts[i].fetched \/ \A j \in 1..n : j < i => parts[j].name # parts[i].name
            /\ Path(parts, i) = parts[i].name
         \/ /\ \E j \in 1..n : j < i /\ parts[j].name = parts[i].name
            /\ Path(parts, i) = Append(parts[i].name, 1)
<1> DEFINE taken == {parts[j].name : j \in 1..(i - 1)}
           free == {m \in 1..i : Append(parts[i].name, m) \notin taken}
           least == CHOOSE m \in free : \A k \in free : m <= k
<1>1. Path(parts, i) = IF parts[i].fetched \/ parts[i].name \notin taken THEN parts[i].name
                       ELSE Append(parts[i].name, least)
  BY DEF Path
<1>2. \A x : x \in taken <=> \E j \in 1..n : j < i /\ parts[j].name = x
  OBVIOUS
<1>3. Append(parts[i].name, 1) \notin taken
  BY <1>2 DEF KeptApart
<1>4. 1 \in free /\ \A k \in free : k \in Nat /\ 1 <= k
  BY <1>3
<1> HIDE DEF taken, free
<1>5. least = 1
  <2>1. least \in free /\ \A k \in free : least <= k
    BY <1>4
  <2> HIDE DEF least
  <2> QED BY <1>4, <2>1
<1> QED BY <1>1, <1>2, <1>5

\* No two files are stored under one.
LEMMA PathsApart ==
  ASSUME NEW parts, NEW n \in Nat, DOMAIN parts = 1..n, KeptApart(parts),
         \A i \in 1..n : IsSequence(parts[i].name),
         NEW i \in 1..n, NEW j \in 1..n, i < j
  PROVE  Path(parts, i) # Path(parts, j)
<1> DEFINE a == parts[i].name
           b == parts[j].name
<1>1. /\ a = b => ~parts[j].fetched /\ \A k \in 1..n : parts[k].name = a => k \in {i, j}
      /\ b # Append(a, 1) /\ a # Append(b, 1)
  BY DEF KeptApart
<1>2. \/ Path(parts, i) = a
      \/ Path(parts, i) = Append(a, 1) /\ \E k \in 1..n : k < i /\ parts[k].name = a
  BY PathFacts
<1>3. \/ Path(parts, j) = b /\ (parts[j].fetched \/ a # b)
      \/ Path(parts, j) = Append(b, 1)
  BY PathFacts
<1>4. Append(a, 1) = Append(b, 1) => a = b
  <2>1. IsSequence(a) /\ IsSequence(b)
    OBVIOUS
  <2> DEFINE S == Range(a) \cup Range(b) \cup {1}
  <2>2. a \in Seq(S) /\ b \in Seq(S)
    BY <2>1, SeqMonotonic DEF IsSequence
  <2> HIDE DEF a, b
  <2> QED BY <2>2, AppendInjective
<1> HIDE DEF a, b
<1>5. CASE Path(parts, i) = a
  BY <1>1, <1>3, <1>5
<1>6. CASE Path(parts, i) = Append(a, 1) /\ \E k \in 1..n : k < i /\ parts[k].name = a
  <2>1. CASE Path(parts, j) = b
    BY <1>1, <1>6, <2>1
  <2>2. CASE Path(parts, j) = Append(b, 1)
    <3>1. a # b
      <4>1. PICK k \in 1..n : k < i /\ parts[k].name = a
        BY <1>6
      <4>2. k \notin {i, j}
        BY <4>1
      <4> QED BY <1>1, <4>1, <4>2
    <3> QED BY <1>4, <1>6, <2>2, <3>1
  <2> QED BY <1>3, <2>1, <2>2
<1> QED BY <1>2, <1>5, <1>6

\* What a route works on is what the client sent.
LEMMA ReceivedAsSent ==
  ASSUME NEW parts, NEW n \in Nat, DOMAIN parts = 1..n, KeptApart(parts),
         \A i \in 1..n : IsSequence(parts[i].name)
  PROVE  Received(parts) = [i \in DOMAIN parts |-> parts[i].doc]
<1>1. \A i, j \in 1..n : Path(parts, i) = Path(parts, j) => i = j
  <2>1. ASSUME NEW i \in 1..n, NEW j \in 1..n, i # j PROVE Path(parts, i) # Path(parts, j)
    <3>1. i < j \/ j < i
      BY <2>1
    <3> QED BY <3>1, PathsApart
  <2> QED BY <2>1
<1>2. ASSUME NEW i \in 1..n PROVE Content(parts, i) = parts[i].doc
  <2> DEFINE last(j) == /\ Path(parts, j) = Path(parts, i)
                        /\ \A k \in DOMAIN parts : Path(parts, k) = Path(parts, i) => k <= j
  <2>1. last(i) /\ i \in DOMAIN parts
    BY <1>1
  <2>2. \A j \in DOMAIN parts : last(j) => j = i
    BY <1>1
  <2>3. (CHOOSE j \in DOMAIN parts : last(j)) = i
    <3> HIDE DEF last
    <3> QED BY <2>1, <2>2
  <2> QED BY <2>3 DEF Content
<1> QED BY <1>2 DEF Received

-----------------------------------------------------------------------------
(* What becomes of the pages, route by route and command by command.       *)

\* The pages of the one document that comes of each file, or of all.
FirstPages(docs) == FlattenSeq([i \in DOMAIN docs |-> docs[i][1].pages])

\* One document of all has its own pages.
LEMMA FirstPagesOfOne ==
  ASSUME NEW r, NEW docs, docs = <<<<r>>>>
  PROVE  FirstPages(docs) = r.pages
<1> DEFINE l == [i \in DOMAIN docs |-> docs[i][1].pages]
<1>1. DOMAIN l = {1} /\ Len(l) = 1 /\ l[1] = r.pages
  OBVIOUS
<1> HIDE DEF l
<1>2. FlattenSeq(l) = r.pages
  BY <1>1, FlattenOne
<1> QED BY <1>2 DEF FirstPages, l

\* The route merge.
LEMMA MergeFilesPages ==
  ASSUME NEW f, IsSequence(f.marks), NEW ds, Documents(ds), NEW o \in MergeFiles(f, ds), Succeeded(o)
  PROVE  Same(FirstPages(o.docs), PagesOf(ds))
<1>1. PICK r : o = Done(<<<<r>>>>) /\ Same(r.pages, PagesOf(ds))
  BY MergeFilesSucceed DEF Documents
<1>2. o.docs = <<<<r>>>>
  BY <1>1, Outcomes
<1> QED BY <1>1, <1>2, FirstPagesOfOne

\* Its job.
LEMMA MergeJobPages ==
  ASSUME NEW ds, Documents(ds), NEW o \in Whole(Merge(ds)), Succeeded(o)
  PROVE  Same(FirstPages(o.docs), PagesOf(ds))
<1>1. PICK m \in Merge(ds) : Succeeded(m) /\ o = Done(<<m.docs>>)
  BY WholeSucceeds
<1>2. PICK r : m = Done(<<r>>) /\ Same(r.pages, PagesOf(ds))
  BY <1>1, MergeMakes DEF Documents
<1>3. o.docs = <<<<r>>>>
  BY <1>1, <1>2, Outcomes
<1> QED BY <1>2, <1>3, FirstPagesOfOne

\* The command merge.
LEMMA CliMergePages ==
  ASSUME NEW f, NEW ds, Documents(ds), NEW o \in Whole(RunMerge(f, ds)), Succeeded(o)
  PROVE  Same(FirstPages(o.docs), PagesOf(ds))
<1>1. PICK b \in RunMerge(f, ds) : Succeeded(b) /\ o = Done(<<b.docs>>)
  BY WholeSucceeds
<1>2. b \in Bind({Fail("Io")} \cup Merge(ds), WriteOutput)
  BY <1>1, Outcomes DEF RunMerge
<1>3. PICK m \in {Fail("Io")} \cup Merge(ds) : Succeeded(m) /\ b \in WriteOutput(m.docs[1])
  BY <1>1, <1>2 DEF Bind
<1>4. m \in Merge(ds)
  BY <1>3, Outcomes
<1>5. PICK r : m = Done(<<r>>) /\ Same(r.pages, PagesOf(ds))
  BY <1>3, <1>4, MergeMakes DEF Documents
<1>6. b = Done(<<r>>)
  BY <1>1, <1>3, <1>5, WriteOutputSucceeds, Outcomes
<1>7. o.docs = <<<<r>>>>
  BY <1>1, <1>6, Outcomes
<1> QED BY <1>5, <1>7, FirstPagesOfOne

\* What LibreOffice printed has the pages of the files.
LEMMA PrintoutsPages ==
  ASSUME NEW ds, Documents(ds), NEW o \in Singles(Each(Printouts(ds))), Succeeded(o)
  PROVE  Documents(o.docs) /\ Len(o.docs) = Len(ds) /\ PageList(o.docs) = PageList(ds)
<1> DEFINE n == Len(ds)
           outs == Printouts(ds)
<1>0. n \in Nat /\ DOMAIN ds = 1..n
  BY DEF Documents
<1>1. PICK a \in Each(outs) : Succeeded(a) /\ o = Done([i \in DOMAIN a.docs |-> a.docs[i][1]])
  BY SinglesSucceed
<1>2. DOMAIN outs = 1..n /\ \A i \in 1..n : outs[i] = OfficeConvert(ds[i])
  BY <1>0 DEF Printouts
<1> HIDE DEF outs
<1>3. /\ DOMAIN a.docs = 1..n
      /\ \A i \in 1..n : \E b \in outs[i] : Succeeded(b) /\ a.docs[i] = b.docs
  BY <1>0, <1>1, <1>2, EachMakes
<1>4. ASSUME NEW i \in 1..n
      PROVE  IsDocument(a.docs[i][1]) /\ a.docs[i][1].pages = ds[i].pages
  <2>1. PICK b \in OfficeConvert(ds[i]) : Succeeded(b) /\ a.docs[i] = b.docs
    BY <1>2, <1>3
  <2> DEFINE d == ds[i]
  <2>2. IsDocument(d)
    BY <1>0 DEF Documents
  <2> HIDE DEF d
  <2>3. b = Done(<<Printout(d)>>)
    BY <2>1, OfficeConvertSucceeds DEF d
  <2>4. IsDocument(Printout(d)) /\ Printout(d).pages = d.pages
    BY <2>2, PrintoutFacts DEF Printout, Rendered
  <2>5. a.docs[i][1] = Printout(d)
    BY <2>1, <2>3, Outcomes
  <2> QED BY <2>4, <2>5 DEF d
<1>5. o.docs = [i \in 1..n |-> a.docs[i][1]]
  BY <1>1, <1>3, Outcomes
<1>6. DOMAIN o.docs = 1..n /\ Len(o.docs) = n
      /\ \A i \in 1..n : IsDocument(o.docs[i]) /\ o.docs[i].pages = ds[i].pages
  BY <1>0, <1>4, <1>5
<1>7. PageList(o.docs) = PageList(ds)
  BY <1>0, <1>6 DEF PageList
<1> QED BY <1>0, <1>6, <1>7 DEF Documents

\* The route office, on the spot.
LEMMA OfficeFilesPages ==
  ASSUME NEW f, NEW ds, Documents(ds), NEW o \in OfficeFiles(f, ds), Succeeded(o)
  PROVE  Same(FirstPages(o.docs), PagesOf(ds))
<1>1. PICK b \in Singles(Each(Printouts(ds))) :
        /\ Succeeded(b)
        /\ o \in IF f.merge /\ Len(b.docs) > 1
                 THEN Whole(Bind(Merge(b.docs), LAMBDA d : Finished(d, f)))
                 ELSE IF Len(b.docs) = 1 THEN Whole(Finished(b.docs[1], f))
                 ELSE {Done([i \in DOMAIN b.docs |-> <<b.docs[i]>>])}
  BY DEF OfficeFiles, Then
<1> DEFINE xs == b.docs
<1>2. Documents(xs) /\ PageList(xs) = PageList(ds)
  BY <1>1, PrintoutsPages
<1>3. PagesOf(xs) = PagesOf(ds)
  BY <1>2 DEF PagesOf
<1> HIDE DEF xs
<1>4. CASE f.merge /\ Len(xs) > 1
  <2>1. PICK a \in Bind(Merge(xs), LAMBDA d : Finished(d, f)) : Succeeded(a) /\ o = Done(<<a.docs>>)
    BY <1>1, <1>4, WholeSucceeds DEF xs
  <2>2. PICK m \in Merge(xs) : Succeeded(m) /\ a \in Finished(m.docs[1], f)
    BY <2>1 DEF Bind
  <2>3. PICK x : m = Done(<<x>>) /\ IsDocument(x) /\ Same(x.pages, PagesOf(xs))
    BY <1>2, <2>2, MergeMakes DEF Documents
  <2>4. m.docs[1] = x
    BY <2>3, Outcomes
  <2>5. PICK r : a = Done(<<r>>) /\ r.pages = x.pages
    <3>1. IsDocument(x) /\ a \in Finished(x, f) /\ Succeeded(a)
      BY <2>1, <2>2, <2>3, <2>4
    <3>2. \E r : a = Done(<<r>>) /\ IsDocument(r) /\ r.pages = x.pages /\ Asked(f, r) /\ TitleAsked(f, r)
      BY <3>1, FinishedSucceeds
    <3> QED BY <3>2
  <2>6. o.docs = <<<<r>>>>
    BY <2>1, <2>5, Outcomes
  <2> QED BY <1>3, <2>3, <2>5, <2>6, FirstPagesOfOne
<1>5. CASE ~(f.merge /\ Len(xs) > 1) /\ Len(xs) = 1
  <2> DEFINE x == xs[1]
  <2>1. PICK a \in Finished(x, f) : Succeeded(a) /\ o = Done(<<a.docs>>)
    BY <1>1, <1>5, WholeSucceeds DEF xs
  <2>2. DOMAIN xs = 1..1 /\ IsDocument(x)
    BY <1>2, <1>5 DEF Documents
  <2>3. PagesOf(xs) = x.pages
    BY <2>2, PagesOfOne
  <2> HIDE DEF x
  <2>4. PICK r : a = Done(<<r>>) /\ r.pages = x.pages
    BY <2>1, <2>2, FinishedSucceeds
  <2>5. o.docs = <<<<r>>>>
    BY <2>1, <2>4, Outcomes
  <2> QED BY <1>3, <2>3, <2>4, <2>5, FirstPagesOfOne DEF Same
<1>6. CASE ~(f.merge /\ Len(xs) > 1) /\ Len(xs) # 1
  <2>1. o = Done([i \in DOMAIN xs |-> <<xs[i]>>])
    BY <1>1, <1>6 DEF xs
  <2>2. o.docs = [i \in DOMAIN xs |-> <<xs[i]>>]
    BY <2>1, Outcomes
  <2>3. [i \in DOMAIN o.docs |-> o.docs[i][1].pages] = [i \in DOMAIN xs |-> xs[i].pages]
    BY <2>2
  <2> QED BY <1>3, <2>3 DEF FirstPages, PagesOf, PageList, Same
<1> QED BY <1>4, <1>5, <1>6

-----------------------------------------------------------------------------

\* What split returns of a file.
Kept(f, d, cs) ==
  /\ f.mode \in {"intervals", "every-n", "one-per-page"} => PagesOf(cs) = d.pages
  /\ f.mode \in {"pages", "ranges"} =>
       IF f.unify THEN Same(PagesOf(cs), Chosen(f.ranges, d.pages))
       ELSE PagesOf(cs) = Chosen(f.ranges, d.pages)

\* The route split has two modes.
LEMMA SplitModes ==
  ASSUME NEW f, NEW n, f.route = "split", Refusal(f, n) = "none"
  PROVE  f.mode \in {"intervals", "pages"}
<1>1. First(<<Some(n), PdfATogether(f), StampFile(f), SplitModeField(f)>>) = "none"
  BY DEF Refusal
<1> DEFINE a == Some(n)
           b == PdfATogether(f)
           c == StampFile(f)
           s == SplitModeField(f)
<1>2. First(<<a, b, c, s>>) = "none"
  BY <1>1
<1> HIDE DEF a, b, c, s
<1>3. DOMAIN <<a, b, c, s>> \subseteq Nat /\ 4 \in DOMAIN <<a, b, c, s>> /\ <<a, b, c, s>>[4] = s
  OBVIOUS
<1>4. s = "none"
  BY <1>2, <1>3, FirstNone
<1>5. f.mode \notin {"intervals", "pages"} => s = "InvalidField"
  BY DEF s, SplitModeField
<1> QED BY <1>4, <1>5

\* The route split.
LEMMA SplitFilesPages ==
  ASSUME NEW f, NEW ds, Documents(ds), f.route = "split", Refusal(f, Len(ds)) = "none",
         f.span \in Nat \cup {-1}, NEW o \in SplitFiles(f, ds), Succeeded(o)
  PROVE  DOMAIN o.docs = DOMAIN ds /\ \A i \in DOMAIN ds : Kept(f, ds[i], o.docs[i])
<1>1. f.mode = "intervals" => f.span \in Nat
  BY SplitSpan
<1>2. f.mode \in {"intervals", "pages"}
  BY SplitModes
<1>3. DOMAIN o.docs = DOMAIN ds /\ \A i \in DOMAIN ds : SplitDelivers(f, ds[i], o.docs[i])
  BY <1>1, SplitFilesSucceed
<1> QED BY <1>2, <1>3 DEF SplitDelivers, Delivers, Kept

\* The command split.
LEMMA CliSplitPages ==
  ASSUME NEW f, NEW d, IsDocument(d), NEW o \in Whole(RunSplit(f, d)), Succeeded(o),
         f.span \in Nat \cup {-1}
  PROVE  \E cs : o.docs = <<cs>> /\ Kept(f, d, cs)
<1> DEFINE mode == CommandSplitMode(f)
<1>1. PICK b \in RunSplit(f, d) : Succeeded(b) /\ o = Done(<<b.docs>>)
  BY WholeSucceeds
<1>2. PICK a \in ReadInput(d) :
        /\ Succeeded(a)
        /\ b \in IF ParseSplitMode(f) # "none" THEN {Fail(ParseSplitMode(f))}
                 ELSE Then(Split(a.docs[1], mode), WriteChunks)
  BY <1>1 DEF RunSplit, Bind
<1>3. a.docs[1] = d
  BY <1>2, ReadInputSucceeds
<1>4. ParseSplitMode(f) = "none" /\ b \in Then(Split(d, mode), WriteChunks)
  BY <1>1, <1>2, <1>3, Outcomes
<1>5. PICK s \in Split(d, mode) : Succeeded(s) /\ b \in WriteChunks(s.docs)
  BY <1>1, <1>4 DEF Then
<1>6. b = Done(s.docs)
  BY <1>1, <1>5 DEF WriteChunks, Succeeded
<1> DEFINE cs == s.docs
<1>7. o.docs = <<cs>>
  BY <1>1, <1>6, Outcomes
<1>8. CASE f.mode = "one-per-page"
  <2>1. mode = [kind |-> "every", n |-> 1]
    BY <1>8 DEF CommandSplitMode
  <2> HIDE DEF mode
  <2>2. PagesOf(cs) = d.pages
    BY <1>5, <2>1, SplitEvery
  <2> QED BY <1>7, <1>8, <2>2 DEF Kept
<1>9. CASE f.mode = "every-n"
  <2>1. mode = [kind |-> "every", n |-> f.span] /\ f.span \in Nat
    BY <1>4, <1>9 DEF CommandSplitMode, ParseSplitMode, Unless
  <2> HIDE DEF mode
  <2>2. PagesOf(cs) = d.pages
    BY <1>5, <2>1, SplitEvery
  <2> QED BY <1>7, <1>9, <2>2 DEF Kept
<1>10. CASE f.mode = "ranges"
  <2>1. mode = [kind |-> "ranges", chunks |-> <<f.ranges>>]
    BY <1>10 DEF CommandSplitMode
  <2> HIDE DEF mode
  <2>2. PagesOf(cs) = Chosen(f.ranges, d.pages)
    BY <1>5, <2>1, SplitByRanges
  <2> QED BY <1>7, <1>10, <2>2 DEF Kept, Same
<1>11. f.mode \in {"one-per-page", "every-n", "ranges"}
  BY <1>4 DEF ParseSplitMode
<1> QED BY <1>8, <1>9, <1>10, <1>11

-----------------------------------------------------------------------------
(* The pages of every answer.                                              *)

\* A request that joins its files, and what it comes to.
Joins(by, f, parts, ds, o) ==
  \/ by = "command" /\ f.route = "cli_merge" /\ o \in RunCommand(f, ds)
  \/ by = "handler" /\ f.route \in {"merge", "office"} /\ o \in Convert(f, parts, ds)
  \/ by = "worker" /\ f.route = "merge" /\ o \in RunJob(f, ds)

\* It has their pages in a row.
LEMMA JoinedPages ==
  ASSUME NEW by, NEW f, NEW parts, NEW ds, Documents(ds), IsSequence(f.marks), NEW o, Succeeded(o),
         Joins(by, f, parts, ds, o)
  PROVE  Same(FirstPages(o.docs), PagesOf(ds))
<1>1. CASE by = "command"
  <2>1. o \in Whole(RunMerge(f, ds))
    BY <1>1 DEF Joins, RunCommand
  <2> QED BY <2>1, CliMergePages
<1>2. CASE by = "handler" /\ f.route = "merge"
  <2>1. o \in MergeFiles(f, ds)
    BY <1>2 DEF Joins, Convert, Screenshots, Previews
  <2> QED BY <2>1, MergeFilesPages
<1>3. CASE by = "handler" /\ f.route = "office"
  <2>1. o \in OfficeFiles(f, ds)
    BY <1>3 DEF Joins, Convert, Screenshots, Previews
  <2> QED BY <2>1, OfficeFilesPages
<1>4. CASE by = "worker"
  <2>1. o \in Whole(Merge(ds))
    BY <1>4 DEF Joins, RunJob, PdfJob, Screenshots
  <2> QED BY <2>1, MergeJobPages
<1> QED BY <1>1, <1>2, <1>3, <1>4 DEF Joins

\* What a request that splits its files comes to has the pages of each.
LEMMA DividedPages ==
  ASSUME NEW by, NEW f, NEW parts, NEW ds, Documents(ds), f.span \in Nat \cup {-1}, NEW o, Succeeded(o),
         by = "command" => f.route = "cli_split" /\ Len(ds) = 1 /\ o \in RunCommand(f, ds),
         by = "handler" => f.route = "split" /\ Refusal(f, Len(ds)) = "none" /\ o \in Convert(f, parts, ds),
         by \in {"command", "handler"}
  PROVE  \A i \in DOMAIN ds : Kept(f, ds[i], o.docs[i])
<1>1. CASE by = "command"
  <2> DEFINE d == ds[1]
  <2>1. o \in Whole(RunSplit(f, d))
    BY <1>1 DEF RunCommand
  <2>2. IsDocument(d) /\ DOMAIN ds = 1..1
    <3>1. Len(ds) = 1
      BY <1>1
    <3>2. DOMAIN ds = 1..1
      BY <3>1 DEF Documents
    <3> QED BY <3>1, <3>2, AloneUnlocked
  <2> HIDE DEF d
  <2>3. PICK cs : o.docs = <<cs>> /\ Kept(f, d, cs)
    BY <2>1, <2>2, CliSplitPages
  <2>4. o.docs[1] = cs
    BY <2>3
  <2>5. \A i \in DOMAIN ds : i = 1
    BY <2>2
  <2> QED BY <2>3, <2>4, <2>5 DEF d
<1>2. CASE by = "handler"
  <2>1. o \in SplitFiles(f, ds)
    BY <1>2 DEF Convert, Screenshots, Previews
  <2> QED BY <1>2, <2>1, SplitFilesPages
<1> QED BY <1>1, <1>2

\* So it is with every answer.
LEMMA AnsweredPages ==
  ASSUME SessionInv, Answered, KeptApart(reply.parts), NEW ds, ds = [i \in DOMAIN reply.parts |-> reply.parts[i].doc]
  PROVE  /\ (reply.form.route \in {"merge", "cli_merge"} \/ (reply.form.route = "office" /\ reply.by = "handler")) =>
              Same(FirstPages(reply.docs), PagesOf(ds))
         /\ reply.form.route \in {"split", "cli_split"} =>
              \A i \in DOMAIN ds : Kept(reply.form, ds[i], reply.docs[i])
<1> DEFINE by == reply.by
           f == reply.form
           parts == reply.parts
           n == Len(parts)
<1>1. IsRequest(reply) /\ CameFrom(by, f, parts, reply.docs)
  BY DEF SessionInv, ReplyKept
<1>2. by \in {"handler", "worker", "command"}
  BY DEF SessionInv, ReplyKept, Answered
<1>3. PICK o \in Possible(by, f, parts) : Succeeded(o) /\ o.docs = reply.docs
  BY <1>1 DEF CameFrom
<1>4. /\ n \in Nat /\ DOMAIN parts = 1..n /\ \A i \in 1..n : IsSequence(parts[i].name)
      /\ Documents(ds) /\ Len(ds) = n
      /\ f.route = "cli_split" => n = 1
      /\ f.span \in Nat \cup {-1} /\ IsSequence(f.marks)
  BY <1>1, RequestFacts DEF Commands
<1>5. Received(parts) = ds
  BY <1>4, ReceivedAsSent
<1>6. /\ by = "command" => f.route \in Commands /\ o \in RunCommand(f, ds)
      /\ by = "handler" => f.route \notin Commands /\ Refusal(f, Len(ds)) = "none" /\ o \in Convert(f, parts, ds)
      /\ by = "worker" => f.route \notin Commands /\ Spawns(f, n) /\ o \in RunJob(f, ds)
  BY <1>1, <1>3, <1>4, <1>5 DEF CameFrom, Possible
<1>7. ASSUME f.route \in {"merge", "cli_merge"} \/ (f.route = "office" /\ by = "handler")
      PROVE  Same(FirstPages(o.docs), PagesOf(ds))
  <2>1. Joins(by, f, parts, ds, o)
    BY <1>2, <1>6, <1>7 DEF Commands, Joins
  <2> HIDE DEF by, f, parts
  <2>2. Documents(ds) /\ IsSequence(f.marks) /\ Succeeded(o)
    BY <1>3, <1>4
  <2> QED BY <2>1, <2>2, JoinedPages
<1>8. ASSUME f.route \in {"split", "cli_split"}
      PROVE  \A i \in DOMAIN ds : Kept(f, ds[i], o.docs[i])
  <2>1. /\ by = "command" => f.route = "cli_split" /\ o \in RunCommand(f, ds)
        /\ by = "handler" => f.route = "split" /\ o \in Convert(f, parts, ds)
    BY <1>6, <1>8 DEF Commands
  <2>2. by # "worker"
    BY <1>6, <1>8 DEF Spawns, Screenshots, Commands
  <2>3. by = "command" => Len(ds) = 1
    BY <1>4, <2>1
  <2>4. by = "handler" => Refusal(f, Len(ds)) = "none"
    BY <1>6
  <2> HIDE DEF by, f, parts
  <2> QED BY <1>2, <1>3, <1>4, <2>1, <2>2, <2>3, <2>4, DividedPages
<1> QED BY <1>3, <1>7, <1>8

\* Pages that are the same, or the same without what the page tree lent them.
LEMMA SameAreSamePages ==
  ASSUME NEW ps, NEW qs, ArePages(qs), Same(ps, qs)
  PROVE  SamePages(ps, qs)
<1>1. CASE ps = qs
  BY <1>1 DEF SamePages
<1>2. CASE ps = Severed(qs)
  <2> DEFINE none == {}
  <2>1. ps = [k \in DOMAIN qs |-> [qs[k] EXCEPT !.lent = none]]
    BY <1>2 DEF Severed
  <2>2. ASSUME NEW k \in DOMAIN qs
        PROVE  /\ ps[k].src = qs[k].src /\ ps[k].turn = qs[k].turn /\ ps[k].marks = qs[k].marks
               /\ qs[k].lent = none => ps[k] = qs[k]
    <3> DEFINE p == ps[k]
               q == qs[k]
    <3>1. p = [q EXCEPT !.lent = none]
      BY <2>1
    <3>2. q = [src |-> q.src, turn |-> q.turn, lent |-> q.lent, marks |-> q.marks, annots |-> q.annots]
      BY DEF ArePages, IsPage
    <3> HIDE DEF p, q, none
    <3>3. p.src = q.src /\ p.turn = q.turn /\ p.marks = q.marks /\ (q.lent = none => p = q)
      BY <3>1, <3>2
    <3> QED BY <3>3 DEF p, q
  <2>3. DOMAIN ps = DOMAIN qs
    BY <2>1
  <2> QED BY <2>2, <2>3 DEF SamePages, Own
<1> QED BY <1>1, <1>2 DEF Same

\* The pages of documents are pages.
LEMMA PagesOfArePages ==
  ASSUME NEW ds, Documents(ds)
  PROVE  ArePages(PagesOf(ds))
<1> DEFINE l == PageList(ds)
<1>1. DOMAIN l = 1..Len(l) /\ Len(l) \in Nat /\ \A i \in DOMAIN l : ArePages(l[i])
  BY DEF PageList, Documents, IsDocument
<1>2. PagesOf(ds) = FlattenSeq(l)
  BY DEF PagesOf
<1>3. l = [i \in DOMAIN l |-> l[i]]
  BY DEF PageList
<1> HIDE DEF l
<1>4. CASE Len(l) # 0
  BY <1>1, <1>2, <1>4, PagesInARow
<1>5. CASE Len(l) = 0
  <2>1. FlattenSeq(l) = l
    BY <1>5 DEF FlattenSeq
  <2>2. DOMAIN l = 1..0 /\ l \in [1..0 -> Range(l)]
    BY <1>1, <1>3, <1>5 DEF Range
  <2>3. l \in Seq(Range(l))
    BY <2>2, SeqDef
  <2> QED BY <1>2, <2>1, <2>2, <2>3 DEF ArePages, IsSequence
<1> QED BY <1>4, <1>5

\* So are the selected ones.
LEMMA ChosenPages ==
  ASSUME NEW rs, NEW d, IsDocument(d)
  PROVE  ArePages(Chosen(rs, d.pages))
<1> DEFINE ps == d.pages
           places == Selected(rs, Len(ps))
<1>1. ArePages(ps) /\ DOMAIN ps = 1..Len(ps)
  BY SequenceFacts DEF IsDocument, ArePages
<1>2. places \in SUBSET (DOMAIN ps)
  BY <1>1 DEF Selected
<1> HIDE DEF ps, places
<1>3. ArePages(At(ps, places))
  BY <1>1, <1>2, PagesAt
<1> QED BY <1>3 DEF Chosen, ps, places

\* What the client sent are documents.
LEMMA SentAreDocuments ==
  ASSUME SessionInv, Answered
  PROVE  Documents([i \in DOMAIN reply.parts |-> reply.parts[i].doc])
<1>1. IsRequest(reply)
  BY DEF SessionInv, ReplyKept
<1> QED BY <1>1, RequestFacts

\* No page is lost, doubled or moved: merge and office give back the pages of all
\* the files in their order, each with what it has of its own and as it was if the
\* page tree of its file lends it nothing; split at intervals gives back those of
\* each file as they were, split by pages the selected ones (as a merge does when it
\* unifies them); through the routes, the worker and the commands, for every number
\* of files, whatever they are called as long as the suffix keeps the names apart.
THEOREM PagesAllAccounted == Spec => []PagesAccounted
<1>1. SessionInv => PagesAccounted
  <2> SUFFICES ASSUME SessionInv, Answered, KeptApart(reply.parts) PROVE PagesAccounted
    BY DEF PagesAccounted
  <2> DEFINE ds == [i \in DOMAIN reply.parts |-> reply.parts[i].doc]
             f == reply.form
  <2>1. /\ Joining => Same(FirstPages(reply.docs), PagesOf(ds))
        /\ f.route \in {"split", "cli_split"} => \A i \in DOMAIN ds : Kept(f, ds[i], reply.docs[i])
    BY AnsweredPages DEF Joining
  <2>2. PageList(ds) = [i \in DOMAIN reply.parts |-> reply.parts[i].doc.pages]
    BY DEF PageList
  <2>3. FirstPages(reply.docs) = PagesJoined /\ PagesOf(ds) = PagesSent
    BY <2>2 DEF FirstPages, PagesOf, PagesJoined, PagesSent
  <2>4. Documents(ds)
    BY SentAreDocuments
  <2> HIDE DEF ds
  <2>5. Joining => SamePages(PagesJoined, PagesSent)
    <3>1. ArePages(PagesOf(ds))
      BY <2>4, PagesOfArePages
    <3> QED BY <2>1, <2>3, <3>1, SameAreSamePages
  <2>6. ASSUME NEW i \in DOMAIN reply.parts, f.route \in {"split", "cli_split"}
        PROVE  /\ f.mode \in {"intervals", "every-n", "one-per-page"} =>
                    PagesOfChunks(i) = reply.parts[i].doc.pages
               /\ f.mode \in {"pages", "ranges"} =>
                    LET pages == reply.parts[i].doc.pages
                        chosen == At(pages, Selected(f.ranges, Len(pages)))
                    IN IF f.unify THEN SamePages(PagesOfChunks(i), chosen)
                       ELSE PagesOfChunks(i) = chosen
    <3> DEFINE d == reply.parts[i].doc
               out == PagesOfChunks(i)
               chosen == At(d.pages, Selected(f.ranges, Len(d.pages)))
    <3>1. Kept(f, d, reply.docs[i]) /\ IsDocument(d)
      BY <2>1, <2>4, <2>6 DEF ds, Documents
    <3>2. PagesOf(reply.docs[i]) = out
      BY DEF PagesOf, PageList, PagesOfChunks
    <3>3. chosen = Chosen(f.ranges, d.pages)
      BY DEF Chosen
    <3> HIDE DEF d, out, chosen, f
    <3>4. ArePages(chosen)
      BY <3>1, <3>3, ChosenPages
    <3>5. /\ f.mode \in {"intervals", "every-n", "one-per-page"} => out = d.pages
          /\ f.mode \in {"pages", "ranges"} => IF f.unify THEN Same(out, chosen) ELSE out = chosen
      BY <3>1, <3>2, <3>3 DEF Kept
    <3>6. Same(out, chosen) => SamePages(out, chosen)
      BY <3>4, SameAreSamePages
    <3> QED BY <3>5, <3>6 DEF d, out, chosen
  <2> QED BY <2>5, <2>6 DEF PagesAccounted
<1> QED BY <1>1, SessionInductive, PTL

-----------------------------------------------------------------------------
(* Where the elements of sequences in a row are.                           *)

\* Sequences that are all over one set.
Rows(seqs, n, S) == DOMAIN seqs = 1..n /\ \A i \in 1..n : seqs[i] \in Seq(S)

\* Where the elements of the i-th sequence are when they are in a row: after those
\* of the sequences before.
Before(g, i) == IF i = 1 THEN 0 ELSE Len(g[i - 1])

Placed(g, seqs, i, m) ==
  /\ Before(g, i) + Len(seqs[i]) <= Len(g[m])
  /\ \A k \in 1..Len(seqs[i]) : g[m][Before(g, i) + k] = seqs[i][k]

\* There they stay, however many more sequences follow.
LEMMA FlatsPlaces ==
  ASSUME NEW S, NEW n \in Nat \ {0}, NEW seqs, Rows(seqs, n, S), NEW g, Flats(g, seqs, n), NEW i \in 1..n
  PROVE  Before(g, i) \in Nat /\ \A m \in i..n : Placed(g, seqs, i, m)
<1> DEFINE B == Before(g, i)
           L == Len(seqs[i])
           right(m) == B + L <= Len(g[m]) /\ \A k \in 1..L : g[m][B + k] = seqs[i][k]
           T == {m \in Nat : m \in i..n /\ ~right(m)}
<1>1. \A k \in 1..n : g[k] \in Seq(S) /\ Len(g[k]) \in Nat
  <2>1. \A k \in 1..n : g[k] \in Seq(S)
    BY FlatsSequences DEF Rows
  <2> QED BY <2>1, LenProperties
<1>2. \A k \in 1..n : g[k] = IF k = 1 THEN seqs[k] ELSE g[k - 1] \o seqs[k]
  BY DEF Flats
<1>3. \A k \in 1..n : seqs[k] \in Seq(S) /\ Len(seqs[k]) \in Nat
  BY LenProperties DEF Rows
<1>4. B \in Nat /\ L \in Nat
  BY <1>1, <1>3 DEF Before
<1>5. right(i)
  <2>1. CASE i = 1
    <3>1. g[i] = seqs[i] /\ B = 0
      BY <1>2, <2>1 DEF Before
    <3> QED BY <1>4, <3>1
  <2>2. CASE i # 1
    <3>1. i - 1 \in 1..n /\ g[i] = g[i - 1] \o seqs[i] /\ B = Len(g[i - 1])
      <4>1. B = Len(g[i - 1])
        BY <2>2 DEF Before
      <4> HIDE DEF right, B, L
      <4>2. i - 1 \in 1..n
        BY <2>2
      <4>3. g[i] = g[i - 1] \o seqs[i]
        BY <1>2, <2>2
      <4> QED BY <4>1, <4>2, <4>3
    <3>2. g[i - 1] \in Seq(S) /\ seqs[i] \in Seq(S)
      BY <1>1, <1>3, <3>1
    <3> DEFINE a == g[i - 1]
               b == seqs[i]
    <3>3. Len(a \o b) = B + L /\ \A k \in 1..(B + L) : (a \o b)[k] = IF k <= B THEN a[k] ELSE b[k - B]
      <4>1. a \in Seq(S) /\ b \in Seq(S) /\ Len(a) = B /\ Len(b) = L
        BY <3>1, <3>2
      <4> HIDE DEF a, b, B, L
      <4> QED BY <4>1, ConcatProperties
    <3> HIDE DEF a, B, L
    <3>4. \A k \in 1..L : (a \o b)[B + k] = b[k]
      <4>1. ASSUME NEW k \in 1..L PROVE (a \o b)[B + k] = b[k]
        <5>1. B + k \in 1..(B + L) /\ ~(B + k <= B) /\ (B + k) - B = k
          BY <1>4
        <5> QED BY <3>3, <5>1
      <4> QED BY <4>1
    <3>5. g[i] = a \o b
      BY <3>1 DEF a
    <3> QED BY <1>4, <3>3, <3>4, <3>5
  <2> QED BY <2>1, <2>2
<1>6. ASSUME T # {} PROVE FALSE
  <2> HIDE DEF right
  <2>1. PICK m \in T : \A k \in T : m <= k
    BY <1>6, LeastNat
  <2>2. m \in i..n /\ ~right(m) /\ m # i
    BY <1>5, <2>1
  <2>3. m - 1 \in i..n /\ m - 1 \in Nat /\ right(m - 1)
    <3>1. m - 1 \in i..n /\ m - 1 \in Nat /\ ~(m <= m - 1)
      BY <2>2
    <3> QED BY <2>1, <3>1
  <2> DEFINE a == g[m - 1]
             b == seqs[m]
  <2>4. m \in 1..n /\ m - 1 \in 1..n /\ g[m] = a \o b
    <3>1. m \in 1..n /\ m - 1 \in 1..n /\ m # 1
      BY <2>2, <2>3
    <3> QED BY <1>2, <3>1
  <2>5. a \in Seq(S) /\ b \in Seq(S) /\ Len(a) \in Nat /\ Len(b) \in Nat
    BY <1>1, <1>3, <2>4
  <2>6. B + L <= Len(a) /\ \A k \in 1..L : a[B + k] = seqs[i][k]
    BY <2>3 DEF right
  <2> HIDE DEF a, b
  <2>7. Len(a \o b) = Len(a) + Len(b)
        /\ \A k \in 1..(Len(a) + Len(b)) : (a \o b)[k] = IF k <= Len(a) THEN a[k] ELSE b[k - Len(a)]
    BY <2>5, ConcatProperties
  <2> HIDE DEF B, L
  <2>8. B + L <= Len(a \o b)
    BY <1>4, <2>5, <2>6, <2>7
  <2>9. ASSUME NEW k \in 1..L PROVE (a \o b)[B + k] = seqs[i][k]
    <3>1. B + k \in 1..(Len(a) + Len(b)) /\ B + k <= Len(a)
      BY <1>4, <2>5, <2>6
    <3> QED BY <2>6, <2>7, <3>1
  <2>10. right(m)
    <3>1. B + L <= Len(g[m]) /\ \A k \in 1..L : g[m][B + k] = seqs[i][k]
      BY <2>4, <2>8, <2>9
    <3> QED BY <3>1 DEF right
  <2> QED BY <2>2, <2>10
<1>7. \A m \in i..n : m \in Nat
  OBVIOUS
<1>8. \A m \in i..n : right(m)
  <2> HIDE DEF right
  <2> QED BY <1>6, <1>7
<1> QED BY <1>4, <1>8 DEF Placed

\* Two lists of sequences that begin alike.
Alike(few, seqs, k) == \A j \in 1..k : few[j] = seqs[j]

\* The first sequences in a row are what they are among more.
LEMMA FlatsPrefix ==
  ASSUME NEW seqs, NEW few, NEW n \in Nat \ {0}, NEW k \in 1..n, Alike(few, seqs, k),
         NEW g, Flats(g, seqs, n), NEW h, Flats(h, few, k)
  PROVE  h[k] = g[k]
<1> DEFINE T == {m \in Nat : m \in 1..k /\ h[m] # g[m]}
<1>1. ASSUME T # {} PROVE FALSE
  <2>1. PICK m \in T : \A j \in T : m <= j
    BY <1>1, LeastNat
  <2>2. m \in 1..k /\ m \in 1..n /\ h[m] # g[m]
    BY <2>1
  <2>3. /\ h[m] = IF m = 1 THEN few[m] ELSE h[m - 1] \o few[m]
        /\ g[m] = IF m = 1 THEN seqs[m] ELSE g[m - 1] \o seqs[m]
    BY <2>2 DEF Flats
  <2>4. few[m] = seqs[m]
    BY <2>2 DEF Alike
  <2>5. m # 1 => h[m - 1] = g[m - 1]
    <3>1. m # 1 => m - 1 \in 1..k /\ m - 1 \in Nat /\ ~(m <= m - 1)
      BY <2>2
    <3> QED BY <2>1, <3>1
  <2> QED BY <2>2, <2>3, <2>4, <2>5
<1>2. k \in Nat /\ k \in 1..k
  OBVIOUS
<1> QED BY <1>1, <1>2

\* An element of one of the sequences is one of the row.
LEMMA InTheRow ==
  ASSUME NEW S, NEW n \in Nat \ {0}, NEW seqs, Rows(seqs, n, S), Len(seqs) = n,
         NEW i \in 1..n, NEW k \in 1..Len(seqs[i])
  PROVE  \E p \in DOMAIN FlattenSeq(seqs) : FlattenSeq(seqs)[p] = seqs[i][k]
<1>1. PICK g : Flats(g, seqs, n) /\ FlattenSeq(seqs) = g[n]
  BY FlattenIs
<1> DEFINE row == FlattenSeq(seqs)
           p == Before(g, i) + k
<1>2. n \in i..n /\ n \in 1..n
  OBVIOUS
<1>3. Before(g, i) \in Nat /\ Before(g, i) + Len(seqs[i]) <= Len(row) /\ row[p] = seqs[i][k]
  <2>1. Before(g, i) \in Nat /\ Placed(g, seqs, i, n)
    BY <1>1, <1>2, FlatsPlaces
  <2> QED BY <1>1, <2>1 DEF Placed
<1>4. row \in Seq(S)
  <2>1. g[n] \in Seq(S)
    BY <1>1, <1>2, FlatsSequences DEF Rows
  <2> QED BY <1>1, <2>1
<1>5. Len(seqs[i]) \in Nat
  BY LenProperties DEF Rows
<1> HIDE DEF row
<1>6. Len(row) \in Nat /\ DOMAIN row = 1..Len(row)
  BY <1>4, LenProperties
<1>7. p \in DOMAIN row
  BY <1>3, <1>5, <1>6
<1> QED BY <1>3, <1>7 DEF row

\* A page of a file is as many places further on, in the pages of all, as there are
\* pages of the files before.
LEMMA PageInTheRow ==
  ASSUME NEW ds, Documents(ds), NEW i \in DOMAIN ds, NEW k \in DOMAIN ds[i].pages
  PROVE  /\ PagesBefore(ds, i) \in Nat /\ k \in Nat
         /\ k + PagesBefore(ds, i) \in DOMAIN PagesOf(ds)
         /\ PagesOf(ds)[k + PagesBefore(ds, i)] = ds[i].pages[k]
<1> DEFINE n == Len(ds)
           seqs == PageList(ds)
           S == UNION {Range(ds[j].pages) : j \in DOMAIN ds}
           few == [j \in 1..(i - 1) |-> ds[j].pages]
<1>1. n \in Nat \ {0} /\ DOMAIN ds = 1..n /\ i \in 1..n
  BY DEF Documents
<1>2. DOMAIN seqs = 1..n /\ Len(seqs) = n /\ \A j \in 1..n : seqs[j] = ds[j].pages
  BY <1>1 DEF PageList
<1>3. ASSUME NEW j \in 1..n PROVE ds[j].pages \in Seq(S)
  <2>1. ds[j].pages \in Seq(Range(ds[j].pages))
    BY <1>1 DEF Documents, IsDocument, ArePages, IsSequence
  <2>2. Range(ds[j].pages) \subseteq S
    BY <1>1
  <2> QED BY <2>1, <2>2, SeqMonotonic
<1>4. Rows(seqs, n, S)
  BY <1>2, <1>3 DEF Rows
<1>5. DOMAIN few = 1..(i - 1) /\ Len(few) = i - 1 /\ \A j \in 1..(i - 1) : few[j] = seqs[j]
  <2>1. i - 1 \in Nat /\ 1..(i - 1) \subseteq 1..n
    BY <1>1
  <2> QED BY <1>2, <2>1
<1>6. k \in 1..Len(seqs[i]) /\ k \in Nat
  BY <1>1, <1>2, <1>3, LenProperties
<1>7. PagesBefore(ds, i) = Len(FlattenSeq(few))
  BY DEF PagesBefore
<1>8. PagesOf(ds) = FlattenSeq(seqs)
  BY DEF PagesOf
<1> HIDE DEF n, seqs, S, few
<1>9. PICK g : Flats(g, seqs, n) /\ FlattenSeq(seqs) = g[n]
  BY <1>1, <1>2, FlattenIs
<1>10. PagesBefore(ds, i) = Before(g, i)
  <2>1. CASE i = 1
    <3>1. FlattenSeq(few) = few
      BY <1>5, <2>1 DEF FlattenSeq
    <3> QED BY <1>5, <1>7, <2>1, <3>1 DEF Before
  <2>2. CASE i # 1
    <3>1. i - 1 \in Nat \ {0} /\ i - 1 \in 1..n
      BY <1>1, <2>2
    <3>2. PICK h : Flats(h, few, i - 1) /\ FlattenSeq(few) = h[i - 1]
      BY <1>5, <3>1, FlattenIs
    <3> DEFINE l == i - 1
    <3>3. l \in 1..n /\ Flats(h, few, l) /\ Alike(few, seqs, l)
      BY <1>5, <3>1, <3>2 DEF Alike
    <3> HIDE DEF l
    <3>4. h[l] = g[l]
      BY <1>1, <1>9, <3>3, FlatsPrefix
    <3> QED BY <1>7, <2>2, <3>2, <3>4 DEF Before, l
  <2> QED BY <2>1, <2>2
<1> DEFINE B == Before(g, i)
           row == g[n]
<1>11. n \in i..n /\ n \in 1..n
  BY <1>1
<1>12. B \in Nat /\ B + Len(seqs[i]) <= Len(row) /\ row[B + k] = seqs[i][k]
  <2>1. B \in Nat /\ Placed(g, seqs, i, n)
    BY <1>1, <1>4, <1>9, <1>11, FlatsPlaces
  <2> QED BY <1>6, <2>1 DEF Placed
<1>13. row \in Seq(S)
  BY <1>1, <1>4, <1>9, <1>11, FlatsSequences DEF Rows
<1>14. Len(seqs[i]) \in Nat
  BY <1>1, <1>4, LenProperties DEF Rows
<1> HIDE DEF row, B
<1>15. Len(row) \in Nat /\ DOMAIN row = 1..Len(row)
  BY <1>13, LenProperties
<1>16. k + B \in DOMAIN row /\ k + B = B + k
  BY <1>6, <1>12, <1>14, <1>15
<1>17. PagesOf(ds) = row /\ PagesBefore(ds, i) = B
  BY <1>8, <1>9, <1>10 DEF row, B
<1> QED BY <1>1, <1>2, <1>6, <1>12, <1>16, <1>17

-----------------------------------------------------------------------------
(* The bookmarks of a merge.                                               *)

\* The bookmark that is read of a destination pdfbro wrote has its page.
LEMMA BookmarkRead ==
  ASSUME NEW d, IsDocument(d), NEW b \in BookmarksOf(d), NEW k \in DOMAIN d.outline,
         d.outline[k].num \in DOMAIN d.pages
  PROVE  b[k] = [title |-> d.outline[k].title, level |-> d.outline[k].level, page |-> d.outline[k].num]
<1>1. PICK page \in [DOMAIN d.outline -> {1} \cup DOMAIN d.pages] :
        /\ \A i \in DOMAIN d.outline : page[i] \in PagesRead(d, d.outline[i].num)
        /\ b = [i \in DOMAIN d.outline |->
                  [title |-> d.outline[i].title, level |-> d.outline[i].level, page |-> page[i]]]
  BY DEF BookmarksOf
<1> DEFINE num == d.outline[k].num
<1>2. num # 0
  <2>1. IsSequence(d.pages)
    BY DEF IsDocument, ArePages
  <2>2. DOMAIN d.pages = 1..Len(d.pages) /\ Len(d.pages) \in Nat
    BY <2>1, SequenceFacts
  <2>3. num \in DOMAIN d.pages
    OBVIOUS
  <2> HIDE DEF num
  <2> QED BY <2>2, <2>3
<1>3. page[k] = num
  BY <1>1, <1>2 DEF PagesRead
<1> QED BY <1>1, <1>3

\* A top-level bookmark of a file, in the row of all the bookmarks.
Moved(lists, ds, i, k) == [lists[i][k] EXCEPT !.page = @ + PagesBefore(ds, i)]

LEMMA ReindexedHas ==
  ASSUME NEW lists, NEW ds, Documents(ds), AreLists(lists, ds), NEW i \in DOMAIN ds,
         NEW k \in DOMAIN lists[i], lists[i][k].level = 1
  PROVE  \E p \in DOMAIN Reindexed(lists, ds) : Reindexed(lists, ds)[p] = Moved(lists, ds, i, k)
<1> DEFINE moved(j) == [q \in DOMAIN lists[j] |->
                          IF lists[j][q].level = 1 THEN [lists[j][q] EXCEPT !.page = @ + PagesBefore(ds, j)]
                          ELSE lists[j][q]]
           seqs == [j \in DOMAIN ds |-> moved(j)]
           S == UNION {Range(seqs[j]) : j \in DOMAIN seqs}
           n == Len(ds)
<1>1. Reindexed(lists, ds) = FlattenSeq(seqs)
  BY DEF Reindexed
<1>2. ASSUME NEW j \in DOMAIN ds PROVE IsSequence(moved(j))
  <2>1. DOMAIN moved(j) = DOMAIN lists[j] /\ moved(j) = [q \in DOMAIN moved(j) |-> moved(j)[q]]
    OBVIOUS
  <2>2. IsSequence(lists[j])
    BY DEF AreLists
  <2> HIDE DEF moved
  <2> QED BY <2>1, <2>2, SequenceChanged
<1>3. DOMAIN moved(i) = DOMAIN lists[i] /\ moved(i)[k] = Moved(lists, ds, i, k)
  BY DEF Moved
<1> HIDE DEF moved
<1>4. n \in Nat \ {0} /\ DOMAIN ds = 1..n
  BY DEF Documents
<1>5. DOMAIN seqs = 1..n /\ Len(seqs) = n /\ i \in 1..n /\ \A j \in 1..n : seqs[j] = moved(j) /\ IsSequence(seqs[j])
  BY <1>2, <1>4
<1> HIDE DEF n
<1>6. Rows(seqs, n, S)
  <2>1. ASSUME NEW j \in 1..n PROVE seqs[j] \in Seq(S)
    <3> DEFINE s == seqs[j]
    <3>1. s \in Seq(Range(s))
      BY <1>5 DEF IsSequence
    <3>2. Range(s) \subseteq S
      BY <1>5
    <3> HIDE DEF s, S
    <3>3. s \in Seq(S)
      BY <3>1, <3>2, SeqMonotonic
    <3> QED BY <3>3 DEF s
  <2> QED BY <1>5, <2>1 DEF Rows
<1> HIDE DEF S, seqs
<1>7. k \in 1..Len(seqs[i])
  BY <1>3, <1>5, SequenceFacts
<1>8. \E p \in DOMAIN FlattenSeq(seqs) : FlattenSeq(seqs)[p] = seqs[i][k]
  <2>1. n \in Nat \ {0} /\ Rows(seqs, n, S) /\ Len(seqs) = n /\ i \in 1..n /\ k \in 1..Len(seqs[i])
    BY <1>4, <1>5, <1>6, <1>7
  <2> QED BY <2>1, InTheRow
<1> QED BY <1>1, <1>3, <1>5, <1>8

\* The document that is merged with the bookmarks of all the files, when neither
\* marks nor passwords are asked for.
LEMMA MergedWithBookmarks ==
  ASSUME NEW f, f.auto, f.marks = <<>>, f.user = Absent, f.owner = Absent, NEW ds, Documents(ds),
         NEW o \in MergeFiles(f, ds), Succeeded(o)
  PROVE  \E lists, x, r :
           /\ AreLists(lists, ds) /\ \A i \in DOMAIN ds : ~Locked(ds[i]) => lists[i] \in BookmarksOf(ds[i])
           /\ o.docs = <<<<r>>>> /\ IsDocument(x) /\ Same(x.pages, PagesOf(ds))
           /\ Reindexed(lists, ds) # <<>> => r = WithBookmarks(x, Reindexed(lists, ds))
<1>1. PICK b \in Then(BookmarkLists(f, ds), LAMBDA lists : MergeWith(f, ds, lists)) :
        Succeeded(b) /\ o = Done(<<b.docs>>)
  BY WholeSucceeds DEF MergeFiles
<1>2. PICK l \in BookmarkLists(f, ds) : Succeeded(l) /\ b \in MergeWith(f, ds, l.docs)
  BY <1>1 DEF Then
<1> DEFINE lists == l.docs
<1>3. AreLists(lists, ds) /\ \A i \in DOMAIN ds : ~Locked(ds[i]) => lists[i] \in BookmarksOf(ds[i])
  BY <1>2, BookmarkListsMake DEF Documents
<1> HIDE DEF lists
<1>4. PICK m \in Merge(ds) :
        /\ Succeeded(m)
        /\ b \in Bind(MetadataField(m.docs[1], f), LAMBDA z :
                   IF f.bad = "bookmarks" THEN {Fail("InvalidField")}
                   ELSE Bind(BookmarksField(z, f, lists, ds), LAMBDA y : ApplyEncryption(y, f)))
  BY <1>1, <1>2 DEF MergeWith, Bind, lists
<1>5. PICK a \in MetadataField(m.docs[1], f) :
        /\ Succeeded(a)
        /\ b \in IF f.bad = "bookmarks" THEN {Fail("InvalidField")}
                 ELSE Bind(BookmarksField(a.docs[1], f, lists, ds), LAMBDA y : ApplyEncryption(y, f))
  BY <1>1, <1>4 DEF Bind
<1>6. b \in Bind(BookmarksField(a.docs[1], f, lists, ds), LAMBDA y : ApplyEncryption(y, f))
  BY <1>1, <1>5, Outcomes
<1>7. PICK c \in BookmarksField(a.docs[1], f, lists, ds) :
        Succeeded(c) /\ b \in ApplyEncryption(c.docs[1], f)
  BY <1>1, <1>6 DEF Bind
<1>8. IsDocument(m.docs[1]) /\ Same(m.docs[1].pages, PagesOf(ds))
  <2>1. \E r : m = Done(<<r>>) /\ IsDocument(r) /\ Same(r.pages, PagesOf(ds))
    BY <1>4, MergeMakes DEF Documents
  <2> QED BY <2>1, Outcomes
<1>9. PICK x : a.docs[1] = x /\ IsDocument(x) /\ Same(x.pages, PagesOf(ds))
  <2> DEFINE z == m.docs[1]
  <2>1. a \in MetadataField(z, f) /\ Succeeded(a) /\ IsDocument(z) /\ Same(z.pages, PagesOf(ds))
    BY <1>5, <1>8
  <2> HIDE DEF z
  <2>2. PICK x : a = Done(<<x>>) /\ IsDocument(x) /\ x.pages = z.pages /\ TitleAsked(f, x)
    BY <2>1, MetadataFieldSucceeds
  <2> QED BY <2>1, <2>2, Outcomes
<1> DEFINE R == Reindexed(lists, ds)
<1>10. R # <<>> => c \in WriteBookmarks(x, R)
  BY <1>7, <1>9 DEF BookmarksField
<1>11. R # <<>> => c.docs[1] = WithBookmarks(x, R)
  <2> HIDE DEF R
  <2> QED BY <1>7, <1>10, WriteBookmarksSucceeds, Outcomes
<1>12. b = Done(<<c.docs[1]>>)
  BY <1>7 DEF ApplyEncryption
<1>13. o.docs = <<<<c.docs[1]>>>>
  BY <1>1, <1>12, Outcomes
<1> HIDE DEF R
<1>14. \E r : o.docs = <<<<r>>>> /\ (R # <<>> => r = WithBookmarks(x, R))
  BY <1>11, <1>13
<1> QED BY <1>3, <1>9, <1>14 DEF R

\* So the bookmark of page n of a file is told of the result with the page at which
\* that page is now.
ReadBack(entry, d, before, result) ==
  (entry.level \in {1} /\ entry.num \in DOMAIN d.pages) =>
    \A told \in BookmarksOf(result) : \E m \in DOMAIN told :
      /\ told[m] = [title |-> entry.title, level |-> entry.level, page |-> entry.num + before]
      /\ result.pages[told[m].page].src = d.pages[entry.num].src

LEMMA BookmarkKept ==
  ASSUME NEW lists, NEW ds, NEW x, NEW r, Documents(ds), AreLists(lists, ds),
         IsDocument(x), Same(x.pages, PagesOf(ds)),
         Reindexed(lists, ds) # <<>> => r = WithBookmarks(x, Reindexed(lists, ds)),
         NEW i \in DOMAIN ds, lists[i] \in BookmarksOf(ds[i]), NEW k \in DOMAIN ds[i].outline
  PROVE  ReadBack(ds[i].outline[k], ds[i], PagesBefore(ds, i), r)
<1> DEFINE d == ds[i]
           entry == d.outline[k]
           R == Reindexed(lists, ds)
           B == PagesBefore(ds, i)
<1> SUFFICES ASSUME entry.level = 1, entry.num \in DOMAIN d.pages, NEW told \in BookmarksOf(r)
             PROVE  \E m \in DOMAIN told :
                      /\ told[m] = [title |-> entry.title, level |-> entry.level, page |-> entry.num + B]
                      /\ r.pages[told[m].page].src = d.pages[entry.num].src
  BY DEF ReadBack
<1>1. IsDocument(d)
  BY DEF Documents
<1>2. lists[i][k] = [title |-> entry.title, level |-> entry.level, page |-> entry.num]
      /\ k \in DOMAIN lists[i]
  BY <1>1, BookmarkRead, BookmarksOfFacts
<1>3. PICK p \in DOMAIN R : R[p] = Moved(lists, ds, i, k)
  BY <1>2, ReindexedHas
<1>4. R[p] = [title |-> entry.title, level |-> entry.level, page |-> entry.num + B]
  BY <1>2, <1>3 DEF Moved
<1>5. entry.num + B \in DOMAIN PagesOf(ds) /\ PagesOf(ds)[entry.num + B] = d.pages[entry.num]
  BY PageInTheRow
<1>6. R # <<>>
  BY <1>3
<1>7. Len(ds) \in Nat \ {0} /\ DOMAIN ds = 1..Len(ds)
  BY DEF Documents
<1>8. IsSequence(R)
  BY <1>7, ReindexedFacts
<1> HIDE DEF R, B
<1>9. r = WithBookmarks(x, R)
  BY <1>6 DEF R
<1>10. IsDocument(r) /\ r.pages = x.pages
  BY <1>8, <1>9, WithBookmarksFacts
<1> DEFINE new == [q \in DOMAIN R |-> [title |-> R[q].title, level |-> R[q].level, num |-> R[q].page]]
<1>11. r = [x EXCEPT !.outline = new]
  BY <1>9 DEF WithBookmarks
<1>12. new[p] = [title |-> entry.title, level |-> entry.level, num |-> entry.num + B] /\ p \in DOMAIN new
  BY <1>4
<1> HIDE DEF new
<1>13. r.outline = new
  BY <1>11 DEF IsDocument
<1> DEFINE n == entry.num + B
           all == PagesOf(ds)
<1>14. SamePages(x.pages, all)
  BY PagesOfArePages, SameAreSamePages
<1>15. n \in DOMAIN all /\ all[n] = d.pages[entry.num]
  BY <1>5
<1> HIDE DEF n, all, entry, d
<1>16. n \in DOMAIN x.pages /\ x.pages[n].src = all[n].src
  <2>1. Own(x.pages) = Own(all)
    BY <1>14 DEF SamePages
  <2>2. DOMAIN x.pages = DOMAIN all
    BY <2>1 DEF Own
  <2>3. <<x.pages[n].src, x.pages[n].turn, x.pages[n].marks>> = <<all[n].src, all[n].turn, all[n].marks>>
    <3>1. Own(x.pages)[n] = Own(all)[n]
      BY <2>1
    <3> QED BY <1>15, <2>2, <3>1 DEF Own
  <2> QED BY <1>15, <2>2, <2>3
<1>17. p \in DOMAIN r.outline /\ r.outline[p].title = entry.title /\ r.outline[p].level = entry.level
       /\ r.outline[p].num = n
  BY <1>12, <1>13 DEF n
<1>18. r.outline[p].num \in DOMAIN r.pages
  BY <1>10, <1>16, <1>17
<1>19. told[p] = [title |-> r.outline[p].title, level |-> r.outline[p].level, page |-> r.outline[p].num]
  BY <1>10, <1>17, <1>18, BookmarkRead
<1>20. DOMAIN told = DOMAIN r.outline
  BY <1>10, BookmarksOfFacts
<1>21. told[p] = [title |-> entry.title, level |-> entry.level, page |-> n]
  BY <1>17, <1>19
<1>22. r.pages[told[p].page].src = d.pages[entry.num].src
  BY <1>10, <1>15, <1>16, <1>21
<1> QED BY <1>17, <1>20, <1>21, <1>22 DEF n

\* A merge with autoIndexBookmarks keeps account of the top-level bookmarks: for
\* every number of unlocked inputs, each entry that bookmarks/read tells of one of
\* them, by a destination that is the number of a page, it tells of the result, with
\* the page at which that page is now, past the pages of the files before it.  These
\* are numbers pdfbro writes and reads; the objects they name need not be the pages.
THEOREM TopBookmarksTold == Spec => []TopBookmarksReadBack
<1>1. SessionInv => TopBookmarksReadBack
  <2> DEFINE f == reply.form
             ds == Uploaded
  <2> SUFFICES ASSUME SessionInv, Answered, reply.by = "handler", f.route = "merge", f.auto, f.marks = <<>>,
                      f.user = Absent, f.owner = Absent, \A i \in DOMAIN ds : ~Locked(ds[i])
               PROVE  \A i \in DOMAIN ds : \A k \in DOMAIN ds[i].outline :
                        ReadBack(ds[i].outline[k], ds[i], PagesBefore(ds, i), reply.docs[1][1])
    BY DEF TopBookmarksReadBack, BookmarksReadBack, ReadBack
  <2>1. Documents(ds)
    BY AnswersKeepRules
  <2>2. ds = Received(reply.parts)
    BY DEF Uploaded
  <2>3. PICK o \in Possible(reply.by, f, reply.parts) : Succeeded(o) /\ o.docs = reply.docs
    BY DEF SessionInv, ReplyKept, CameFrom
  <2>4. o \in MergeFiles(f, ds)
    BY <2>2, <2>3 DEF Possible, Convert, Screenshots, Previews
  <2> HIDE DEF f, ds
  <2>5. PICK lists, x, r :
          /\ AreLists(lists, ds) /\ \A i \in DOMAIN ds : ~Locked(ds[i]) => lists[i] \in BookmarksOf(ds[i])
          /\ o.docs = <<<<r>>>> /\ IsDocument(x) /\ Same(x.pages, PagesOf(ds))
          /\ Reindexed(lists, ds) # <<>> => r = WithBookmarks(x, Reindexed(lists, ds))
    BY <2>1, <2>3, <2>4, MergedWithBookmarks
  <2>6. ASSUME NEW i \in DOMAIN ds, NEW k \in DOMAIN ds[i].outline
        PROVE  ReadBack(ds[i].outline[k], ds[i], PagesBefore(ds, i), r)
    <3>1. lists[i] \in BookmarksOf(ds[i])
      BY <2>5
    <3> QED BY <2>1, <2>5, <3>1, BookmarkKept
  <2>7. reply.docs[1][1] = r
    BY <2>3, <2>5
  <2> QED BY <2>6, <2>7
<1> QED BY <1>1, SessionInductive, PTL

-----------------------------------------------------------------------------
(* The download of a Chrome.                                               *)

Stages == {"idle", "manifest", "checking", "staging", "sweeping", "making",
           "getting", "writing", "opening", "unpacking", "moving",
           "launching", "up", "failed"}

\* An archive that is being written lies in the staging directory, and a client
\* that launches has a try left.
Typing ==
  /\ FetchTypeOK
  /\ archivers # {} => holds["staging"] \cap {"archive", "torn"} # {}
  /\ \A f \in Clients : stage[f] = "launching" => tries[f] < LaunchAttempts

LEMMA TypingInit == FetchInit => Typing
<1> SUFFICES ASSUME FetchInit PROVE Typing OBVIOUS
<1>1. installed \in BOOLEAN /\ overlapped \in BOOLEAN BY DEF FetchInit
<1>2. holds \in [Dirs -> SUBSET Files] /\ \A d \in Dirs : holds[d] = {} BY DEF FetchInit
<1>3. /\ tries \in [Clients -> 0..LaunchAttempts] /\ todo \in [Clients -> SUBSET Distribution]
      /\ \A f \in Clients : stage[f] = "idle"
  BY LaunchAttemptsAssumption DEF FetchInit
<1> QED BY <1>1, <1>2, <1>3 DEF FetchInit, Typing, FetchTypeOK

LEMMA TypingStep ==
  ASSUME Typing, NEW f \in Clients,
         \/ ChromePath(f) \/ Ensure(f) \/ Download(f)
         \/ Launches(f) \/ LaunchFails(f) \/ Leaves(f)
  PROVE  Typing'
<1> USE LaunchAttemptsAssumption DEF Typing, FetchTypeOK, Goes, Given, disk, Dirs, Distribution, Files
<1>1. CASE ChromePath(f) BY <1>1 DEF ChromePath
<1>2. CASE Ensure(f)
  <2>1. overlapped' \in BOOLEAN BY <1>2 DEF Ensure
  <2>2. \/ \E from \in {"system", "cache"} : Given(f, from)
        \/ \E to \in {"failed", "manifest"} : Goes(f, to) /\ UNCHANGED <<source, tries>>
    BY <1>2 DEF Ensure
  <2>3. UNCHANGED <<installed, disk, todo>> BY <1>2 DEF Ensure
  <2>4. stage[f] = "idle" BY <1>2 DEF Ensure
  <2> QED BY <2>1, <2>2, <2>3, <2>4
<1>3. CASE Launches(f) BY <1>3 DEF Launches
<1>4. CASE LaunchFails(f) BY <1>4 DEF LaunchFails
<1>5. CASE Leaves(f) BY <1>5 DEF Leaves
<1>6. CASE Manifest(f) BY <1>6 DEF Manifest
<1>7. CASE CheckDestination(f) BY <1>7 DEF CheckDestination
<1>8. CASE CheckStaging(f) BY <1>8 DEF CheckStaging
<1>9. CASE Sweep(f) BY <1>9 DEF Sweep
<1>10. CASE Swept(f) BY <1>10 DEF Swept
<1>11. CASE Make(f) BY <1>11 DEF Make
<1>12. CASE Get(f) BY <1>12 DEF Get
<1>13. CASE Write(f) BY <1>13 DEF Write
<1>14. CASE OpenArchive(f) BY <1>14 DEF OpenArchive
<1>15. CASE Unpack(f) BY <1>15 DEF Unpack
<1>16. CASE Unpacked(f) BY <1>16 DEF Unpacked
<1>17. CASE Move(f) BY <1>17 DEF Move
<1>18. CASE Fails(f) BY <1>18 DEF Fails, Downloading
<1> QED
  BY <1>1, <1>2, <1>3, <1>4, <1>5, <1>6, <1>7, <1>8, <1>9, <1>10, <1>11, <1>12,
     <1>13, <1>14, <1>15, <1>16, <1>17, <1>18 DEF Download
LEMMA TypingInvariant == FetchSpec => []Typing
<1>1. Typing /\ UNCHANGED fetchVars => Typing'
  BY DEF Typing, FetchTypeOK, fetchVars, disk
<1>2. Typing /\ [FetchNext]_fetchVars => Typing'
  BY <1>1, TypingStep DEF FetchNext
<1> QED BY <1>2, TypingInit, PTL DEF FetchSpec

\* Every variable keeps its type, only a client that sweeps removes, only one that
\* writes has an archive open, and a directory with a file in it is there.
THEOREM FetchTypeCorrect == FetchSpec => []FetchTypeOK
BY TypingInvariant, PTL DEF Typing

-----------------------------------------------------------------------------
(* Without overlap: the one client that downloads has the staging directory *)
(* to itself, and the destination is not there until it moves its own.      *)

Staged == {"staging", "sweeping", "making", "getting", "writing", "opening",
           "unpacking", "moving"}

Alone ==
  /\ \A f, g \in Clients : Downloading(f) /\ Downloading(g) => f = g
  /\ AtomicDownload
  /\ \A f \in Clients : stage[f] \in Staged => "dest" \notin dirs
  /\ \A f \in Clients : hand[f] \in {"staging", "none"}
  /\ \A f \in Clients : stage[f] = "unpacking" => Distribution \ todo[f] \subseteq holds["staging"]
  /\ \A f \in Clients : stage[f] = "moving" => Distribution \subseteq holds["staging"]
  /\ \A f \in Clients : source[f] = "cache" => "dest" \in dirs

UnlessOverlapped == ~overlapped => Alone

LEMMA AloneInit == FetchInit => UnlessOverlapped
BY DEF FetchInit, UnlessOverlapped, Alone, Downloading, AtomicDownload, Staged

LEMMA AloneStep ==
  ASSUME Typing, UnlessOverlapped, NEW f \in Clients,
         \/ ChromePath(f) \/ Ensure(f) \/ Download(f)
         \/ Launches(f) \/ LaunchFails(f) \/ Leaves(f)
  PROVE  UnlessOverlapped'
<1> SUFFICES ASSUME ~overlapped' PROVE Alone' BY DEF UnlessOverlapped
<1>o. ~overlapped /\ Alone
  <2>1. overlapped => overlapped'
    <3>1. CASE Ensure(f) BY <3>1 DEF Ensure
    <3>2. CASE Download(f)
      BY <3>2 DEF Download, Manifest, CheckDestination, CheckStaging, Sweep, Swept, Make, Get,
         Write, OpenArchive, Unpack, Unpacked, Move, Fails
    <3> QED BY <3>1, <3>2 DEF ChromePath, Launches, LaunchFails, Leaves
  <2> QED BY <2>1 DEF UnlessOverlapped
<1> USE <1>o DEF Typing, FetchTypeOK, Alone, AtomicDownload, Downloading, Staged,
                 Goes, Given, disk, Dirs, Distribution
<1>1. CASE ChromePath(f) BY <1>1 DEF ChromePath
<1>2. CASE Ensure(f)
  <2>1. UNCHANGED <<installed, disk, todo>> /\ stage[f] = "idle" BY <1>2 DEF Ensure
  <2>2. CASE installed /\ Given(f, "system") BY <2>1, <2>2
  <2>3. CASE Cached /\ Given(f, "cache") BY <2>1, <2>3 DEF Cached
  <2>4. CASE Goes(f, "failed") /\ UNCHANGED <<source, tries>> BY <2>1, <2>4
  <2>5. CASE /\ Goes(f, "manifest") /\ UNCHANGED <<source, tries>>
             /\ overlapped' = (overlapped \/ \E g \in Clients : Downloading(g))
    <3>1. \A g \in Clients : ~Downloading(g) BY <2>5
    <3> QED BY <2>1, <2>5, <3>1
  <2> QED BY <1>2, <2>2, <2>3, <2>4, <2>5 DEF Ensure
<1>3. CASE Launches(f) BY <1>3 DEF Launches
<1>4. CASE LaunchFails(f) BY <1>4 DEF LaunchFails
<1>5. CASE Leaves(f) BY <1>5 DEF Leaves
<1>6. CASE Manifest(f) BY <1>6 DEF Manifest
<1>7. CASE CheckDestination(f) BY <1>7 DEF CheckDestination
<1>8. CASE CheckStaging(f) BY <1>8 DEF CheckStaging
<1>9. CASE Sweep(f) BY <1>9 DEF Sweep
<1>10. CASE Swept(f) BY <1>10 DEF Swept
<1>11. CASE Make(f) BY <1>11 DEF Make
<1>12. CASE Get(f) BY <1>12 DEF Get
<1>13. CASE Write(f) BY <1>13 DEF Write
<1>14. CASE OpenArchive(f) BY <1>14 DEF OpenArchive
<1>15. CASE Unpack(f) BY <1>15 DEF Unpack
<1>16. CASE Unpacked(f) BY <1>16 DEF Unpacked
<1>17. CASE Move(f) BY <1>17 DEF Move
<1>18. CASE Fails(f) BY <1>18 DEF Fails
<1> QED
  BY <1>1, <1>2, <1>3, <1>4, <1>5, <1>6, <1>7, <1>8, <1>9, <1>10, <1>11, <1>12,
     <1>13, <1>14, <1>15, <1>16, <1>17, <1>18 DEF Download

LEMMA AloneInvariant == FetchSpec => []UnlessOverlapped
<1>1. UnlessOverlapped /\ UNCHANGED fetchVars => UnlessOverlapped'
  BY DEF UnlessOverlapped, Alone, Downloading, AtomicDownload, fetchVars, disk
<1>2. Typing /\ UnlessOverlapped /\ [FetchNext]_fetchVars => UnlessOverlapped'
  BY <1>1, AloneStep DEF FetchNext
<1> QED BY <1>2, AloneInit, TypingInvariant, PTL DEF FetchSpec

\* However many clients come one after the other, and wherever they die, the
\* destination is there with all its files or not at all.
THEOREM AloneAtomic == FetchSpec => []AloneIsAtomic
<1>1. UnlessOverlapped => AloneIsAtomic BY DEF UnlessOverlapped, Alone, AloneIsAtomic
<1> QED BY <1>1, AloneInvariant, PTL

\* A path into the cache leads to the executable as long as downloads do not
\* overlap.
THEOREM PathUsable == FetchSpec => []PathIsUsable
<1>1. UnlessOverlapped => PathIsUsable
  BY DEF UnlessOverlapped, Alone, AtomicDownload, PathIsUsable, Distribution
<1> QED BY <1>1, AloneInvariant, PTL
=============================================================================
