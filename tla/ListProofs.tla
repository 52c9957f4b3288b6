---------------------------- MODULE ListProofs -----------------------------
(* The shelf, the list of chats, the conversation and the search of users, *)
(* and then all the pages together.                                        *)
EXTENDS FormProofs

-----------------------------------------------------------------------------
(* The shelf. Every list that may be shown, or put back by an answer, has  *)
(* each product once and has one where the slide begins.                   *)

(* What a click captured held no product twice and began before its last   *)
(* product; nothing is fetched before the products of the mount are there. *)
CallIsSound(call) ==
  /\ IsInjective(call.captured) /\ IsInjective(call.answer)
  /\ call.start + 1 < Len(call.captured) /\ call.page >= 1
ShelfInv ==
  /\ ShelfTypeOK /\ clicks <= Len(fetches)
  /\ IsInjective(viewed) /\ NoTwins
  /\ \A n \in DOMAIN fetches : CallIsSound(fetches[n])
  /\ loading = "sent" => products = <<>> /\ start_pos = 0 /\ fetches = <<>>
  /\ SlideHasProducts
-----------------------------------------------------------------------------
(* Sequences without twins. *)

LEMMA InjectiveSubSeq ==
  ASSUME NEW S, NEW s \in Seq(S), IsInjective(s), NEW m \in Nat \ {0}, NEW n \in Nat, n <= Len(s)
  PROVE  /\ SubSeq(s, m, n) \in Seq(S)
         /\ Len(SubSeq(s, m, n)) = IF m <= n THEN n - m + 1 ELSE 0
         /\ IsInjective(SubSeq(s, m, n))
<1> DEFINE t == SubSeq(s, m, n)
<1>1. Len(s) \in Nat /\ DOMAIN s = 1..Len(s)
  OBVIOUS
<1>2. \A i \in m..n : i \in 1..Len(s)
  BY <1>1
<1>3. /\ t \in Seq(S)
      /\ Len(t) = IF m <= n THEN n - m + 1 ELSE 0
      /\ \A i \in 1..n - m + 1 : t[i] = s[m + i - 1]
  BY <1>2, SubSeqProperties
<1> HIDE DEF t
<1>4. ASSUME NEW i \in 1..Len(t), NEW j \in 1..Len(t), t[i] = t[j]
      PROVE  i = j
  <2>1. m <= n /\ i \in 1..n - m + 1 /\ j \in 1..n - m + 1
    BY <1>3
  <2>2. m + i - 1 \in m..n /\ m + j - 1 \in m..n
    BY <2>1
  <2>3. s[m + i - 1] = s[m + j - 1]
    BY <1>3, <1>4, <2>1
  <2>4. m + i - 1 = m + j - 1
    BY <1>1, <1>2, <2>2, <2>3 DEF IsInjective
  <2> QED  BY <2>1, <2>4
<1>5. DOMAIN t = 1..Len(t)
  BY <1>3
<1> QED  BY <1>3, <1>4, <1>5 DEF IsInjective, t

LEMMA InjectiveConcat ==
  ASSUME NEW S, NEW s \in Seq(S), NEW t \in Seq(S), IsInjective(s), IsInjective(t),
         \A i \in 1..Len(s), j \in 1..Len(t) : s[i] # t[j]
  PROVE  s \o t \in Seq(S) /\ Len(s \o t) = Len(s) + Len(t) /\ IsInjective(s \o t)
<1> DEFINE u == s \o t
<1>1. /\ Len(s) \in Nat /\ Len(t) \in Nat /\ DOMAIN s = 1..Len(s) /\ DOMAIN t = 1..Len(t)
  OBVIOUS
<1>2. /\ u \in Seq(S) /\ Len(u) = Len(s) + Len(t)
      /\ \A i \in 1..Len(s) + Len(t) : u[i] = IF i <= Len(s) THEN s[i] ELSE t[i - Len(s)]
  BY ConcatProperties
<1> HIDE DEF u
<1>3. ASSUME NEW i \in 1..Len(u), NEW j \in 1..Len(u), u[i] = u[j]
      PROVE  i = j
  <2>1. /\ i <= Len(s) => i \in 1..Len(s)
        /\ j <= Len(s) => j \in 1..Len(s)
        /\ ~(i <= Len(s)) => i - Len(s) \in 1..Len(t)
        /\ ~(j <= Len(s)) => j - Len(s) \in 1..Len(t)
        /\ i \in Int /\ j \in Int
    BY <1>1, <1>2
  <2>2. /\ u[i] = (IF i <= Len(s) THEN s[i] ELSE t[i - Len(s)])
        /\ u[j] = (IF j <= Len(s) THEN s[j] ELSE t[j - Len(s)])
    BY <1>2
  <2>3. CASE i <= Len(s) /\ j <= Len(s)
    BY <1>1, <1>3, <2>1, <2>2, <2>3 DEF IsInjective
  <2>4. CASE ~(i <= Len(s)) /\ ~(j <= Len(s))
    <3>1. i - Len(s) = j - Len(s)
      BY <1>1, <1>3, <2>1, <2>2, <2>4 DEF IsInjective
    <3> QED  BY <1>1, <2>1, <3>1
  <2>5. CASE i <= Len(s) /\ ~(j <= Len(s))
    BY <1>3, <2>1, <2>2, <2>5
  <2>6. CASE ~(i <= Len(s)) /\ j <= Len(s)
    BY <1>3, <2>1, <2>2, <2>6
  <2> QED  BY <2>3, <2>4, <2>5, <2>6
<1>4. DOMAIN u = 1..Len(u)
  BY <1>2
<1> QED  BY <1>2, <1>3, <1>4 DEF IsInjective, u

LEMMA SomeAreSequences ==
  /\ \A a \in Some : a \in Seq(Shelved) /\ Len(a) <= PerPage
  /\ \A a \in Seq(Shelved) : Len(a) <= PerPage => a \in Some
<1>1. PerPage \in Nat
  BY ShelfAssumption
<1>2. ASSUME NEW a \in Seq(Shelved), Len(a) <= PerPage
      PROVE  a \in Some
  <2>1. Len(a) \in 0..PerPage /\ a \in [1..Len(a) -> Shelved]
    BY <1>1, <1>2
  <2> QED  BY <2>1 DEF Some
<1>3. ASSUME NEW a \in Some
      PROVE  a \in Seq(Shelved) /\ Len(a) <= PerPage
  <2>1. PICK n \in 0..PerPage : a \in [1..n -> Shelved]
    BY DEF Some
  <2>2. Len(a) = n /\ a \in Seq(Shelved)
    BY <1>1, <2>1
  <2> QED  BY <1>1, <2>1, <2>2
<1> QED  BY <1>2, <1>3

LEMMA NothingAnswered == <<>> \in Some /\ <<>> \in Seq(Shelved) /\ IsInjective(<<>>)
<1>1. <<>> \in Seq(Shelved) /\ Len(<<>>) = 0 /\ 0 <= PerPage /\ DOMAIN <<>> = {}
  BY ShelfAssumption
<1>2. IsInjective(<<>>)
  BY ONLY <1>1 DEF IsInjective
<1>3. <<>> \in Some
  BY <1>1, SomeAreSequences
<1> QED  BY <1>1, <1>2, <1>3

(* A page of the server is no longer than a page. *)
LEMMA PageOfViewed ==
  ASSUME ShelfInv, NEW n \in Nat, n >= 1
  PROVE  PageOf(n) \in Some /\ IsInjective(PageOf(n))
<1>1. PICK a \in Nat : a = (n - 1) * PerPage
  <2>1. n - 1 \in Nat /\ PerPage \in Nat
    BY ShelfAssumption
  <2> QED  BY <2>1
<1>2. PICK b \in Nat : b = n * PerPage
  BY ShelfAssumption
<1>3. b = a + PerPage /\ PerPage \in Nat
  BY <1>1, <1>2, ShelfAssumption
<1>4. viewed \in Seq(Shelved) /\ Len(viewed) \in Nat /\ IsInjective(viewed)
  BY DEF ShelfInv, ShelfTypeOK
<1>5. PICK c \in Nat : c = Min({b, Len(viewed)})
  BY <1>4, MinOfTwo
<1>6. c <= b /\ c <= Len(viewed)
  BY <1>4, <1>5, MinOfTwo
<1>7. PageOf(n) = SubSeq(viewed, a + 1, c)
  BY <1>1, <1>2, <1>5 DEF PageOf
<1>8. a + 1 \in Nat \ {0}
  OBVIOUS
<1>9. /\ PageOf(n) \in Seq(Shelved) /\ IsInjective(PageOf(n))
      /\ Len(PageOf(n)) = IF a + 1 <= c THEN c - (a + 1) + 1 ELSE 0
  BY <1>4, <1>6, <1>7, <1>8, InjectiveSubSeq
<1>10. Len(PageOf(n)) <= PerPage
  BY <1>3, <1>6, <1>9
<1> QED  BY <1>9, <1>10, SomeAreSequences

(* What an answer adds was not there. *)
LEMMA AddedIsNew ==
  ASSUME NEW call \in Fetch, CallIsSound(call)
  PROVE  LET all == call.captured \o Added(call) IN
         /\ Added(call) \in Seq(Shelved) /\ all \in Seq(Shelved) /\ IsInjective(all)
         /\ Len(all) = Len(call.captured) + Len(Added(call))
         /\ Len(Added(call)) = 0 => all = call.captured
<1> DEFINE k == Added(call)
           K == Shelved \ ToSet(call.captured)
<1>1. call.captured \in Seq(Shelved) /\ call.answer \in Seq(Shelved)
  BY SomeAreSequences DEF Fetch
<1>2. KeepsUpTo(Shelved, call.answer, K, Len(call.answer), k)
  BY <1>1, KeptProperties DEF Added
<1> HIDE DEF k
<1>3. k \in Seq(Shelved \cap K) /\ IsInjective(k)
  BY <1>2 DEF KeepsUpTo, CallIsSound
<1>4. k \in Seq(Shelved) /\ \A j \in 1..Len(k) : k[j] \in K
  BY <1>3
<1>5. \A i \in 1..Len(call.captured) : call.captured[i] \notin K
  BY <1>1 DEF ToSet
<1>6. \A i \in 1..Len(call.captured), j \in 1..Len(k) : call.captured[i] # k[j]
  BY <1>4, <1>5
<1>7. Len(k) = 0 => call.captured \o k = call.captured
  BY <1>1, <1>4, ConcatEmptySeq, EmptySeq
<1> QED  BY <1>1, <1>3, <1>4, <1>6, <1>7, InjectiveConcat DEF CallIsSound, k

LEMMA ShelfStart == ShelfInit => ShelfInv
<1> SUFFICES ASSUME ShelfInit PROVE ShelfInv
  OBVIOUS
<1>1. viewed \in Seq(Shelved) /\ IsInjective(viewed)
  BY SetToSeqProperties, ShelfAssumption DEF ShelfInit
<1>2. /\ products \in Seq(Shelved) /\ IsInjective(products) /\ fetches \in Seq(Fetch)
      /\ Len(fetches) = 0 /\ DOMAIN fetches = {}
  BY NothingAnswered DEF ShelfInit
<1>3. overtaken \in BOOLEAN
  BY DEF ShelfInit
<1>4. /\ views \in 0..MaxViews /\ clicks \in 0..MaxFetches /\ clicks = 0
      /\ Len(fetches) <= MaxFetches
      /\ start_pos \in Nat /\ SLIDE_SIZE \in SlideSizes /\ loading = "sent"
  BY <1>2, ShelfAssumption DEF ShelfInit
<1>5. ShelfTypeOK
  BY <1>1, <1>2, <1>3, <1>4 DEF ShelfTypeOK
<1> QED  BY <1>1, <1>2, <1>4, <1>5 DEF ShelfInv, ShelfInit, NoTwins, SlideHasProducts

LEMMA EmptyOrNot ==
  ASSUME ShelfTypeOK
  PROVE  Len(products) \in Nat /\ (products = <<>> <=> Len(products) = 0)
  BY EmptySeq DEF ShelfTypeOK

(* The steps of a slide of products that were not changed. *)
LEMMA StepIsShort ==
  ASSUME NEW list \in Seq(Shelved), NEW slide \in SlideSizes, NEW grow \in Nat
  PROVE  /\ Step(list, slide, grow) \in Nat
         /\ Step(list, slide, grow) <= grow \/ (Step(list, slide, grow) = 1 /\ slide = 2)
  BY DEF Step

LEMMA FetchMoves ==
  ASSUME ShelfInv, NEW n \in DOMAIN fetches,
         NEW at \in {"resolved", "rejected", "used"}, NEW answer \in Some, IsInjective(answer),
         fetches' = [fetches EXCEPT ![n].at = at, ![n].answer = answer]
  PROVE  /\ fetches' \in Seq(Fetch) /\ Len(fetches') = Len(fetches)
         /\ \A m \in DOMAIN fetches' : CallIsSound(fetches'[m])
<1> DEFINE call == [fetches[n] EXCEPT !.at = at, !.answer = answer]
<1>1. fetches \in Seq(Fetch) /\ fetches[n] \in Fetch /\ CallIsSound(fetches[n])
  BY DEF ShelfInv, ShelfTypeOK
<1>2. /\ call \in Fetch /\ call.answer = answer /\ call.captured = fetches[n].captured
      /\ call.start = fetches[n].start /\ call.page = fetches[n].page
  BY <1>1 DEF Fetch
<1>3. CallIsSound(call)
  BY <1>1, <1>2 DEF CallIsSound
<1>4. fetches' = [fetches EXCEPT ![n] = call]
  BY <1>1
<1> HIDE DEF call
<1>5. /\ fetches' \in Seq(Fetch) /\ Len(fetches') = Len(fetches) /\ DOMAIN fetches' = DOMAIN fetches
      /\ \A m \in DOMAIN fetches : fetches'[m] = IF m = n THEN call ELSE fetches[m]
  <2>1. n \in 1..Len(fetches) /\ DOMAIN fetches = 1..Len(fetches)
    BY <1>1
  <2>2. /\ [fetches EXCEPT ![n] = call] \in Seq(Fetch)
        /\ Len([fetches EXCEPT ![n] = call]) = Len(fetches)
        /\ \A m \in 1..Len(fetches) :
             [fetches EXCEPT ![n] = call][m] = IF m = n THEN call ELSE fetches[m]
    BY ONLY <1>1, <1>2, <2>1, ExceptSeq
  <2>3. DOMAIN fetches' = 1..Len(fetches')
    BY <1>4, <2>2
  <2> QED  BY <1>4, <2>1, <2>2, <2>3
<1> QED  BY <1>3, <1>5 DEF ShelfInv

LEMMA CallTyped ==
  ASSUME NEW call \in Fetch
  PROVE  /\ call.captured \in Seq(Shelved) /\ Len(call.captured) \in Nat
         /\ call.start \in Nat
         /\ call.slide \in SlideSizes /\ call.slide \in Nat /\ call.slide >= 1
<1>1. call.captured \in Seq(Shelved) /\ call.start \in Nat /\ call.slide \in SlideSizes
  BY DEF Fetch
<1>2. \A size \in SlideSizes : size \in Nat /\ size >= 1
  BY ShelfAssumption
<1> QED  BY <1>1, <1>2

(* The position of the slide after an answer. *)
LEMMA SlideFollows ==
  ASSUME ShelfInv, NEW call \in Fetch, CallIsSound(call), NEW added \in Nat,
         NEW grow \in Nat, grow = Min({added, call.slide})
  PROVE  /\ grow = 0 => added = 0
         /\ call.start + Step(call.captured, call.slide, grow) \in Nat
         /\ grow # 0 =>
              call.start + Step(call.captured, call.slide, grow) < Len(call.captured) + added
<1>1. /\ call.captured \in Seq(Shelved) /\ call.slide \in SlideSizes /\ call.start \in Nat
      /\ call.slide \in Nat /\ call.slide >= 1
  BY CallTyped
<1>2. grow \in {added, call.slide} /\ grow <= added
  BY <1>1, MinOfTwo
<1>3. PICK step \in Nat : step = Step(call.captured, call.slide, grow)
  BY <1>1, StepIsShort
<1>4. step <= grow \/ step = 1
  BY <1>1, <1>3, StepIsShort
<1>5. Len(call.captured) \in Nat /\ call.start + 1 < Len(call.captured)
  BY <1>1 DEF CallIsSound
<1>6. \A a, b, g, k, t \in Nat :
        b + 1 < k /\ g <= a /\ (t <= g \/ t = 1) /\ g # 0 => b + t < k + a
  BY ONLY SMT
<1> QED  BY <1>1, <1>2, <1>3, <1>4, <1>5, <1>6

LEMMA MoreKeeps ==
  ASSUME ShelfInv, NEW n \in DOMAIN fetches, MoreAnswered(n)
  PROVE  ShelfInv'
<1> DEFINE call == fetches[n]
           grow == Min({Len(Added(call)), call.slide})
<1>1. /\ call \in Fetch /\ CallIsSound(call) /\ fetches \in Seq(Fetch) /\ fetches # <<>>
  BY DEF ShelfInv, ShelfTypeOK
<1>2. /\ fetches' \in Seq(Fetch) /\ Len(fetches') = Len(fetches)
      /\ \A m \in DOMAIN fetches' : CallIsSound(fetches'[m])
  BY NothingAnswered, FetchMoves DEF MoreAnswered
<1>3. UNCHANGED <<viewed, views, loading, SLIDE_SIZE>> /\ loading' # "sent"
  BY <1>1 DEF MoreAnswered, ShelfInv
<1>4. Len(Added(call)) \in Nat /\ call.slide \in Nat /\ Len(call.captured) \in Nat
  <2>1. Added(call) \in Seq(Shelved)
    BY <1>1, AddedIsNew
  <2> QED  BY <1>1, <2>1, CallTyped
<1>5. grow \in Nat
  BY <1>4, MinOfTwo
<1>6. CASE call.at = "resolved"
  <2>1. /\ products' = call.captured \o Added(call) /\ clicks' = 0
        /\ start_pos' = IF grow = 0 THEN start_pos
                        ELSE call.start + Step(call.captured, call.slide, grow)
        /\ overtaken' = (overtaken \/ products # call.captured)
    BY <1>6 DEF MoreAnswered, FetchMore
  <2>2. /\ products' \in Seq(Shelved) /\ IsInjective(products')
        /\ Len(products') = Len(call.captured) + Len(Added(call))
        /\ Len(Added(call)) = 0 => products' = call.captured
    BY <1>1, <2>1, AddedIsNew
  <2>3. overtaken' \in BOOLEAN
    BY <2>1
  <2> HIDE DEF call
  <2>4. /\ grow = 0 => Len(Added(call)) = 0
        /\ call.start + Step(call.captured, call.slide, grow) \in Nat
        /\ grow # 0 =>
             call.start + Step(call.captured, call.slide, grow)
               < Len(call.captured) + Len(Added(call))
    BY <1>1, <1>4, <1>5, SlideFollows
  <2> HIDE DEF grow
  <2>5. start_pos' \in Nat
    BY <2>1, <2>4 DEF ShelfInv, ShelfTypeOK
  <2>6. SlideHasProducts'
    <3>1. CASE grow # 0
      BY <2>1, <2>2, <2>4, <3>1 DEF SlideHasProducts
    <3>2. CASE grow = 0
      <4>1. start_pos' = start_pos /\ products' = call.captured
        BY <2>1, <2>2, <2>4, <3>2
      <4> QED  BY <2>1, <4>1 DEF ShelfInv, SlideHasProducts
    <3> QED  BY <3>1, <3>2
  <2>7. clicks' \in 0..MaxFetches /\ clicks' <= Len(fetches')
    BY <1>1, <1>2, <2>1, ShelfAssumption
  <2>8. ShelfTypeOK'
    BY <1>2, <1>3, <2>2, <2>3, <2>5, <2>7 DEF ShelfInv, ShelfTypeOK
  <2> QED  BY <1>2, <1>3, <2>2, <2>6, <2>7, <2>8 DEF ShelfInv, NoTwins
<1>7. CASE call.at # "resolved"
  <2>1. UNCHANGED <<products, start_pos, clicks, overtaken>>
    BY <1>7 DEF MoreAnswered
  <2> QED  BY <1>2, <1>3, <2>1 DEF ShelfInv, ShelfTypeOK, NoTwins, SlideHasProducts
<1> QED  BY <1>6, <1>7

LEMMA ShelfStep == ShelfInv /\ [ShelfNext]_shelfVars => ShelfInv'
<1> SUFFICES ASSUME ShelfInv, [ShelfNext]_shelfVars PROVE ShelfInv'
  OBVIOUS
<1>1. CASE Load
  <2>1. /\ loading = "sent" /\ loading' = "over" /\ products' \in {PageOf(1), <<>>}
        /\ clicks' = 0 /\ UNCHANGED <<viewed, views, start_pos, SLIDE_SIZE, fetches, overtaken>>
    BY <1>1 DEF Load
  <2>2. products' \in Seq(Shelved) /\ IsInjective(products')
    <3>1. PageOf(1) \in Some /\ IsInjective(PageOf(1))
      BY PageOfViewed
    <3> QED  BY <2>1, <3>1, NothingAnswered, SomeAreSequences
  <2>3. start_pos = 0 /\ fetches = <<>>
    BY <2>1 DEF ShelfInv
  <2>4. SlideHasProducts'
    <3>1. products' # <<>> => Len(products') > 0
      BY <2>2, EmptySeq
    <3> QED  BY <2>1, <2>3, <3>1 DEF SlideHasProducts
  <2>5. clicks' \in 0..MaxFetches /\ clicks' <= Len(fetches')
    BY <2>1, <2>3, ShelfAssumption
  <2>6. ShelfTypeOK'
    BY <2>1, <2>2, <2>5 DEF ShelfInv, ShelfTypeOK
  <2> QED  BY <2>1, <2>2, <2>4, <2>5, <2>6 DEF ShelfInv, NoTwins
<1>2. ASSUME NEW size \in SlideSizes, checkResponsitivy(size) PROVE ShelfInv'
  <2>1. clicks' \in 0..MaxFetches /\ clicks' <= Len(fetches')
    BY <1>2, ShelfAssumption DEF checkResponsitivy, ShelfInv, ShelfTypeOK
  <2> QED  BY <1>2, <2>1
           DEF checkResponsitivy, ShelfInv, ShelfTypeOK, NoTwins, SlideHasProducts
<1>3. CASE Prev
  <2>1. clicks' \in 0..MaxFetches /\ clicks' <= Len(fetches')
    BY <1>3, ShelfAssumption DEF Prev, ShelfInv, ShelfTypeOK
  <2>2. start_pos' \in Nat /\ start_pos' <= start_pos /\ start_pos \in Nat /\ loading # "sent"
    <3>1. start_pos \in Nat /\ SLIDE_SIZE \in Nat /\ SLIDE_SIZE >= 1 /\ start_pos >= 1
      BY <1>3, ShelfAssumption DEF Prev, ShelfInv, ShelfTypeOK
    <3>2. PICK r \in Int : r = start_pos - SLIDE_SIZE
      BY <3>1
    <3>3. Max({0, r}) = IF r >= 0 THEN r ELSE 0
      <4>1. \E x \in {0, r} : \A y \in {0, r} : x >= y
        BY ONLY r \in Int
      <4>2. Max({0, r}) \in {0, r} /\ \A y \in {0, r} : Max({0, r}) >= y
        BY <4>1 DEF Max
      <4> QED  BY <4>2
    <3>4. start_pos' = Max({0, r})
      BY <1>3, <3>2 DEF Prev
    <3> QED  BY <3>1, <3>2, <3>3, <3>4 DEF ShelfInv
  <2>3. SlideHasProducts'
    <3>1. Len(products) \in Nat
      BY DEF ShelfInv, ShelfTypeOK
    <3> QED  BY <1>3, <2>2, <3>1 DEF Prev, ShelfInv, SlideHasProducts
  <2> QED  BY <1>3, <2>1, <2>2, <2>3 DEF Prev, ShelfInv, ShelfTypeOK, NoTwins
<1>4. CASE NextWithin
  <2>1. clicks' \in 0..MaxFetches /\ clicks' <= Len(fetches')
    BY <1>4, ShelfAssumption DEF NextWithin, ShelfInv, ShelfTypeOK
  <2>2. /\ products \in Seq(Shelved) /\ Len(products) \in Nat /\ SLIDE_SIZE \in SlideSizes
        /\ start_pos \in Nat /\ SLIDE_SIZE \in Nat
        /\ start_pos + SLIDE_SIZE <= Len(products) - 1
    BY <1>4, ShelfAssumption DEF NextWithin, LastOf, ShelfInv, ShelfTypeOK
  <2>3. PICK step \in Nat : /\ step = Step(products, SLIDE_SIZE, SLIDE_SIZE)
                            /\ step <= SLIDE_SIZE \/ (step = 1 /\ SLIDE_SIZE = 2)
    BY <2>2, StepIsShort
  <2>4. start_pos' \in Nat /\ start_pos' < Len(products)
    BY <1>4, <2>2, <2>3 DEF NextWithin
  <2>5. loading # "sent"
    BY <1>4 DEF NextWithin, ShelfInv
  <2> QED  BY <1>4, <2>1, <2>4, <2>5
           DEF NextWithin, ShelfInv, ShelfTypeOK, NoTwins, SlideHasProducts
<1>5. CASE NextBeyond
  <2> DEFINE call == [captured |-> products, start |-> start_pos, slide |-> SLIDE_SIZE,
                      page |-> 1 + clicks', at |-> "sent", answer |-> <<>>]
  <2>1. /\ clicks' = clicks + 1 /\ fetches' = Append(fetches, call)
        /\ start_pos < Len(products) - 1 /\ Len(fetches) < MaxFetches /\ products # <<>>
        /\ UNCHANGED <<viewed, views, loading, products, start_pos, SLIDE_SIZE, overtaken>>
    BY <1>5 DEF NextBeyond, LastOf
  <2>2. /\ clicks \in Nat /\ fetches \in Seq(Fetch) /\ Len(fetches) \in Nat
        /\ clicks <= Len(fetches) /\ MaxFetches \in Nat
    BY ShelfAssumption DEF ShelfInv, ShelfTypeOK
  <2>3. /\ call \in Fetch /\ call.captured = products /\ call.answer = <<>>
        /\ call.start = start_pos /\ call.page = 1 + clicks'
    BY <2>1, <2>2, NothingAnswered DEF Fetch, ShelfInv, ShelfTypeOK
  <2>4. CallIsSound(call)
    <3>1. start_pos + 1 < Len(products) /\ 1 + clicks' >= 1
      BY <2>1, <2>2 DEF ShelfInv, ShelfTypeOK
    <3> HIDE DEF call
    <3> QED  BY <2>3, <3>1, NothingAnswered DEF CallIsSound, ShelfInv, NoTwins
  <2> HIDE DEF call
  <2>5. /\ fetches' \in Seq(Fetch) /\ Len(fetches') = Len(fetches) + 1
        /\ \A m \in 1..Len(fetches) : fetches'[m] = fetches[m]
        /\ fetches'[Len(fetches) + 1] = call
    BY <2>1, <2>2, <2>3, AppendProperties
  <2>6. \A m \in DOMAIN fetches' : CallIsSound(fetches'[m])
    <3>1. DOMAIN fetches' = (1..Len(fetches)) \cup {Len(fetches) + 1}
          /\ DOMAIN fetches = 1..Len(fetches)
      BY <2>2, <2>5
    <3> QED  BY <2>4, <2>5, <3>1 DEF ShelfInv
  <2>7. clicks' \in 0..MaxFetches /\ clicks' <= Len(fetches') /\ Len(fetches') <= MaxFetches
    BY <2>1, <2>2, <2>5
  <2>8. loading # "sent"
    BY <2>1 DEF ShelfInv
  <2>9. ShelfTypeOK'
    BY <2>1, <2>5, <2>7 DEF ShelfInv, ShelfTypeOK
  <2> QED  BY <2>1, <2>6, <2>7, <2>8, <2>9 DEF ShelfInv, NoTwins, SlideHasProducts
<1>6. ASSUME NEW n \in 1..MaxFetches, AnswerMore(n) PROVE ShelfInv'
  <2>1. n \in DOMAIN fetches /\ UNCHANGED <<viewed, views, loading, drawn, overtaken>>
    BY <1>6 DEF AnswerMore
  <2>2. PICK outcome \in {"resolved", "rejected"} :
          fetches' = [fetches EXCEPT ![n].at = outcome,
            ![n].answer = IF outcome = "resolved" THEN PageOf(fetches[n].page) ELSE <<>>]
    BY <1>6 DEF AnswerMore, Outcomes
  <2>3. PICK answer : answer = IF outcome = "resolved" THEN PageOf(fetches[n].page) ELSE <<>>
    OBVIOUS
  <2>4. answer \in Some /\ IsInjective(answer)
    <3>1. fetches[n] \in Fetch /\ CallIsSound(fetches[n])
      BY <2>1 DEF ShelfInv, ShelfTypeOK
    <3>2. fetches[n].page \in Nat /\ fetches[n].page >= 1
      BY <3>1 DEF Fetch, CallIsSound
    <3>3. PageOf(fetches[n].page) \in Some /\ IsInjective(PageOf(fetches[n].page))
      BY <3>2, PageOfViewed
    <3> QED  BY <2>3, <3>3, NothingAnswered
  <2>5. fetches' = [fetches EXCEPT ![n].at = outcome, ![n].answer = answer]
    BY <2>2, <2>3
  <2>6. /\ fetches' \in Seq(Fetch) /\ Len(fetches') = Len(fetches)
        /\ \A m \in DOMAIN fetches' : CallIsSound(fetches'[m])
    BY <2>1, <2>4, <2>5, FetchMoves
  <2>7. fetches # <<>>
    BY <2>1
  <2> QED  BY <2>1, <2>6, <2>7 DEF drawn, ShelfInv, ShelfTypeOK, NoTwins, SlideHasProducts
<1>7. ASSUME NEW n \in 1..MaxFetches, MoreAnswered(n) PROVE ShelfInv'
  BY <1>7, MoreKeeps DEF MoreAnswered
<1>8. ASSUME NEW p \in Shelved, ViewElsewhere(p) PROVE ShelfInv'
  <2> DEFINE others == Kept(viewed, Shelved \ {p})
  <2>1. /\ views < MaxViews /\ views' = views + 1 /\ viewed' \in {<<p>> \o others, others}
        /\ UNCHANGED <<loading, drawn, fetches, overtaken>>
    BY <1>8 DEF ViewElsewhere
  <2>2. views' \in 0..MaxViews
    BY <2>1, ShelfAssumption DEF ShelfInv, ShelfTypeOK
  <2>3. KeepsUpTo(Shelved, viewed, Shelved \ {p}, Len(viewed), others)
    BY KeptProperties DEF ShelfInv, ShelfTypeOK
  <2> HIDE DEF others
  <2>4. others \in Seq(Shelved \cap (Shelved \ {p})) /\ IsInjective(others)
    BY <2>3 DEF KeepsUpTo, ShelfInv
  <2>5. others \in Seq(Shelved) /\ \A j \in 1..Len(others) : others[j] # p
    BY <2>4
  <2>6. /\ <<p>> \in Seq(Shelved) /\ Len(<<p>>) = 1 /\ DOMAIN <<p>> = 1..1 /\ <<p>>[1] = p
    OBVIOUS
  <2>7. IsInjective(<<p>>) /\ \A i \in 1..Len(<<p>>), j \in 1..Len(others) : <<p>>[i] # others[j]
    BY ONLY <2>5, <2>6 DEF IsInjective
  <2>8. <<p>> \o others \in Seq(Shelved) /\ IsInjective(<<p>> \o others)
    BY <2>4, <2>5, <2>6, <2>7, InjectiveConcat
  <2>9. viewed' \in Seq(Shelved) /\ IsInjective(viewed')
    BY <2>1, <2>4, <2>5, <2>8
  <2> QED  BY <2>1, <2>2, <2>9 DEF drawn, ShelfInv, ShelfTypeOK, NoTwins, SlideHasProducts
<1>9. CASE UNCHANGED shelfVars
  BY <1>9 DEF shelfVars, drawn, ShelfInv, ShelfTypeOK, NoTwins, SlideHasProducts
<1> QED  BY <1>1, <1>2, <1>3, <1>4, <1>5, <1>6, <1>7, <1>8, <1>9 DEF ShelfNext

THEOREM ShelfCorrect == ShelfSpec => []ShelfInv
  BY ShelfStart, ShelfStep, PTL DEF ShelfSpec

(* No product is on the shelf twice, for any products, sizes of pages and  *)
(* of the slide, fetches that overlap and views elsewhere.                 *)
THEOREM ShelfHasNoTwins == ShelfSpec => []NoTwins
<1>1. ShelfInv => NoTwins
  BY DEF ShelfInv
<1> QED  BY <1>1, ShelfCorrect, PTL

(* The slide begins at a product of the shelf.                             *)
THEOREM SlideIsOnTheShelf == ShelfSpec => []SlideHasProducts
<1>1. ShelfInv => SlideHasProducts
  BY DEF ShelfInv
<1> QED  BY <1>1, ShelfCorrect, PTL

-----------------------------------------------------------------------------
(* The list of chats. Messages are heard in their order, and a reading has *)
(* all those of before it.                                                 *)

(* Messages come through the socket in their order, after all those that   *)
(* came before, and nothing was read from the database that is not there.  *)
ComesInOrder ==
  /\ \A i \in DOMAIN incoming : incoming[i] \in 1..Len(log) /\ \A m \in told : m < incoming[i]
  /\ \A i, j \in DOMAIN incoming : i < j => incoming[i] < incoming[j]
  /\ \A m \in told : m \in 1..Len(log) /\ m <= asOf
ReadIsThere ==
  /\ asOf <= Len(log) /\ drawnWith.messages <= Len(log)
  /\ \A c \in Callers : calls[c].read.messages <= Len(log)
ChatListInv == ChatListTypeOK /\ ComesInOrder /\ ReadIsThere /\ PreviewIsFresh
-----------------------------------------------------------------------------
ListEntry == [id : 1..MaxChats, last_message : 0..MaxTexts]
ListCall == [at : {"waiting", "sent", "resolved", "rejected", "over"}, read : Readings]

LEMMA ReadingTyped ==
  ASSUME NEW read \in Readings
  PROVE  read.chats \in Nat /\ read.chats <= MaxChats
         /\ read.messages \in Nat /\ read.messages <= MaxTexts
  BY ChatListAssumption DEF Readings

LEMMA LogTyped ==
  ASSUME ChatListTypeOK
  PROVE  /\ log \in Seq(1..opened) /\ Len(log) \in Nat /\ Len(log) <= MaxTexts
         /\ MaxTexts \in Nat /\ asOf \in Nat /\ opened \in Nat
  BY ChatListAssumption DEF ChatListTypeOK

(* The last message of a chat is the latest of those that were read. *)
LEMMA LastMessageIsLast ==
  ASSUME NEW read \in Readings, NEW chat
  PROVE  /\ LastMessage(chat, read) \in 0..MaxTexts
         /\ \A m \in 1..read.messages : log[m] = chat => LastMessage(chat, read) >= m
<1> DEFINE T == {0} \cup {m \in 1..read.messages : log[m] = chat}
<1>1. read.messages \in Nat /\ read.messages <= MaxTexts /\ MaxTexts \in Nat
  BY ReadingTyped, ChatListAssumption
<1>2. T \in SUBSET (0..read.messages) /\ T # {}
  BY <1>1
<1>3. Max(T) \in T /\ \A m \in T : Max(T) >= m
  <2> HIDE DEF T
  <2> QED  BY <1>1, <1>2, MaxOfNaturals
<1>4. Max(T) \in 0..MaxTexts
  BY <1>1, <1>2, <1>3
<1> QED  BY <1>3, <1>4 DEF LastMessage

LEMMA PreviewTyped ==
  ASSUME NEW read \in Readings
  PROVE  /\ Preview(read) \in Seq(ListEntry)
         /\ \A c \in DOMAIN Preview(read) :
              Preview(read)[c].id = c
              /\ Preview(read)[c].last_message = LastMessage(c, read)
<1>1. read.chats \in Nat /\ read.chats <= MaxChats /\ MaxChats \in Nat
  BY ReadingTyped, ChatListAssumption
<1>2. ASSUME NEW c \in 1..read.chats
      PROVE  [id |-> c, last_message |-> LastMessage(c, read)] \in ListEntry
  <2>1. c \in 1..MaxChats
    BY <1>1
  <2> QED  BY <2>1, LastMessageIsLast DEF ListEntry
<1>3. Preview(read) \in [1..read.chats -> ListEntry]
  BY <1>2 DEF Preview
<1>4. Preview(read) \in Seq(ListEntry)
  BY <1>1, <1>3
<1> QED  BY <1>4 DEF Preview

LEMMA UpdateChatsKeeps ==
  ASSUME ChatListInv, NEW read \in Readings, read.messages <= Len(log),
         updateChats(read), UNCHANGED <<log, told>>
  PROVE  /\ store' \in Seq(ListEntry) /\ backdated' \in BOOLEAN
         /\ asOf' \in 0..MaxTexts /\ asOf' >= asOf /\ asOf' <= Len(log)
         /\ PreviewIsFresh'
<1>1. /\ store' = Preview(read) /\ backdated' = (backdated \/ read.messages < asOf)
      /\ asOf' = Max({asOf, read.messages})
  BY DEF updateChats
<1>2. /\ asOf \in Nat /\ read.messages \in Nat /\ Len(log) \in Nat /\ Len(log) <= MaxTexts
      /\ MaxTexts \in Nat /\ asOf <= Len(log)
  BY ReadingTyped, LogTyped DEF ChatListInv, ReadIsThere
<1>3. asOf' \in 0..MaxTexts /\ asOf' >= asOf /\ asOf' <= Len(log)
  <2>1. asOf' \in {asOf, read.messages} /\ asOf' >= asOf
    BY <1>1, <1>2, MaxOfTwo
  <2> QED  BY <1>2, <2>1
<1>4. ASSUME ~backdated', NEW i \in DOMAIN store', NEW m \in told, log[m] = store'[i].id
      PROVE  store'[i].last_message >= m
  <2>1. ~(read.messages < asOf)
    BY <1>1, <1>4
  <2>2. m \in 1..Len(log) /\ m <= asOf
    BY DEF ChatListInv, ComesInOrder
  <2>3. m \in 1..read.messages
    BY <1>2, <2>1, <2>2
  <2>4. store'[i].id = i /\ store'[i].last_message = LastMessage(i, read)
    BY <1>1, PreviewTyped
  <2> QED  BY <1>4, <2>3, <2>4, LastMessageIsLast
<1>5. PreviewIsFresh'
  BY <1>4 DEF PreviewIsFresh
<1>6. backdated' \in BOOLEAN
  BY <1>1
<1> QED  BY <1>1, <1>3, <1>5, <1>6, PreviewTyped

LEMMA ChatListStart == ChatListInit => ChatListInv
<1> SUFFICES ASSUME ChatListInit PROVE ChatListInv
  OBVIOUS
<1>1. /\ opened \in 0..MaxChats /\ opened \in 0..1
      /\ log \in Seq(1..opened) /\ Len(log) = 0 /\ Len(log) <= MaxTexts
      /\ told \subseteq 1..MaxTexts /\ told = {} /\ asOf \in 0..MaxTexts /\ asOf = 0
  BY ChatListAssumption DEF ChatListInit
<1>2. /\ incoming \in Seq(1..MaxTexts) /\ DOMAIN incoming = {}
      /\ store \in Seq(ListEntry) /\ DOMAIN store = {}
  BY DEF ChatListInit
<1>3. drawnWith \in Readings /\ drawnWith.messages = 0
  BY <1>1, ChatListAssumption DEF ChatListInit, Now, Readings
<1>4. calls \in [Callers -> ListCall] /\ \A c \in Callers : calls[c].read = drawnWith
  BY <1>3 DEF ChatListInit, ListCall
<1>5. identified \in BOOLEAN /\ hydrated \in BOOLEAN /\ backdated \in BOOLEAN
  BY DEF ChatListInit
<1>6. ChatListTypeOK
  BY <1>1, <1>2, <1>3, <1>4, <1>5 DEF ChatListTypeOK, ListEntry, ListCall
<1> QED  BY <1>1, <1>2, <1>3, <1>4, <1>6
         DEF ChatListInv, ComesInOrder, ReadIsThere, PreviewIsFresh

LEMMA SameList ==
  ASSUME ChatListInv, UNCHANGED <<log, incoming, told, store, backdated, asOf>>
  PROVE  ComesInOrder' /\ PreviewIsFresh'
  BY DEF ChatListInv, ComesInOrder, PreviewIsFresh

LEMMA WritingKeeps ==
  ASSUME ChatListInv, NEW chat, OtherWritesIn(chat)
  PROVE  ChatListInv'
<1> DEFINE n == Len(log) + 1
<1>1. /\ log \in Seq(1..opened) /\ Len(log) \in Nat /\ n \in Nat /\ Len(log) < MaxTexts
      /\ chat \in 1..opened /\ log' = Append(log, chat) /\ MaxTexts \in Nat
      /\ UNCHANGED <<opened, identified, drawnWith, store, hydrated, calls, told, asOf, backdated>>
  BY LogTyped DEF OtherWritesIn, ChatListInv
<1>2. /\ log' \in Seq(1..opened) /\ Len(log') = n
      /\ \A m \in 1..Len(log) : log'[m] = log[m]
  BY <1>1, AppendProperties
<1>3. n \in 1..MaxTexts /\ 1..Len(log) \subseteq 1..n
  BY <1>1
<1>4. incoming' = IF identified THEN Append(incoming, n) ELSE incoming
  BY <1>2 DEF OtherWritesIn
<1> HIDE DEF n
<1>5. incoming \in Seq(1..MaxTexts) /\ Len(incoming) \in Nat /\ DOMAIN incoming = 1..Len(incoming)
  BY DEF ChatListInv, ChatListTypeOK
<1>6. /\ incoming' \in Seq(1..MaxTexts)
      /\ \A i \in DOMAIN incoming : i \in DOMAIN incoming' /\ incoming'[i] = incoming[i]
      /\ \A i \in DOMAIN incoming' :
           i \in DOMAIN incoming \/ (i = Len(incoming) + 1 /\ incoming'[i] = n)
  <2>1. CASE identified
    <3> DEFINE next == Append(incoming, n)
    <3>1. /\ next \in Seq(1..MaxTexts) /\ Len(next) = Len(incoming) + 1
          /\ \A i \in 1..Len(incoming) : next[i] = incoming[i]
          /\ next[Len(incoming) + 1] = n
      BY <1>3, <1>5, AppendProperties
    <3> HIDE DEF next
    <3>2. DOMAIN next = (1..Len(incoming)) \cup {Len(incoming) + 1}
      BY <1>5, <3>1
    <3>3. incoming' = next
      BY <1>4, <2>1 DEF next
    <3> QED  BY <1>5, <3>1, <3>2, <3>3
  <2>2. CASE ~identified
    BY <1>4, <1>5, <2>2
  <2> QED  BY <2>1, <2>2
<1>7. ASSUME NEW i \in DOMAIN incoming', i \notin DOMAIN incoming
      PROVE  i = Len(incoming) + 1 /\ incoming'[i] = n
  BY ONLY <1>6, <1>7
<1>8. ComesInOrder'
  <2>1. \A i \in DOMAIN incoming : incoming[i] \in 1..Len(log) /\ incoming[i] < n
    BY <1>1 DEF n, ChatListInv, ComesInOrder
  <2>2. ASSUME NEW i \in DOMAIN incoming'
        PROVE  incoming'[i] \in 1..n /\ \A m \in told : m < incoming'[i]
    <3>1. CASE i \in DOMAIN incoming
      BY <1>3, <1>6, <2>1, <3>1 DEF ChatListInv, ComesInOrder
    <3>2. CASE i \notin DOMAIN incoming
      <4>1. incoming'[i] = n
        BY <1>7, <3>2
      <4>2. \A m \in told : m \in 1..Len(log)
        BY DEF ChatListInv, ComesInOrder
      <4> QED  BY <1>1, <1>3, <4>1, <4>2 DEF n
    <3> QED  BY <3>1, <3>2
  <2>3. ASSUME NEW i \in DOMAIN incoming', NEW j \in DOMAIN incoming', i < j
        PROVE  incoming'[i] < incoming'[j]
    <3>1. CASE i \in DOMAIN incoming /\ j \in DOMAIN incoming
      BY <1>6, <2>3, <3>1 DEF ChatListInv, ComesInOrder
    <3>2. CASE i \in DOMAIN incoming /\ j \notin DOMAIN incoming
      BY <1>6, <2>1, <3>2
    <3>3. CASE i \notin DOMAIN incoming
      <4>1. i = Len(incoming) + 1 /\ (j \in 1..Len(incoming) \/ j = Len(incoming) + 1)
        BY <1>5, <1>7, <3>3
      <4> QED  BY <1>5, <2>3, <4>1
    <3> QED  BY <3>1, <3>2, <3>3
  <2>4. \A m \in told : m \in 1..n /\ m <= asOf
    BY <1>3 DEF ChatListInv, ComesInOrder
  <2> QED  BY <1>1, <1>2, <2>2, <2>3, <2>4 DEF ComesInOrder
<1>9. ReadIsThere'
  <2>1. \A r \in Nat : r <= Len(log) => r <= n
    BY <1>1 DEF n
  <2>2. asOf \in Nat /\ drawnWith \in Readings /\ \A c \in Callers : calls[c].read \in Readings
    BY ChatListAssumption DEF ChatListInv, ChatListTypeOK
  <2>3. drawnWith.messages \in Nat /\ \A c \in Callers : calls[c].read.messages \in Nat
    BY <2>2, ReadingTyped
  <2> QED  BY <1>1, <1>2, <2>1, <2>2, <2>3 DEF ChatListInv, ReadIsThere
<1>10. PreviewIsFresh'
  <2>1. \A m \in told : log'[m] = log[m]
    BY <1>2 DEF ChatListInv, ComesInOrder
  <2> QED  BY <1>1, <2>1 DEF ChatListInv, PreviewIsFresh
<1>11. ChatListTypeOK'
  <2>1. Len(log') <= MaxTexts
    BY <1>2, <1>3
  <2> QED  BY <1>1, <1>2, <1>6, <2>1 DEF ChatListInv, ChatListTypeOK
<1> QED  BY <1>8, <1>9, <1>10, <1>11 DEF ChatListInv

LEMMA HearingKeeps ==
  ASSUME ChatListInv, addMessageToList
  PROVE  ChatListInv'
<1> DEFINE message == Head(incoming)
<1>1. /\ incoming # <<>> /\ incoming' = Tail(incoming)
      /\ store' = Previews(log[message], message)
      /\ told' = told \cup {message} /\ asOf' = Max({asOf, message})
      /\ UNCHANGED <<opened, log, identified, drawnWith, hydrated, calls, backdated>>
  BY DEF addMessageToList
<1>2. /\ incoming \in Seq(1..MaxTexts) /\ Len(incoming) \in Nat
      /\ DOMAIN incoming = 1..Len(incoming) /\ 1 \in DOMAIN incoming /\ message = incoming[1]
  BY <1>1 DEF ChatListInv, ChatListTypeOK
<1>3. message \in 1..MaxTexts /\ message \in 1..Len(log) /\ \A m \in told : m < message
  <2>1. incoming[1] \in 1..MaxTexts
    BY ONLY <1>2, ElementOfSeq
  <2>2. incoming[1] \in 1..Len(log) /\ \A m \in told : m < incoming[1]
    BY <1>2 DEF ChatListInv, ComesInOrder
  <2> QED  BY <1>2, <2>1, <2>2
<1> HIDE DEF message
<1>4. /\ incoming' \in Seq(1..MaxTexts) /\ DOMAIN incoming' = 1..Len(incoming')
      /\ \A i \in DOMAIN incoming' : i + 1 \in DOMAIN incoming /\ incoming'[i] = incoming[i + 1]
                                     /\ 1 < i + 1
  <2>1. /\ incoming' \in Seq(1..MaxTexts) /\ Len(incoming') = Len(incoming) - 1
        /\ \A i \in 1..Len(incoming') : incoming'[i] = incoming[i + 1]
    BY <1>1, <1>2, HeadTailProperties
  <2>2. DOMAIN incoming' = 1..Len(incoming') /\ Len(incoming') \in Nat
    BY <2>1
  <2>3. \A i \in 1..Len(incoming') : i + 1 \in 1..Len(incoming) /\ 1 < i + 1
    BY ONLY <1>2, <2>1, <2>2
  <2> QED  BY <1>2, <2>1, <2>2, <2>3
<1>5. /\ asOf \in Nat /\ Len(log) \in Nat /\ Len(log) <= MaxTexts /\ MaxTexts \in Nat
      /\ asOf <= Len(log) /\ message \in Nat /\ message <= Len(log)
  BY <1>3, LogTyped DEF ChatListInv, ReadIsThere
<1>6. asOf' \in 0..MaxTexts /\ asOf' <= Len(log) /\ asOf' >= asOf /\ asOf' >= message
  <2>1. asOf' \in {asOf, message} /\ asOf' >= asOf /\ asOf' >= message
    BY <1>1, <1>5, MaxOfTwo
  <2> QED  BY <1>5, <2>1
<1>7. ComesInOrder'
  <2>1. ASSUME NEW i \in DOMAIN incoming'
        PROVE  incoming'[i] \in 1..Len(log) /\ \A m \in told' : m < incoming'[i]
    <3>1. message < incoming'[i]
      BY <1>2, <1>4 DEF ChatListInv, ComesInOrder, message
    <3> QED  BY <1>1, <1>4, <3>1 DEF ChatListInv, ComesInOrder
  <2>2. ASSUME NEW i \in DOMAIN incoming', NEW j \in DOMAIN incoming', i < j
        PROVE  incoming'[i] < incoming'[j]
    <3>1. i + 1 < j + 1
      BY <1>4, <2>2
    <3> QED  BY <1>4, <3>1 DEF ChatListInv, ComesInOrder
  <2>3. ASSUME NEW m \in told'
        PROVE  m \in 1..Len(log) /\ m <= asOf'
    <3>1. CASE m = message
      BY <1>3, <1>6, <3>1
    <3>2. CASE m \in told
      <4>1. m \in 1..Len(log) /\ m <= asOf
        BY <3>2 DEF ChatListInv, ComesInOrder
      <4> QED  BY <1>5, <1>6, <4>1
    <3> QED  BY <1>1, <2>3, <3>1, <3>2
  <2> QED  BY <1>1, <2>1, <2>2, <2>3 DEF ComesInOrder
<1>8. ReadIsThere'
  BY <1>1, <1>6 DEF ChatListInv, ReadIsThere
<1>9. /\ store' \in Seq(ListEntry) /\ DOMAIN store' = DOMAIN store
      /\ \A i \in DOMAIN store :
           /\ store'[i].id = store[i].id
           /\ store'[i].last_message = IF store[i].id = log[message] THEN message
                                       ELSE store[i].last_message
  <2>1. store \in Seq(ListEntry) /\ DOMAIN store = 1..Len(store) /\ Len(store) \in Nat
    BY DEF ChatListInv, ChatListTypeOK, ListEntry
  <2>2. store' = [i \in 1..Len(store) |->
          IF store[i].id = log[message] THEN [store[i] EXCEPT !.last_message = message]
                                        ELSE store[i]]
    BY <1>1, <2>1 DEF Previews
  <2>3. ASSUME NEW i \in 1..Len(store)
        PROVE  /\ store'[i] \in ListEntry /\ store'[i].id = store[i].id
               /\ store'[i].last_message = IF store[i].id = log[message] THEN message
                                           ELSE store[i].last_message
    <3>1. store[i] \in ListEntry
      BY <2>1
    <3>2. message \in 0..MaxTexts
      BY <1>3
    <3>3. /\ [store[i] EXCEPT !.last_message = message] \in ListEntry
          /\ [store[i] EXCEPT !.last_message = message].id = store[i].id
          /\ [store[i] EXCEPT !.last_message = message].last_message = message
      BY <3>1, <3>2 DEF ListEntry
    <3> QED  BY <2>2, <3>1, <3>3
  <2>4. store' \in [1..Len(store) -> ListEntry]
    BY <2>2, <2>3
  <2> QED  BY <2>1, <2>3, <2>4
<1>10. PreviewIsFresh'
  <2> SUFFICES ASSUME ~backdated, NEW i \in DOMAIN store, NEW m \in told',
                      log[m] = store[i].id
               PROVE  store'[i].last_message >= m
    BY <1>1, <1>9 DEF PreviewIsFresh
  <2>1. CASE store[i].id = log[message]
    <3>1. m <= message
      BY <1>1, <1>3, <1>5 DEF ChatListInv, ComesInOrder
    <3> QED  BY <1>5, <1>9, <2>1, <3>1
  <2>2. CASE store[i].id # log[message]
    <3>1. m \in told
      BY <1>1, <2>2
    <3> QED  BY <1>9, <2>2, <3>1 DEF ChatListInv, PreviewIsFresh
  <2> QED  BY <2>1, <2>2
<1>11. ChatListTypeOK'
  <2>1. told' \subseteq 1..MaxTexts
    BY <1>1, <1>3 DEF ChatListInv, ChatListTypeOK
  <2> QED  BY <1>1, <1>4, <1>6, <1>9, <2>1 DEF ChatListInv, ChatListTypeOK, ListEntry
<1> QED  BY <1>7, <1>8, <1>10, <1>11 DEF ChatListInv

(* A call that goes on. *)
LEMMA CallGoesOn ==
  ASSUME ChatListInv, NEW c \in Callers, NEW call \in ListCall, call.read.messages <= Len(log),
         calls' = [calls EXCEPT ![c] = call]
  PROVE  /\ calls' \in [Callers -> ListCall]
         /\ \A d \in Callers : calls'[d].read.messages <= Len(log)
<1>1. calls \in [Callers -> ListCall]
  BY DEF ChatListInv, ChatListTypeOK, ListCall
<1>2. calls' \in [Callers -> ListCall] /\ \A d \in Callers : calls'[d] = IF d = c THEN call ELSE calls[d]
  BY <1>1
<1> QED  BY <1>2 DEF ChatListInv, ReadIsThere

LEMMA OnlyCalls ==
  ASSUME ChatListInv, NEW c \in Callers, NEW call \in ListCall, call.read.messages <= Len(log),
         calls' = [calls EXCEPT ![c] = call],
         UNCHANGED <<opened, log, identified, incoming, drawnWith, told>>,
         hydrated' \in BOOLEAN,
         UNCHANGED <<store, asOf, backdated>>
           \/ \E read \in Readings : read.messages <= Len(log) /\ updateChats(read)
  PROVE  ChatListInv'
<1>1. /\ calls' \in [Callers -> ListCall]
      /\ \A d \in Callers : calls'[d].read.messages <= Len(log)
  BY CallGoesOn
<1>2. /\ store' \in Seq(ListEntry) /\ backdated' \in BOOLEAN
      /\ asOf' \in 0..MaxTexts /\ asOf' >= asOf /\ asOf' <= Len(log)
      /\ PreviewIsFresh'
  <2>1. CASE UNCHANGED <<store, asOf, backdated>>
    <3>1. asOf' >= asOf /\ asOf' <= Len(log)
      BY <2>1, LogTyped DEF ChatListInv, ReadIsThere
    <3> QED  BY <2>1, <3>1, SameList DEF ChatListInv, ChatListTypeOK, ListEntry
  <2>2. ASSUME NEW read \in Readings, read.messages <= Len(log), updateChats(read)
        PROVE  /\ store' \in Seq(ListEntry) /\ backdated' \in BOOLEAN
               /\ asOf' \in 0..MaxTexts /\ asOf' >= asOf /\ asOf' <= Len(log)
               /\ PreviewIsFresh'
    BY <2>2, UpdateChatsKeeps
  <2> QED  BY <2>1, <2>2
<1>3. ChatListTypeOK'
  BY <1>1, <1>2 DEF ChatListInv, ChatListTypeOK, ListEntry, ListCall
<1>4. ReadIsThere'
  BY <1>1, <1>2 DEF ChatListInv, ReadIsThere
<1>5. ComesInOrder'
  <2>1. \A m \in told : m <= asOf'
    <3>1. \A m \in told : m \in Nat /\ m <= asOf
      BY DEF ChatListInv, ComesInOrder
    <3>2. asOf \in Nat /\ asOf' \in Nat
      BY <1>2, LogTyped DEF ChatListInv
    <3> QED  BY <1>2, <3>1, <3>2
  <2> QED  BY <2>1 DEF ChatListInv, ComesInOrder
<1> QED  BY <1>2, <1>3, <1>4, <1>5 DEF ChatListInv

LEMMA CallTypedInList ==
  ASSUME ChatListInv, NEW c \in Callers
  PROVE  calls[c] \in ListCall /\ calls[c].read \in Readings /\ calls[c].read.messages <= Len(log)
  BY DEF ChatListInv, ChatListTypeOK, ReadIsThere, ListCall

LEMMA ChatListStep == ChatListInv /\ [ChatListNext]_listVars => ChatListInv'
<1> SUFFICES ASSUME ChatListInv, [ChatListNext]_listVars PROVE ChatListInv'
  OBVIOUS
<1>1. CASE OtherOpens
  <2>1. opened' \in 0..MaxChats /\ 1..opened \subseteq 1..opened' /\ opened \in Nat
    BY <1>1, ChatListAssumption DEF OtherOpens, ChatListInv, ChatListTypeOK
  <2>2. log' \in Seq(1..opened')
    BY <1>1, <2>1 DEF OtherOpens, ChatListInv, ChatListTypeOK
  <2>3. ChatListTypeOK'
    BY <1>1, <2>1, <2>2 DEF OtherOpens, ChatListInv, ChatListTypeOK
  <2> QED  BY <1>1, <2>3, SameList DEF OtherOpens, ChatListInv, ReadIsThere
<1>2. ASSUME NEW chat \in 1..MaxChats, OtherWritesIn(chat) PROVE ChatListInv'
  BY <1>2, WritingKeeps
<1>3. CASE IdentifyPage
  <2>1. identified' \in BOOLEAN
    BY <1>3 DEF IdentifyPage
  <2>2. ChatListTypeOK'
    BY <1>3, <2>1 DEF IdentifyPage, ChatListInv, ChatListTypeOK
  <2> QED  BY <1>3, <2>2, SameList DEF IdentifyPage, ChatListInv, ReadIsThere
<1>4. CASE addMessageToList
  BY <1>4, HearingKeeps
<1>5. CASE initializeStores
  <2>1. PICK at \in {"sent", "over"} : calls' = [calls EXCEPT !["layout"].at = at]
    BY <1>5 DEF initializeStores
  <2> DEFINE call == [calls["layout"] EXCEPT !.at = at]
  <2>2. "layout" \in Callers
    BY DEF Callers
  <2>3. call \in ListCall /\ call.read = calls["layout"].read
    BY <2>2, CallTypedInList DEF ListCall
  <2>4. calls' = [calls EXCEPT !["layout"] = call]
    BY <2>1, <2>2 DEF ChatListInv, ChatListTypeOK
  <2> HIDE DEF call
  <2>5. /\ UNCHANGED <<opened, log, identified, incoming, drawnWith, told>>
        /\ UNCHANGED <<store, asOf, backdated>> /\ hydrated' \in BOOLEAN
    BY <1>5 DEF initializeStores, ChatListInv, ChatListTypeOK
  <2> QED  BY <2>2, <2>3, <2>4, <2>5, CallTypedInList, OnlyCalls
<1>6. CASE Hydrate
  <2> DEFINE call == [calls["component"] EXCEPT !.at = "sent"]
  <2>1. "component" \in Callers
    BY DEF Callers
  <2>2. call \in ListCall /\ call.read = calls["component"].read
    BY <2>1, CallTypedInList DEF ListCall
  <2>3. calls' = [calls EXCEPT !["component"] = call]
    BY <1>6, <2>1 DEF Hydrate, ChatListInv, ChatListTypeOK
  <2> HIDE DEF call
  <2>4. hydrated' \in BOOLEAN
    BY <1>6 DEF Hydrate
  <2>5. drawnWith \in Readings /\ drawnWith.messages <= Len(log)
    BY DEF ChatListInv, ChatListTypeOK, ReadIsThere
  <2>6. UNCHANGED <<opened, log, identified, incoming, drawnWith, told>>
        /\ (UNCHANGED <<store, asOf, backdated>> \/ updateChats(drawnWith))
    BY <1>6 DEF Hydrate
  <2> QED  BY <2>1, <2>2, <2>3, <2>4, <2>5, <2>6, CallTypedInList, OnlyCalls
<1>7. ASSUME NEW c \in Callers, AnswerChats(c) PROVE ChatListInv'
  <2>1. PICK outcome \in {"resolved", "rejected"} :
          calls' = [calls EXCEPT ![c] = [at |-> outcome, read |-> Now]]
    BY <1>7 DEF AnswerChats, Outcomes
  <2>2. Now \in Readings /\ Now.messages <= Len(log)
    BY LogTyped DEF Now, Readings, ChatListInv, ChatListTypeOK
  <2>3. [at |-> outcome, read |-> Now] \in ListCall
    BY <2>2 DEF ListCall
  <2>4. /\ UNCHANGED <<opened, log, identified, incoming, drawnWith, told>>
        /\ UNCHANGED <<store, asOf, backdated>> /\ hydrated' \in BOOLEAN
    BY <1>7 DEF AnswerChats, ChatListInv, ChatListTypeOK
  <2> QED  BY <2>1, <2>2, <2>3, <2>4, OnlyCalls
<1>8. ASSUME NEW c \in Callers, ChatsAnswered(c) PROVE ChatListInv'
  <2>1. drawnWith \in Readings /\ drawnWith.messages <= Len(log)
    BY DEF ChatListInv, ChatListTypeOK, ReadIsThere
  <2>2. [at |-> "over", read |-> drawnWith] \in ListCall
    BY <2>1 DEF ListCall
  <2>3. /\ UNCHANGED <<opened, log, identified, incoming, drawnWith, told>>
        /\ hydrated' \in BOOLEAN /\ calls' = [calls EXCEPT ![c] = [at |-> "over", read |-> drawnWith]]
        /\ (UNCHANGED <<store, asOf, backdated>> \/ updateChats(calls[c].read))
    BY <1>8 DEF ChatsAnswered, ChatListInv, ChatListTypeOK
  <2> QED  BY <2>1, <2>2, <2>3, CallTypedInList, OnlyCalls
<1>9. CASE UNCHANGED listVars
  <2>1. ChatListTypeOK'
    BY <1>9 DEF listVars, ChatListInv, ChatListTypeOK
  <2> QED  BY <1>9, <2>1, SameList DEF listVars, ChatListInv, ReadIsThere
<1> QED  BY <1>1, <1>2, <1>3, <1>4, <1>5, <1>6, <1>7, <1>8, <1>9 DEF ChatListNext

THEOREM ChatListCorrect == ChatListSpec => []ChatListInv
  BY ChatListStart, ChatListStep, PTL DEF ChatListSpec

(* No chat of the list shows a message older than one that came through    *)
(* the socket, for any numbers of chats and messages, unless an older      *)
(* reading replaced a later one.                                           *)
THEOREM PreviewsAreFresh == ChatListSpec => []PreviewIsFresh
<1>1. ChatListInv => PreviewIsFresh
  BY DEF ChatListInv
<1> QED  BY <1>1, ChatListCorrect, PTL

-----------------------------------------------------------------------------
(* The conversation. Every list of the page is made of rows, and the store *)
(* only grows while the page is mounted.                                   *)

(* Whatever the page has is a row; what a call answered with is a row of   *)
(* the user.                                                               *)
AuthorRows == 1..Len(authors)
OnlyRows ==
  /\ pushes \in Seq(AuthorRows) /\ arriving \in Seq(AuthorRows)
  /\ pre_rendered \in Seq(AuthorRows)
  /\ chatMessages \in Seq(AuthorRows) /\ messages \in Seq(AuthorRows)
  /\ \A n \in DOMAIN sends :
       sends[n].at = "resolved" =>
         sends[n].row \in AuthorRows /\ authors[sends[n].row] = "me"

(* The store is filled and what is in it is drawn. *)
Settled == mounted /\ ~importing /\ ~undrawn
Drawn(row) == row \in ToSet(messages)

(* When the store is drawn, it is what is drawn but for the user's own     *)
(* messages.                                                               *)
StoreIsDrawn ==
  mounted /\ ~undrawn =>
    /\ ToSet(chatMessages) \subseteq ToSet(messages)
    /\ \A row \in ToSet(messages) : authors[row] = "other" => row \in ToSet(chatMessages)

(* Before the component is there, the page is as the server drew it.       *)
Untouched ==
  ~mounted => ~undrawn /\ ~importing /\ messages = pre_rendered /\ sends = <<>>

ChatInv == ChatTypeOK /\ OnlyRows /\ StoreIsDrawn /\ Untouched

(* What is in a store that was filled stays in it. *)
InStore(row) == mounted /\ ~importing /\ row \in ToSet(chatMessages)
-----------------------------------------------------------------------------
LEMMA ToSetOfAppend ==
  ASSUME NEW S, NEW s \in Seq(S), NEW e \in S
  PROVE  ToSet(Append(s, e)) = ToSet(s) \cup {e}
<1>1. /\ Append(s, e) \in Seq(S) /\ Len(Append(s, e)) = Len(s) + 1 /\ Len(s) \in Nat
      /\ \A i \in 1..Len(s) : Append(s, e)[i] = s[i]
      /\ Append(s, e)[Len(s) + 1] = e
  BY AppendProperties
<1>2. DOMAIN Append(s, e) = (1..Len(s)) \cup {Len(s) + 1} /\ DOMAIN s = 1..Len(s)
  BY <1>1
<1> QED  BY <1>1, <1>2 DEF ToSet

LEMMA ChatTyped ==
  ASSUME ChatInv
  PROVE  /\ authors \in Seq({"me", "other"}) /\ Len(authors) \in Nat /\ Len(authors) <= MaxMessages
         /\ MaxMessages \in Nat
         /\ sends \in Seq(SendCall) /\ Len(sends) \in Nat /\ DOMAIN sends = 1..Len(sends)
  BY ChatAssumption DEF ChatInv, ChatTypeOK

(* The rows are not more than they may be. *)
LEMMA SeqOfRows ==
  ASSUME NEW n \in Nat, n <= MaxMessages, NEW s \in Seq(1..n)
  PROVE  s \in Seq(Rows)
<1>1. 1..n \subseteq Rows
  BY ChatAssumption DEF Rows
<1> QED  BY <1>1

LEMMA ChatStart == ChatInit => ChatInv
<1> SUFFICES ASSUME ChatInit PROVE ChatInv
  OBVIOUS
<1>1. MaxMessages \in Nat /\ 1 <= MaxMessages
  BY ChatAssumption
<1>2. /\ authors \in Seq({"me", "other"}) /\ Len(authors) = 1 /\ Len(authors) <= MaxMessages
      /\ AuthorRows = 1..1
  BY <1>1 DEF ChatInit, AuthorRows
<1>3. /\ pushes \in Seq(1..1) /\ arriving \in Seq(1..1) /\ pre_rendered \in Seq(1..1)
      /\ chatMessages \in Seq(1..1) /\ messages \in Seq(1..1)
      /\ sends \in Seq(SendCall) /\ DOMAIN sends = {}
  <2>1. <<1>> \in Seq(1..1) /\ <<>> \in Seq(1..1) /\ <<>> \in Seq(SendCall)
        /\ DOMAIN <<>> = {}
    OBVIOUS
  <2> QED  BY <2>1 DEF ChatInit
<1>4. /\ pushes \in Seq(Rows) /\ arriving \in Seq(Rows) /\ pre_rendered \in Seq(Rows)
      /\ chatMessages \in Seq(Rows) /\ messages \in Seq(Rows)
  BY <1>1, <1>3, SeqOfRows
<1>5. connected \in BOOLEAN /\ mounted \in BOOLEAN /\ importing \in BOOLEAN /\ undrawn \in BOOLEAN
  BY DEF ChatInit
<1>6. ChatTypeOK
  BY <1>2, <1>3, <1>4, <1>5 DEF ChatTypeOK
<1> QED  BY <1>2, <1>3, <1>6 DEF ChatInit, ChatInv, OnlyRows, StoreIsDrawn, Untouched

(* What came from one sequence goes to another. *)
LEMMA MovesOn ==
  ASSUME NEW S, NEW s \in Seq(S), s # <<>>
  PROVE  Tail(s) \in Seq(S) /\ Head(s) \in S
  BY HeadTailProperties

(* A new row leaves the others. *)
LEMMA NewRow ==
  ASSUME ChatInv, NEW author \in {"me", "other"}, Len(authors) < MaxMessages,
         authors' = Append(authors, author)
  PROVE  /\ authors' \in Seq({"me", "other"}) /\ Len(authors') = Len(authors) + 1
         /\ Len(authors') \in Nat /\ Len(authors') <= MaxMessages
         /\ Len(authors') \in AuthorRows' /\ authors'[Len(authors')] = author
         /\ AuthorRows \subseteq AuthorRows' /\ AuthorRows' \subseteq Rows
         /\ \A row \in AuthorRows : authors'[row] = authors[row]
<1>1. /\ authors' \in Seq({"me", "other"}) /\ Len(authors') = Len(authors) + 1
      /\ \A row \in 1..Len(authors) : authors'[row] = authors[row]
      /\ authors'[Len(authors) + 1] = author
  BY ChatTyped, AppendProperties
<1>2. Len(authors') \in Nat /\ Len(authors') <= MaxMessages /\ Len(authors') \in 1..Len(authors')
      /\ 1..Len(authors) \subseteq 1..Len(authors') /\ 1..Len(authors') \subseteq 1..MaxMessages
  BY <1>1, ChatTyped
<1> QED  BY <1>1, <1>2 DEF AuthorRows, Rows

LEMMA NewRowKeeps ==
  ASSUME ChatInv, NEW author \in {"me", "other"}, Len(authors) < MaxMessages,
         authors' = Append(authors, author),
         UNCHANGED <<mounted, importing, chatMessages, undrawn, messages>>
  PROVE  StoreIsDrawn'
<1>1. \A row \in ToSet(messages) : row \in AuthorRows
  BY DEF ChatInv, OnlyRows, ToSet
<1>2. \A row \in ToSet(messages) : authors'[row] = authors[row]
  BY <1>1, NewRow
<1> QED  BY <1>2 DEF ChatInv, StoreIsDrawn

(* Nothing is sent before the component is there. *)
LEMMA CalledWhenMounted == ASSUME ChatInv, NEW n \in DOMAIN sends PROVE mounted
<1>1. sends # <<>>
  OBVIOUS
<1> QED  BY <1>1 DEF ChatInv, Untouched

(* A call that goes on, or whose answer was used. *)
LEMMA AnswerKeeps ==
  ASSUME ChatInv, NEW n \in DOMAIN sends, AnswerMessage(n)
  PROVE  ChatInv'
<1>1. PICK done \in {Len(authors) < MaxMessages, FALSE} : \E outcome \in Outcomes(done) :
        /\ authors' = IF done THEN Append(authors, "me") ELSE authors
        /\ sends' = [sends EXCEPT ![n].at = outcome, ![n].row = IF done THEN Len(authors') ELSE 0]
  BY DEF AnswerMessage
<1>2. PICK outcome \in {"resolved", "rejected"} :
        /\ outcome = "resolved" => done
        /\ authors' = IF done THEN Append(authors, "me") ELSE authors
        /\ sends' = [sends EXCEPT ![n].at = outcome, ![n].row = IF done THEN Len(authors') ELSE 0]
  BY <1>1 DEF Outcomes
<1>3. UNCHANGED <<pushes, connected, arriving, pre_rendered, mounted, importing, chatMessages,
                  undrawn, messages>>
  BY DEF AnswerMessage
<1>4. /\ authors' \in Seq({"me", "other"}) /\ Len(authors') \in Nat /\ Len(authors') <= MaxMessages
      /\ AuthorRows \subseteq AuthorRows' /\ AuthorRows' \subseteq Rows
      /\ \A row \in AuthorRows : authors'[row] = authors[row]
      /\ done => Len(authors') \in AuthorRows' /\ authors'[Len(authors')] = "me"
      /\ StoreIsDrawn'
  <2>1. CASE done
    <3>1. Len(authors) < MaxMessages /\ authors' = Append(authors, "me")
      BY <1>1, <1>2, <2>1
    <3> QED  BY <1>3, <3>1, NewRow, NewRowKeeps
  <2>2. CASE ~done
    <3>1. authors' = authors
      BY <1>2, <2>2
    <3>2. AuthorRows \subseteq Rows
      BY ChatTyped DEF AuthorRows, Rows
    <3> QED  BY <1>3, <2>2, <3>1, <3>2, ChatTyped DEF AuthorRows, ChatInv, StoreIsDrawn
  <2> QED  BY <2>1, <2>2
<1>5. PICK row \in 0..MaxMessages : /\ row = IF done THEN Len(authors') ELSE 0
                                    /\ done => row \in AuthorRows' /\ authors'[row] = "me"
  BY <1>4, ChatTyped
<1> DEFINE call == [sends[n] EXCEPT !.at = outcome, !.row = row]
<1>6. call \in SendCall /\ call.at = outcome /\ call.row = row
  <2>1. sends[n] \in SendCall
    BY ChatTyped
  <2> QED  BY <2>1 DEF SendCall
<1>7. sends' = [sends EXCEPT ![n] = call]
  BY <1>2, <1>5, ChatTyped
<1> HIDE DEF call
<1>8. /\ sends' \in Seq(SendCall) /\ DOMAIN sends' = DOMAIN sends
      /\ \A m \in DOMAIN sends : sends'[m] = IF m = n THEN call ELSE sends[m]
  <2>1. /\ [sends EXCEPT ![n] = call] \in Seq(SendCall)
        /\ Len([sends EXCEPT ![n] = call]) = Len(sends)
        /\ \A m \in 1..Len(sends) : [sends EXCEPT ![n] = call][m] = IF m = n THEN call ELSE sends[m]
    BY ONLY n \in DOMAIN sends, <1>6, ChatInv, ChatTyped, ExceptSeq
  <2>2. DOMAIN sends' = 1..Len(sends)
    BY <1>7, <2>1, ChatTyped
  <2> QED  BY <1>7, <2>1, <2>2, ChatTyped
<1>9. \A m \in DOMAIN sends' :
        sends'[m].at = "resolved" => sends'[m].row \in AuthorRows' /\ authors'[sends'[m].row] = "me"
  <2> SUFFICES ASSUME NEW m \in DOMAIN sends, sends'[m].at = "resolved"
               PROVE  sends'[m].row \in AuthorRows' /\ authors'[sends'[m].row] = "me"
    BY <1>8
  <2>1. CASE m = n
    BY <1>2, <1>5, <1>6, <1>8, <2>1
  <2>2. CASE m # n
    <3>1. sends'[m] = sends[m]
      BY <1>8, <2>2
    <3>2. sends[m].row \in AuthorRows /\ authors[sends[m].row] = "me"
      BY <3>1 DEF ChatInv, OnlyRows
    <3> QED  BY <1>4, <3>1, <3>2
  <2> QED  BY <2>1, <2>2
<1>10. OnlyRows'
  BY <1>3, <1>4, <1>9 DEF ChatInv, OnlyRows
<1>11. ChatTypeOK'
  BY <1>3, <1>4, <1>8 DEF ChatInv, ChatTypeOK
<1>12. Untouched'
  BY <1>3, CalledWhenMounted DEF Untouched
<1> QED  BY <1>4, <1>10, <1>11, <1>12 DEF ChatInv

LEMMA MessageAnsweredKeeps ==
  ASSUME ChatInv, NEW n \in DOMAIN sends, MessageAnswered(n)
  PROVE  ChatInv'
<1>1. /\ messages' = IF sends[n].at = "resolved" THEN Append(messages, sends[n].row) ELSE messages
      /\ sends' = RemoveAt(sends, n)
      /\ UNCHANGED <<authors, pushes, connected, arriving, pre_rendered, mounted, importing,
                     chatMessages, undrawn>>
  BY DEF MessageAnswered
<1>2. /\ sends' \in Seq(SendCall)
      /\ \A m \in DOMAIN sends' : \E k \in DOMAIN sends : sends'[m] = sends[k]
  <2>1. n \in 1..Len(sends) /\ sends \in Seq(SendCall) /\ Len(sends) \in Nat
    BY ChatTyped
  <2>2. /\ RemoveAt(sends, n) \in Seq(SendCall)
        /\ Len(RemoveAt(sends, n)) = Len(sends) - 1
        /\ \A j \in 1..Len(sends) - 1 :
             RemoveAt(sends, n)[j] = IF j < n THEN sends[j] ELSE sends[j + 1]
    BY ONLY <2>1, RemoveAtProperties
  <2>3. DOMAIN sends' = 1..Len(sends) - 1 /\ DOMAIN sends = 1..Len(sends)
    BY <1>1, <2>1, <2>2
  <2>4. \A j \in 1..Len(sends) - 1 : j \in 1..Len(sends) /\ j + 1 \in 1..Len(sends)
    BY <2>1
  <2> QED  BY <1>1, <2>2, <2>3, <2>4
<1>3. /\ messages' \in Seq(AuthorRows)
      /\ ToSet(messages) \subseteq ToSet(messages')
      /\ \A row \in ToSet(messages') : row \in ToSet(messages) \/ authors[row] = "me"
  <2>1. CASE sends[n].at = "resolved"
    <3>1. sends[n].row \in AuthorRows /\ authors[sends[n].row] = "me"
      BY <2>1 DEF ChatInv, OnlyRows
    <3>2. messages \in Seq(AuthorRows) /\ messages' = Append(messages, sends[n].row)
      BY <1>1, <2>1 DEF ChatInv, OnlyRows
    <3>3. messages' \in Seq(AuthorRows)
      BY <3>1, <3>2, AppendProperties
    <3>4. ToSet(messages') = ToSet(messages) \cup {sends[n].row}
      BY <3>1, <3>2, ToSetOfAppend
    <3> QED  BY <3>1, <3>3, <3>4
  <2>2. CASE sends[n].at # "resolved"
    BY <1>1, <2>2 DEF ChatInv, OnlyRows
  <2> QED  BY <2>1, <2>2
<1>4. OnlyRows'
  BY <1>1, <1>2, <1>3 DEF ChatInv, OnlyRows, AuthorRows
<1>5. StoreIsDrawn'
  BY <1>1, <1>3 DEF ChatInv, StoreIsDrawn
<1>6. messages' \in Seq(Rows)
  BY <1>3, ChatTyped, SeqOfRows DEF AuthorRows
<1>7. ChatTypeOK'
  BY <1>1, <1>2, <1>6 DEF ChatInv, ChatTypeOK
<1>8. Untouched'
  BY <1>1, CalledWhenMounted DEF Untouched
<1> QED  BY <1>4, <1>5, <1>7, <1>8 DEF ChatInv

(* The type and the rows, when no row is new. *)
LEMMA RowsMove ==
  ASSUME ChatInv, UNCHANGED authors,
         pushes' \in Seq(AuthorRows), arriving' \in Seq(AuthorRows),
         pre_rendered' \in Seq(AuthorRows), chatMessages' \in Seq(AuthorRows),
         messages' \in Seq(AuthorRows),
         connected' \in BOOLEAN, mounted' \in BOOLEAN, importing' \in BOOLEAN, undrawn' \in BOOLEAN,
         sends' \in Seq(SendCall),
         \A m \in DOMAIN sends' : sends'[m].at = "resolved" =>
           \E k \in DOMAIN sends : sends'[m] = sends[k]
  PROVE  ChatTypeOK' /\ OnlyRows'
<1>1. OnlyRows'
  <2>1. ASSUME NEW m \in DOMAIN sends', sends'[m].at = "resolved"
        PROVE  sends'[m].row \in AuthorRows /\ authors[sends'[m].row] = "me"
    <3>1. PICK k \in DOMAIN sends : sends'[m] = sends[k]
      BY <2>1
    <3> QED  BY <2>1, <3>1 DEF ChatInv, OnlyRows
  <2>2. AuthorRows' = AuthorRows
    BY DEF AuthorRows
  <2>3. /\ pushes' \in Seq(AuthorRows') /\ arriving' \in Seq(AuthorRows')
        /\ pre_rendered' \in Seq(AuthorRows')
        /\ chatMessages' \in Seq(AuthorRows') /\ messages' \in Seq(AuthorRows')
    BY <2>2
  <2>4. \A m \in DOMAIN sends' : sends'[m].at = "resolved" =>
          sends'[m].row \in AuthorRows' /\ authors'[sends'[m].row] = "me"
    BY <2>1, <2>2
  <2> QED  BY <2>3, <2>4 DEF OnlyRows
<1>2. /\ pushes' \in Seq(Rows) /\ arriving' \in Seq(Rows) /\ pre_rendered' \in Seq(Rows)
      /\ chatMessages' \in Seq(Rows) /\ messages' \in Seq(Rows)
  BY ChatTyped, SeqOfRows DEF AuthorRows
<1> QED  BY <1>1, <1>2 DEF ChatInv, ChatTypeOK

LEMMA ChatStep == ChatInv /\ [ChatNext]_chatVars => ChatInv'
<1> SUFFICES ASSUME ChatInv, [ChatNext]_chatVars PROVE ChatInv'
  OBVIOUS
<1>1. CASE OtherWrites
  <2>1. /\ Len(authors) < MaxMessages /\ authors' = Append(authors, "other")
        /\ pushes' = Append(pushes, Len(authors'))
        /\ UNCHANGED <<connected, arriving, pre_rendered, mounted, importing, chatMessages,
                       undrawn, messages, sends>>
    BY <1>1 DEF OtherWrites
  <2>2. /\ authors' \in Seq({"me", "other"}) /\ Len(authors') \in Nat
        /\ Len(authors') <= MaxMessages /\ Len(authors') \in AuthorRows'
        /\ AuthorRows \subseteq AuthorRows'
        /\ \A row \in AuthorRows : authors'[row] = authors[row]
    BY <2>1, NewRow
  <2>3. pushes' \in Seq(AuthorRows')
    <3>1. pushes \in Seq(AuthorRows')
      BY <2>2 DEF ChatInv, OnlyRows
    <3> QED  BY <2>1, <2>2, <3>1, AppendProperties
  <2>4. OnlyRows'
    <3>1. /\ arriving \in Seq(AuthorRows') /\ pre_rendered \in Seq(AuthorRows')
          /\ chatMessages \in Seq(AuthorRows') /\ messages \in Seq(AuthorRows')
      BY <2>2 DEF ChatInv, OnlyRows
    <3>2. /\ arriving' \in Seq(AuthorRows') /\ pre_rendered' \in Seq(AuthorRows')
          /\ chatMessages' \in Seq(AuthorRows') /\ messages' \in Seq(AuthorRows')
      BY <2>1, <3>1
    <3>3. \A n \in DOMAIN sends' : sends'[n].at = "resolved" =>
            sends'[n].row \in AuthorRows' /\ authors'[sends'[n].row] = "me"
      BY <2>1, <2>2 DEF ChatInv, OnlyRows
    <3> QED  BY <2>3, <3>2, <3>3 DEF OnlyRows
  <2>5. pushes' \in Seq(Rows)
    BY <2>2, <2>3, SeqOfRows DEF AuthorRows
  <2>6. ChatTypeOK'
    BY <2>1, <2>2, <2>5 DEF ChatInv, ChatTypeOK
  <2>7. Untouched'
    BY <2>1 DEF ChatInv, Untouched
  <2> QED  BY <2>1, <2>4, <2>6, <2>7, NewRowKeeps DEF ChatInv
<1>2. CASE Identify
  <2>1. connected' \in BOOLEAN
    BY <1>2 DEF Identify
  <2>2. ChatTypeOK' /\ OnlyRows'
    BY <1>2, <2>1, RowsMove DEF Identify, ChatInv, ChatTypeOK, OnlyRows
  <2> QED  BY <1>2, <2>2 DEF Identify, ChatInv, StoreIsDrawn, Untouched
<1>3. CASE Push
  <2>1. Tail(pushes) \in Seq(AuthorRows) /\ Head(pushes) \in AuthorRows
    BY <1>3, MovesOn DEF Push, ChatInv, OnlyRows
  <2>2. Append(arriving, Head(pushes)) \in Seq(AuthorRows)
    BY <2>1, AppendProperties DEF ChatInv, OnlyRows
  <2>3. ChatTypeOK' /\ OnlyRows'
    BY <1>3, <2>1, <2>2, RowsMove DEF Push, ChatInv, ChatTypeOK, OnlyRows
  <2> QED  BY <1>3, <2>3 DEF Push, ChatInv, StoreIsDrawn, Untouched
<1>4. CASE addMessage
  <2>1. Tail(arriving) \in Seq(AuthorRows) /\ Head(arriving) \in AuthorRows
    BY <1>4, MovesOn DEF addMessage, ChatInv, OnlyRows
  <2>2. Append(chatMessages, Head(arriving)) \in Seq(AuthorRows)
    BY <2>1, AppendProperties DEF ChatInv, OnlyRows
  <2>3. ChatTypeOK' /\ OnlyRows'
    BY <1>4, <2>1, <2>2, RowsMove DEF addMessage, ChatInv, ChatTypeOK, OnlyRows
  <2> QED  BY <1>4, <2>3 DEF addMessage, ChatInv, StoreIsDrawn, Untouched
<1>5. CASE Mount
  <2>1. mounted' \in BOOLEAN /\ importing' \in BOOLEAN
    BY <1>5 DEF Mount
  <2>2. ChatTypeOK' /\ OnlyRows'
    BY <1>5, <2>1, RowsMove DEF Mount, ChatInv, ChatTypeOK, OnlyRows
  <2> QED  BY <1>5, <2>2 DEF Mount, ChatInv, StoreIsDrawn, Untouched
<1>6. CASE setMessages
  <2>1. importing' \in BOOLEAN /\ undrawn' \in BOOLEAN
    BY <1>6 DEF setMessages
  <2>2. ChatTypeOK' /\ OnlyRows'
    BY <1>6, <2>1, RowsMove DEF setMessages, ChatInv, ChatTypeOK, OnlyRows
  <2> QED  BY <1>6, <2>2 DEF setMessages, ChatInv, StoreIsDrawn, Untouched
<1>7. CASE DrawStore
  <2>1. undrawn' \in BOOLEAN
    BY <1>7 DEF DrawStore
  <2>2. ChatTypeOK' /\ OnlyRows'
    BY <1>7, <2>1, RowsMove DEF DrawStore, ChatInv, ChatTypeOK, OnlyRows
  <2> QED  BY <1>7, <2>2 DEF DrawStore, ChatInv, StoreIsDrawn, Untouched
<1>8. CASE createMessage
  <2> DEFINE call == [at |-> "sent", row |-> 0, seen |-> messages]
  <2>1. call \in SendCall /\ call.at = "sent"
    BY ChatTyped DEF SendCall, ChatInv, ChatTypeOK
  <2>2. sends' = Append(sends, call)
    BY <1>8 DEF createMessage
  <2> HIDE DEF call
  <2>3. /\ sends' \in Seq(SendCall) /\ Len(sends') = Len(sends) + 1
        /\ \A m \in 1..Len(sends) : sends'[m] = sends[m]
        /\ sends'[Len(sends) + 1] = call
    BY <2>1, <2>2, ChatTyped, AppendProperties
  <2>4. DOMAIN sends' = DOMAIN sends \cup {Len(sends) + 1}
    BY <2>3, ChatTyped
  <2>5. \A m \in DOMAIN sends' : sends'[m].at = "resolved" =>
          \E k \in DOMAIN sends : sends'[m] = sends[k]
    BY <2>1, <2>3, <2>4, ChatTyped
  <2>6. ChatTypeOK' /\ OnlyRows'
    BY <1>8, <2>3, <2>5, RowsMove DEF createMessage, ChatInv, ChatTypeOK, OnlyRows
  <2> QED  BY <1>8, <2>6 DEF createMessage, ChatInv, StoreIsDrawn, Untouched
<1>9. ASSUME NEW n \in Rows, AnswerMessage(n) PROVE ChatInv'
  BY <1>9, AnswerKeeps DEF AnswerMessage
<1>10. ASSUME NEW n \in Rows, MessageAnswered(n) PROVE ChatInv'
  BY <1>10, MessageAnsweredKeeps DEF MessageAnswered
<1>11. CASE UNCHANGED chatVars
  <2>1. ChatTypeOK' /\ OnlyRows'
    BY <1>11, RowsMove DEF chatVars, ChatInv, ChatTypeOK, OnlyRows
  <2> QED  BY <1>11, <2>1 DEF chatVars, ChatInv, StoreIsDrawn, Untouched
<1> QED  BY <1>1, <1>2, <1>3, <1>4, <1>5, <1>6, <1>7, <1>8, <1>9, <1>10, <1>11 DEF ChatNext

THEOREM ChatCorrect == ChatSpec => []ChatInv
  BY ChatStart, ChatStep, PTL DEF ChatSpec

(* The store loses nothing once it was filled. *)
LEMMA StoreGrows ==
  ASSUME NEW row \in Rows
  PROVE  ChatInv /\ InStore(row) /\ [ChatNext]_chatVars => InStore(row)'
<1> SUFFICES ASSUME ChatInv, InStore(row), [ChatNext]_chatVars PROVE InStore(row)'
  OBVIOUS
<1>1. CASE addMessage
  <2>1. Head(arriving) \in AuthorRows /\ chatMessages \in Seq(AuthorRows)
    BY <1>1, MovesOn DEF addMessage, ChatInv, OnlyRows
  <2>2. ToSet(chatMessages') = ToSet(chatMessages) \cup {Head(arriving)}
    BY <1>1, <2>1, ToSetOfAppend DEF addMessage
  <2> QED  BY <1>1, <2>2 DEF addMessage, InStore
<1>2. CASE ~addMessage
  <2>1. UNCHANGED <<mounted, importing, chatMessages>> \/ Mount \/ setMessages
    BY <1>2 DEF ChatNext, chatVars, OtherWrites, Identify, Push, DrawStore, createMessage,
                AnswerMessage, MessageAnswered
  <2>2. mounted /\ ~importing
    BY DEF InStore
  <2>3. UNCHANGED <<mounted, importing, chatMessages>>
    BY <2>1, <2>2 DEF Mount, setMessages
  <2> QED  BY <2>3 DEF InStore
<1> QED  BY <1>1, <1>2

(* Whatever is sent, received, answered and drawn anew, in any order and   *)
(* for any number of messages, from the page that the server drew on: a    *)
(* message of the other user is lost by the component that finds the store *)
(* begun, by the end of the import it came before, and by no other step.   *)
THEOREM WhatIsDrawnStays == ChatSpec => DrawnStays
<1> DEFINE NoneLost ==
      \A row \in Held :
        authors[row] = "other" => row \in Held' \/ ReplacedByStore(row) \/ CameInVain(row)
<1>1. ChatInv /\ ChatInv' /\ [ChatNext]_chatVars => [NoneLost]_chatVars
  <2> SUFFICES ASSUME ChatInv, ChatInv', ChatNext, NEW row \in Held, authors[row] = "other"
               PROVE  row \in Held' \/ ReplacedByStore(row) \/ CameInVain(row)
    OBVIOUS
  <2>1. CASE ~mounted
    <3>1. ~undrawn /\ ~importing /\ sends = <<>> /\ row \in ToSet(messages)
          /\ messages = pre_rendered
      BY <2>1 DEF ChatInv, Untouched, Held
    <3>2. CASE Mount
      BY <3>1, <3>2 DEF Mount, Held, ReplacedByStore
    <3>3. CASE ~Mount
      <4>1. UNCHANGED messages /\ ~undrawn'
        BY <2>1, <3>1, <3>3 DEF ChatNext, OtherWrites, Identify, Push, addMessage, setMessages,
             DrawStore, createMessage, AnswerMessage, MessageAnswered
      <4> QED  BY <3>1, <4>1 DEF Held
    <3> QED  BY <3>2, <3>3
  <2>2. CASE mounted /\ setMessages
    BY <2>2 DEF setMessages, Held, CameInVain, ChatInv, StoreIsDrawn
  <2>3. CASE mounted /\ ~setMessages
    <3>1. /\ UNCHANGED <<mounted, importing, pre_rendered>>
          /\ addMessage \/ UNCHANGED chatMessages
      BY <2>3 DEF ChatNext, OtherWrites, Identify, Push, addMessage, Mount, DrawStore,
           createMessage, AnswerMessage, MessageAnswered
    <3>2. CASE importing /\ row \in ToSet(pre_rendered)
      BY <3>1, <3>2 DEF Held
    <3>3. CASE ~(importing /\ row \in ToSet(pre_rendered))
      <4>1. row \in ToSet(chatMessages)
        BY <2>3, <3>3 DEF Held, ChatInv, StoreIsDrawn
      <4>2. row \in ToSet(chatMessages')
        <5>1. CASE addMessage
          <6>1. Head(arriving) \in AuthorRows /\ chatMessages \in Seq(AuthorRows)
            BY <5>1, MovesOn DEF addMessage, ChatInv, OnlyRows
          <6> QED  BY <4>1, <5>1, <6>1, ToSetOfAppend DEF addMessage
        <5> QED  BY <3>1, <4>1, <5>1
      <4>3. ~undrawn' => row \in ToSet(messages')
        BY <2>3, <3>1, <4>2 DEF ChatInv, StoreIsDrawn
      <4> QED  BY <4>2, <4>3 DEF Held
    <3> QED  BY <3>2, <3>3
  <2> QED  BY <2>1, <2>2, <2>3
<1>2. [][NoneLost]_chatVars => DrawnStays
  BY DEF DrawnStays
<1> QED  BY <1>1, <1>2, ChatStep, ChatCorrect, PTL DEF ChatSpec

(* Once a message of the other user was drawn from the filled store, it is *)
(* drawn whenever the drawing is up to date.                               *)
THEOREM DrawnForGood ==
  ASSUME NEW row \in Rows
  PROVE  ChatSpec =>
           [](Settled /\ Drawn(row) /\ authors[row] = "other" => [](Settled => Drawn(row)))
<1>1. ChatInv /\ Settled /\ Drawn(row) /\ authors[row] = "other" => InStore(row)
  BY DEF ChatInv, StoreIsDrawn, Settled, Drawn, InStore
<1>2. ChatInv /\ InStore(row) /\ [ChatNext]_chatVars => InStore(row)'
  BY StoreGrows
<1>3. ChatInv /\ InStore(row) /\ Settled => Drawn(row)
  BY DEF ChatInv, StoreIsDrawn, Settled, Drawn, InStore
<1> QED  BY <1>1, <1>2, <1>3, ChatCorrect, PTL DEF ChatSpec

-----------------------------------------------------------------------------
(* The search of users. A request that is about to insert found none of    *)
(* its pair among the rows it saw, and rows are only appended: a second    *)
(* chat of a pair is one that its request could not have seen.             *)

Pair(c) == {c.user1, c.user2}

(* What a request knows of the rows. *)
Knows(r, rows, among) ==
  /\ r.at = "insert" =>
       /\ r.seen <= Len(rows)
       /\ \A c \in DOMAIN rows : Pair(rows[c]) = {r.from, r.to} => r.seen < c
  /\ r.at = "resolved" => r.chat \in DOMAIN rows /\ Pair(rows[r.chat]) = {r.from, r.to}
  /\ r.from = Me => r.to \in among

Informed == \A n \in DOMAIN opening : Knows(opening[n], chats, picked)

ChatSearchInv ==
  /\ ChatSearchTypeOK
  /\ Informed
  /\ TwinsWereConcurrent
  /\ OpenedWasChosen
-----------------------------------------------------------------------------
LEMMA ChatSearchStart == ChatSearchInit => ChatSearchInv
<1> SUFFICES ASSUME ChatSearchInit PROVE ChatSearchInv
  OBVIOUS
<1>1. location \notin Nat
  BY ChatSearchAssumption DEF ChatSearchInit
<1>2. chats \in Seq(Chat) /\ opening \in Seq(Opening) /\ DOMAIN chats = {} /\ DOMAIN opening = {}
  BY DEF ChatSearchInit
<1>3. lookups \in Seq({"sent", "resolved", "rejected", "over"}) /\ Len(lookups) <= MaxAsks
  BY ChatSearchAssumption DEF ChatSearchInit
<1>4. ChatSearchTypeOK
  BY <1>2, <1>3 DEF ChatSearchInit, ChatSearchTypeOK, QueryTexts
<1> QED  BY <1>1, <1>2, <1>4
         DEF ChatSearchInv, Informed, TwinsWereConcurrent, OpenedWasChosen

(* The table, the requests and the place stay: nothing but the type is left. *)
LEMMA BoxOnly ==
  ASSUME ChatSearchInv, UNCHANGED <<chats, opening, location, picked>>
  PROVE  Informed' /\ TwinsWereConcurrent' /\ OpenedWasChosen'
  BY DEF ChatSearchInv, Informed, Knows, Pair, TwinsWereConcurrent, OpenedWasChosen

LEMMA LookupTyped ==
  ASSUME ChatSearchTypeOK, Lookup
  PROVE  /\ lookups' \in Seq({"sent", "resolved", "rejected", "over"}) /\ Len(lookups') <= MaxAsks
         /\ isSearching' \in BOOLEAN /\ UNCHANGED <<searchResults, showResults>>
<1>1. Len(lookups) < MaxAsks
  BY ChatSearchAssumption DEF ChatSearchTypeOK, Lookup, Asks
<1> QED  BY <1>1, ChatSearchAssumption DEF ChatSearchTypeOK, Lookup
-----------------------------------------------------------------------------
(* Rows, requests and the page. *)

LEMMA WhereTyped ==
  ASSUME ChatSearchTypeOK, location \in Nat
  PROVE  location \in DOMAIN chats
  BY ChatSearchAssumption DEF ChatSearchTypeOK

LEMMA RequestTyped ==
  ASSUME NEW from \in Users, NEW to \in Users
  PROVE  /\ Request(from, to) \in Opening
         /\ Request(from, to).at = "look"
         /\ Request(from, to).from = from /\ Request(from, to).to = to
  BY DEF Request, Opening

LEMMA Asked ==
  ASSUME ChatSearchInv, NEW r \in Opening, opening' = Append(opening, r), UNCHANGED chats,
         picked \subseteq picked', r.at = "look", r.from = Me => r.to \in picked'
  PROVE  opening' \in Seq(Opening) /\ Informed'
<1>1. /\ opening' \in Seq(Opening) /\ DOMAIN opening' = 1..Len(opening) + 1
      /\ \A n \in 1..Len(opening) : opening'[n] = opening[n]
      /\ opening'[Len(opening) + 1] = r
      /\ DOMAIN opening = 1..Len(opening) /\ Len(opening) \in Nat
  BY DEF ChatSearchInv, ChatSearchTypeOK
<1>2. ASSUME NEW n \in 1..Len(opening) PROVE Knows(opening'[n], chats', picked')
  BY <1>1 DEF ChatSearchInv, Informed, Knows
<1>3. Knows(r, chats', picked')
  BY DEF Knows
<1> QED  BY <1>1, <1>2, <1>3 DEF Informed

LEMMA Moved ==
  ASSUME ChatSearchInv, NEW n \in DOMAIN opening, NEW r \in Opening,
         opening' = [opening EXCEPT ![n] = r], UNCHANGED <<chats, picked>>, Knows(r, chats, picked)
  PROVE  opening' \in Seq(Opening) /\ Informed'
<1>1. opening' \in Seq(Opening)
  BY DEF ChatSearchInv, ChatSearchTypeOK
<1>2. ASSUME NEW k \in DOMAIN opening' PROVE Knows(opening'[k], chats', picked')
  <2>1. k \in DOMAIN opening /\ opening'[k] = IF k = n THEN r ELSE opening[k]
    BY <1>2 DEF ChatSearchInv, ChatSearchTypeOK
  <2>2. Knows(opening'[k], chats, picked)
    BY <2>1 DEF ChatSearchInv, Informed
  <2> QED  BY <2>2 DEF Knows
<1> QED  BY <1>1, <1>2 DEF Informed

LEMMA Inserted ==
  ASSUME ChatSearchInv, NEW row \in Chat, chats' = Append(chats, row), UNCHANGED picked
  PROVE  /\ chats' \in Seq(Chat) /\ DOMAIN chats \subseteq DOMAIN chats'
         /\ Len(chats') = Len(chats) + 1 /\ Len(chats') \in DOMAIN chats'
         /\ chats'[Len(chats')] = row
         /\ \A c \in DOMAIN chats : chats'[c] = chats[c]
         /\ \A c \in DOMAIN chats' : c \in DOMAIN chats \/ c = Len(chats')
         /\ \A r \in Opening : Knows(r, chats, picked) => Knows(r, chats', picked')
<1>1. /\ chats' \in Seq(Chat) /\ DOMAIN chats \subseteq DOMAIN chats'
      /\ Len(chats') = Len(chats) + 1 /\ Len(chats') \in DOMAIN chats'
      /\ chats'[Len(chats')] = row
      /\ \A c \in DOMAIN chats : chats'[c] = chats[c]
      /\ \A c \in DOMAIN chats' : c \in DOMAIN chats \/ c = Len(chats')
      /\ Len(chats) \in Nat
  BY DEF ChatSearchInv, ChatSearchTypeOK
<1>2. ASSUME NEW r \in Opening, Knows(r, chats, picked) PROVE Knows(r, chats', picked')
  <2>1. r.seen \in Nat
    BY DEF Opening
  <2>2. ASSUME r.at = "insert", NEW c \in DOMAIN chats', Pair(chats'[c]) = {r.from, r.to}
        PROVE  r.seen < c
    <3>1. r.seen <= Len(chats) /\ \A d \in DOMAIN chats : Pair(chats[d]) = {r.from, r.to} => r.seen < d
      BY <1>2, <2>2 DEF Knows
    <3>2. CASE c \in DOMAIN chats
      BY <1>1, <2>2, <3>1, <3>2
    <3>3. CASE c = Len(chats) + 1
      BY <1>1, <2>1, <3>1, <3>3
    <3> QED  BY <1>1, <3>2, <3>3
  <2>3. r.at = "insert" => r.seen <= Len(chats')
    BY <1>1, <1>2, <2>1 DEF Knows
  <2>4. r.at = "resolved" => r.chat \in DOMAIN chats' /\ Pair(chats'[r.chat]) = {r.from, r.to}
    BY <1>1, <1>2 DEF Knows
  <2> QED  BY <1>2, <2>2, <2>3, <2>4 DEF Knows
<1> QED  BY <1>1, <1>2
-----------------------------------------------------------------------------
LEMMA ChatSearchStep == ChatSearchInv /\ [ChatSearchNext]_chatSearchVars => ChatSearchInv'
<1> SUFFICES ASSUME ChatSearchInv, [ChatSearchNext]_chatSearchVars PROVE ChatSearchInv'
  OBVIOUS
<1> USE DEF ChatSearchInv
<1>1. ASSUME NEW text \in QueryTexts, handleInputChange(text) PROVE ChatSearchInv'
  <2>1. ChatSearchTypeOK'
    BY <1>1 DEF handleInputChange, EffectRuns, ChatSearchTypeOK
  <2> QED  BY <1>1, <2>1, BoxOnly DEF handleInputChange
<1>2. CASE handleInputAgain
  <2>1. ChatSearchTypeOK'
    BY <1>2 DEF handleInputAgain, ChatSearchTypeOK
  <2> QED  BY <1>2, <2>1, BoxOnly DEF handleInputAgain
<1>3. CASE searchUsers
  <2>1. ChatSearchTypeOK'
    BY <1>3, LookupTyped DEF searchUsers, EffectRuns, ChatSearchTypeOK
  <2> QED  BY <1>3, <2>1, BoxOnly DEF searchUsers
<1>4. CASE FocusSearch \/ ClickOutside
  <2>1. ChatSearchTypeOK'
    BY <1>4 DEF FocusSearch, ClickOutside, ChatSearchTypeOK
  <2> QED  BY <1>4, <2>1, BoxOnly DEF FocusSearch, ClickOutside
<1>5. ASSUME NEW n \in DOMAIN lookups, AnswerLookup(n) PROVE ChatSearchInv'
  <2>1. ChatSearchTypeOK'
    BY <1>5 DEF AnswerLookup, Outcomes, ChatSearchTypeOK
  <2> QED  BY <1>5, <2>1, BoxOnly DEF AnswerLookup
<1>6. ASSUME NEW n \in DOMAIN lookups, LookupAnswered(n) PROVE ChatSearchInv'
  <2>1. searchResults' \subseteq Users /\ showResults' \in BOOLEAN
    BY <1>6 DEF LookupAnswered, ChatSearchTypeOK
  <2>2. /\ lookups' \in Seq({"sent", "resolved", "rejected", "over"})
        /\ Len(lookups') = Len(lookups)
    BY <1>6 DEF LookupAnswered, ChatSearchTypeOK
  <2>3. /\ isSearching' \in BOOLEAN /\ timeout' \in BOOLEAN /\ wasFound' \in BOOLEAN
        /\ UNCHANGED <<chats, opening, query, location, picked>>
    BY <1>6 DEF LookupAnswered, LookupEnds, EffectRuns, ChatSearchTypeOK
  <2>4. ChatSearchTypeOK'
    BY <2>1, <2>2, <2>3 DEF ChatSearchTypeOK
  <2> QED  BY <2>3, <2>4, BoxOnly
<1>7. ASSUME NEW user \in Users, handleUserSelect(user) PROVE ChatSearchInv'
  <2>1. /\ opening' = Append(opening, Request(Me, user)) /\ picked' = picked \cup {user}
        /\ UNCHANGED <<chats, location>>
    BY <1>7 DEF handleUserSelect
  <2>2. Me \in Users
    BY DEF Users
  <2>3. opening' \in Seq(Opening) /\ Informed'
    BY <2>1, <2>2, RequestTyped, Asked
  <2>4. ChatSearchTypeOK'
    BY <1>7, <2>3 DEF handleUserSelect, ChatSearchTypeOK
  <2>5. TwinsWereConcurrent' /\ OpenedWasChosen'
    BY <2>1 DEF TwinsWereConcurrent, OpenedWasChosen
  <2> QED  BY <2>3, <2>4, <2>5
<1>8. ASSUME NEW user \in Others, OtherOpensChat(user) PROVE ChatSearchInv'
  <2>1. /\ opening' = Append(opening, Request(user, Me))
        /\ UNCHANGED <<chats, searchBox, location, picked>>
    BY <1>8 DEF OtherOpensChat
  <2>2. user \in Users /\ Me \in Users /\ user # Me
    BY ChatSearchAssumption DEF Users
  <2>3. opening' \in Seq(Opening) /\ Informed'
    BY <2>1, <2>2, RequestTyped, Asked
  <2>4. ChatSearchTypeOK'
    BY <2>1, <2>3 DEF searchBox, ChatSearchTypeOK
  <2>5. TwinsWereConcurrent' /\ OpenedWasChosen'
    BY <2>1 DEF TwinsWereConcurrent, OpenedWasChosen
  <2> QED  BY <2>3, <2>4, <2>5
<1>9. ASSUME NEW n \in DOMAIN opening, LookUpChat(n) PROVE ChatSearchInv'
  <2> DEFINE r == opening[n]
  <2>1. r \in Opening /\ Knows(r, chats, picked) /\ r.at = "look" /\ Len(chats) \in Nat
    <3>1. r \in Opening /\ Len(chats) \in Nat
      BY DEF ChatSearchTypeOK
    <3>2. Knows(r, chats, picked)
      BY DEF Informed
    <3> QED  BY <1>9, <3>1, <3>2 DEF LookUpChat
  <2>2. UNCHANGED <<chats, searchBox, location, picked>>
    BY <1>9 DEF LookUpChat
  <2>3. PICK new \in Opening : opening' = [opening EXCEPT ![n] = new] /\ Knows(new, chats, picked)
    <3>1. CASE opening' = [opening EXCEPT ![n].at = "rejected"]
      <4>1. [r EXCEPT !.at = "rejected"] \in Opening /\ Knows([r EXCEPT !.at = "rejected"], chats, picked)
        BY <2>1 DEF Opening, Knows
      <4> QED  BY <3>1, <4>1
    <3>2. CASE /\ Existing(r.from, r.to) = {}
               /\ opening' = [opening EXCEPT ![n].at = "insert", ![n].seen = Len(chats)]
      <4> DEFINE new == [r EXCEPT !.at = "insert", !.seen = Len(chats)]
      <4>1. new \in Opening /\ new.from = r.from /\ new.to = r.to
            /\ new.at = "insert" /\ new.seen = Len(chats)
        BY <2>1 DEF Opening
      <4>2. \A c \in DOMAIN chats : Pair(chats[c]) # {r.from, r.to}
        BY <3>2 DEF Existing, Pair
      <4>3. Knows(new, chats, picked)
        BY <2>1, <4>1, <4>2 DEF Knows
      <4>4. opening' = [opening EXCEPT ![n] = new]
        BY <3>2
      <4> QED  BY <4>1, <4>3, <4>4
    <3>3. ASSUME NEW c \in Existing(r.from, r.to),
                 opening' = [opening EXCEPT ![n].at = "resolved", ![n].chat = c]
          PROVE  \E new \in Opening : opening' = [opening EXCEPT ![n] = new] /\ Knows(new, chats, picked)
      <4> DEFINE new == [r EXCEPT !.at = "resolved", !.chat = c]
      <4>1. c \in DOMAIN chats /\ c \in Nat /\ Pair(chats[c]) = {r.from, r.to}
        <5>1. c \in DOMAIN chats /\ Pair(chats[c]) = {r.from, r.to}
          BY <3>3 DEF Existing, Pair
        <5> QED  BY <5>1 DEF ChatSearchTypeOK
      <4>2. new \in Opening /\ new.from = r.from /\ new.to = r.to
            /\ new.at = "resolved" /\ new.chat = c
        BY <2>1, <4>1 DEF Opening
      <4>3. Knows(new, chats, picked)
        BY <2>1, <4>1, <4>2 DEF Knows
      <4>4. opening' = [opening EXCEPT ![n] = new]
        BY <3>3
      <4> QED  BY <4>2, <4>3, <4>4
    <3> QED  BY <1>9, <3>1, <3>2, <3>3 DEF LookUpChat
  <2>4. opening' \in Seq(Opening) /\ Informed'
    BY <2>2, <2>3, Moved
  <2>5. ChatSearchTypeOK'
    BY <2>2, <2>4 DEF searchBox, ChatSearchTypeOK
  <2>6. TwinsWereConcurrent' /\ OpenedWasChosen'
    BY <2>2 DEF TwinsWereConcurrent, OpenedWasChosen
  <2> QED  BY <2>4, <2>5, <2>6
<1>10. ASSUME NEW n \in DOMAIN opening, InsertChat(n) PROVE ChatSearchInv'
  <2> DEFINE r == opening[n]
  <2>1. r \in Opening /\ Knows(r, chats, picked) /\ r.at = "insert" /\ Len(chats) \in Nat
    <3>1. r \in Opening /\ Len(chats) \in Nat
      BY DEF ChatSearchTypeOK
    <3>2. Knows(r, chats, picked)
      BY DEF Informed
    <3> QED  BY <1>10, <3>1, <3>2 DEF InsertChat
  <2>2. UNCHANGED <<searchBox, location, picked>>
    BY <1>10 DEF InsertChat
  <2>3. CASE opening' = [opening EXCEPT ![n].at = "rejected"] /\ UNCHANGED chats
    <3>1. [r EXCEPT !.at = "rejected"] \in Opening /\ Knows([r EXCEPT !.at = "rejected"], chats, picked)
      BY <2>1 DEF Opening, Knows
    <3>2. opening' = [opening EXCEPT ![n] = [r EXCEPT !.at = "rejected"]]
      BY <2>3
    <3>3. opening' \in Seq(Opening) /\ Informed'
      BY <2>2, <2>3, <3>1, <3>2, Moved
    <3>4. ChatSearchTypeOK'
      BY <2>2, <2>3, <3>3 DEF searchBox, ChatSearchTypeOK
    <3>5. TwinsWereConcurrent' /\ OpenedWasChosen'
      BY <2>2, <2>3 DEF TwinsWereConcurrent, OpenedWasChosen
    <3> QED  BY <3>3, <3>4, <3>5
  <2>4. ASSUME NEW outcome \in {"resolved", "rejected"},
               chats' = Append(chats, [user1 |-> r.from, user2 |-> r.to, seen |-> r.seen]),
               opening' = [opening EXCEPT ![n].at = outcome, ![n].chat = Len(chats')]
        PROVE  ChatSearchInv'
    <3> DEFINE new == [user1 |-> r.from, user2 |-> r.to, seen |-> r.seen]
               done == [r EXCEPT !.at = outcome, !.chat = Len(chats')]
    <3>1. new \in Chat /\ new.user1 = r.from /\ new.user2 = r.to /\ new.seen = r.seen
      BY <2>1 DEF Chat, Opening
    <3>2. /\ chats' \in Seq(Chat) /\ DOMAIN chats \subseteq DOMAIN chats'
          /\ Len(chats') = Len(chats) + 1 /\ Len(chats') \in DOMAIN chats'
          /\ chats'[Len(chats')] = new
          /\ \A c \in DOMAIN chats : chats'[c] = chats[c]
          /\ \A c \in DOMAIN chats' : c \in DOMAIN chats \/ c = Len(chats')
          /\ \A q \in Opening : Knows(q, chats, picked) => Knows(q, chats', picked')
      BY <2>2, <2>4, <3>1, Inserted
    <3> HIDE DEF new
    <3>3. /\ done \in Opening /\ done.at = outcome /\ done.chat = Len(chats')
          /\ done.from = r.from /\ done.to = r.to
      <4>1. Len(chats') \in Nat
        BY <2>1, <3>2
      <4> QED  BY <2>1, <4>1 DEF Opening
    <3>4. opening' = [opening EXCEPT ![n] = done]
      BY <2>4
    <3> HIDE DEF done
    <3>5. opening' \in Seq(Opening)
      BY <3>3, <3>4 DEF ChatSearchTypeOK
    <3>6. Knows(done, chats', picked')
      BY <2>1, <2>2, <3>1, <3>2, <3>3 DEF Knows, Pair
    <3>7. ASSUME NEW k \in DOMAIN opening' PROVE Knows(opening'[k], chats', picked')
      <4>1. k \in DOMAIN opening /\ opening'[k] = IF k = n THEN done ELSE opening[k]
        BY <3>4 DEF ChatSearchTypeOK
      <4>2. opening[k] \in Opening /\ Knows(opening[k], chats, picked)
        BY <4>1 DEF ChatSearchTypeOK, Informed
      <4>3. CASE k = n
        <5>1. opening'[k] = done
          BY <4>1, <4>3
        <5> QED  BY <5>1, <3>6 DEF Knows
      <4>4. CASE k # n
        <5>1. opening'[k] = opening[k] /\ Knows(opening[k], chats', picked')
          BY <4>1, <4>2, <4>4, <3>2
        <5> QED  BY <5>1 DEF Knows
      <4> QED  BY <4>3, <4>4
    <3>8. ChatSearchTypeOK'
      BY <2>2, <3>2, <3>5 DEF searchBox, ChatSearchTypeOK
    <3>9. TwinsWereConcurrent'
      <4> SUFFICES ASSUME NEW i \in DOMAIN chats', NEW j \in DOMAIN chats', i < j,
                          {chats'[i].user1, chats'[i].user2} = {chats'[j].user1, chats'[j].user2}
                   PROVE  chats'[j].seen < i
        BY DEF TwinsWereConcurrent
      <4>1. i \in DOMAIN chats
        BY <3>2 DEF ChatSearchTypeOK
      <4>2. CASE j \in DOMAIN chats
        BY <3>2, <4>1, <4>2 DEF TwinsWereConcurrent
      <4>3. CASE j = Len(chats')
        BY <2>1, <3>1, <3>2, <4>1, <4>3 DEF Knows, Pair
      <4> QED  BY <3>2, <4>2, <4>3
    <3>10. OpenedWasChosen'
      BY <2>2, <3>2, WhereTyped DEF OpenedWasChosen
    <3> QED  BY <3>7, <3>8, <3>9, <3>10 DEF Informed
  <2> QED  BY <1>10, <2>3, <2>4 DEF InsertChat, Outcomes
<1>11. ASSUME NEW n \in DOMAIN opening, ChatOpened(n) PROVE ChatSearchInv'
  <2> DEFINE r == opening[n]
  <2>1. r \in Opening /\ Knows(r, chats, picked) /\ r.from = Me
    BY <1>11 DEF ChatOpened, ChatSearchTypeOK, Informed
  <2>2. /\ location' = (IF r.at = "resolved" THEN r.chat ELSE AllChats)
        /\ opening' = [opening EXCEPT ![n] = [r EXCEPT !.at = "over"]]
        /\ UNCHANGED <<chats, searchBox, picked>>
    BY <1>11 DEF ChatOpened, Opens
  <2>3. [r EXCEPT !.at = "over"] \in Opening /\ Knows([r EXCEPT !.at = "over"], chats, picked)
    BY <2>1 DEF Opening, Knows
  <2>4. opening' \in Seq(Opening) /\ Informed'
    BY <2>2, <2>3, Moved
  <2>5. r.at = "resolved" => r.chat \in DOMAIN chats /\ Pair(chats[r.chat]) = {Me, r.to} /\ r.to \in picked
    BY <2>1 DEF Knows
  <2>6. ChatSearchTypeOK'
    BY <2>2, <2>4, <2>5 DEF searchBox, ChatSearchTypeOK
  <2>7. OpenedWasChosen'
    BY <2>2, <2>5, ChatSearchAssumption DEF OpenedWasChosen, Pair
  <2>8. TwinsWereConcurrent'
    BY <2>2 DEF TwinsWereConcurrent
  <2> QED  BY <2>4, <2>6, <2>7, <2>8
<1>12. CASE UNCHANGED chatSearchVars
  <2>1. ChatSearchTypeOK'
    BY <1>12 DEF chatSearchVars, searchBox, ChatSearchTypeOK
  <2> QED  BY <1>12, <2>1, BoxOnly DEF chatSearchVars
<1> QED  BY <1>1, <1>2, <1>3, <1>4, <1>5, <1>6, <1>7, <1>8, <1>9, <1>10, <1>11, <1>12
     DEF ChatSearchNext

THEOREM ChatSearchCorrect == ChatSearchSpec => []ChatSearchInv
  BY ChatSearchStart, ChatSearchStep, PTL DEF ChatSearchSpec

(* Two users get a second chat only from requests that overlapped: of any  *)
(* number of requests for a pair, in either order of the two, one that     *)
(* looks after a chat was inserted takes it.                               *)
THEOREM TwinsAreConcurrent == ChatSearchSpec => []TwinsWereConcurrent
<1>1. ChatSearchInv => TwinsWereConcurrent
  BY DEF ChatSearchInv
<1> QED  BY <1>1, ChatSearchCorrect, PTL

(* The chat that is opened is one with somebody who was picked, for any    *)
(* number of users, searches and requests.                                 *)
THEOREM OpenedIsChosen == ChatSearchSpec => []OpenedWasChosen
<1>1. ChatSearchInv => OpenedWasChosen
  BY DEF ChatSearchInv
<1> QED  BY <1>1, ChatSearchCorrect, PTL

-----------------------------------------------------------------------------
(* All the pages. A step of one is a step of it or a stutter for every other *)
(* page, so what is proved of a page alone holds where they are together.    *)

AllInv ==
  /\ page \in Pages
  /\ ScheduleInv /\ ProductFormInv /\ SettingsInv /\ SearchInv /\ ChatInv
  /\ ShelfInv /\ ChatListInv /\ ChatSearchInv

LEMMA OnePageMoves ==
  ASSUME [PagesNext]_pagesVars
  PROVE  /\ page' = page
         /\ [ScheduleNext]_scheduleVars
         /\ [ProductFormNext]_productFormVars
         /\ [SettingsNext]_settingsVars
         /\ [SearchNext]_searchVars
         /\ [ChatNext]_chatVars
         /\ [ShelfNext]_shelfVars
         /\ [ChatListNext]_listVars
         /\ [ChatSearchNext]_chatSearchVars
<1>1. CASE UNCHANGED pagesVars
  BY <1>1 DEF pagesVars, formVars, readVars, chatsVars
<1>2. CASE OnSchedule /\ ScheduleNext
  BY <1>2 DEF OnSchedule, readVars, chatsVars
<1>3. CASE OnListing /\ ProductFormNext
  BY <1>3 DEF OnListing, readVars, chatsVars
<1>4. CASE OnSettings /\ SettingsNext
  BY <1>4 DEF OnSettings, readVars, chatsVars
<1>5. CASE OnSearch /\ SearchNext
  BY <1>5 DEF OnSearch, formVars, chatsVars
<1>6. CASE OnChat /\ ChatNext
  BY <1>6 DEF OnChat, formVars, chatsVars
<1>7. CASE OnShelf /\ ShelfNext
  BY <1>7 DEF OnShelf, formVars, chatsVars
<1>8. CASE OnChats /\ ChatListNext
  BY <1>8 DEF OnChats, formVars, readVars
<1>9. CASE OnChatSearch /\ ChatSearchNext
  BY <1>9 DEF OnChatSearch, formVars, readVars
<1> QED  BY <1>1, <1>2, <1>3, <1>4, <1>5, <1>6, <1>7, <1>8, <1>9 DEF PagesNext

LEMMA PagesStart == PagesInit => AllInv
  BY ScheduleStart, ProductFormStart, SettingsStart, SearchStart, ChatStart,
     ShelfStart, ChatListStart, ChatSearchStart
  DEF PagesInit, AllInv

LEMMA PagesStep == AllInv /\ [PagesNext]_pagesVars => AllInv'
  BY OnePageMoves, ScheduleStep, ProductFormStep, SettingsStep, SearchStep, ChatStep,
     ShelfStep, ChatListStep, ChatSearchStep
  DEF AllInv

(* Every page keeps its type for any constants, whichever page is open. *)
THEOREM PagesTyped == PagesSpec => []PagesTypeOK
<1>1. AllInv => PagesTypeOK
  <2> SUFFICES ASSUME AllInv PROVE PagesTypeOK
    OBVIOUS
  <2>1. /\ ScheduleTypeOK /\ ProductFormTypeOK /\ SettingsTypeOK /\ SearchTypeOK
        /\ ChatTypeOK /\ ShelfTypeOK /\ ChatListTypeOK /\ ChatSearchTypeOK
    BY DEF AllInv, ScheduleInv, ProductFormInv, SettingsInv, SearchInv, ChatInv,
           ShelfInv, ChatListInv, ChatSearchInv
  <2>2. page \in {"schedule", "listing", "settings", "search", "chat", "shelf", "chats",
                  "chat_search"}
    BY PagesAssumption DEF AllInv
  <2> QED  BY <2>1, <2>2 DEF PagesTypeOK
<1> QED  BY <1>1, PagesStart, PagesStep, PTL DEF PagesSpec

(* What the pages do together each could do alone; what remains to be said *)
(* of the schedule form and of the search of users is their fairness.      *)
THEOREM PagesAreApart ==
  PagesSpec =>
    /\ ScheduleInit /\ [][ScheduleNext]_scheduleVars
    /\ ProductFormSpec /\ SettingsSpec /\ SearchSpec /\ ChatSpec /\ ShelfSpec /\ ChatListSpec
    /\ ChatSearchInit /\ [][ChatSearchNext]_chatSearchVars
<1>1. PagesInit => /\ ScheduleInit /\ ProductFormInit /\ SettingsInit /\ SearchInit
                   /\ ChatInit /\ ShelfInit /\ ChatListInit /\ ChatSearchInit
  BY DEF PagesInit
<1> QED  BY <1>1, OnePageMoves, PTL
  DEF PagesSpec, ProductFormSpec, SettingsSpec, SearchSpec, ChatSpec, ShelfSpec, ChatListSpec
=============================================================================
