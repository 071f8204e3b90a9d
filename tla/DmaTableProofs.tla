--------------------------- MODULE DmaTableProofs ---------------------------
(* The page tables of quantum_dma_table_build for every page size, buffer  *)
(* size and segment size: a device that follows one meets every page of    *)
(* the buffer once and in order.  Table and Walk are recursive functions,  *)
(* so each proof has three parts: a closed form, which satisfies the       *)
(* equation of the recursion; that no other function does, because there   *)
(* is no least place where one could differ from it; and what the closed   *)
(* form says at the end of the recursion.                                  *)
EXTENDS DmaTable, SetInduction, SequenceTheorems, TLAPS

---------------------------------------------------------------------------
(* Quotients and remainders. *)
LEMMA DivMod ==
  ASSUME NEW d \in Nat \ {0}, NEW i \in Nat
  PROVE  /\ i \div d \in Nat /\ i % d \in 0..(d - 1)
         /\ i = (i \div d) * d + (i % d)
  OBVIOUS

LEMMA DivUnique ==
  ASSUME NEW d \in Nat \ {0}, NEW s \in Nat, NEW e \in 0..(d - 1)
  PROVE  (s * d + e) \div d = s /\ (s * d + e) % d = e
  OBVIOUS

LEMMA RoundUp ==
  ASSUME NEW n \in Nat, NEW d \in Nat \ {0}
  PROVE  /\ DivRoundUp(n, d) \in Nat
         /\ n <= DivRoundUp(n, d) * d
         /\ DivRoundUp(n, d) * d < n + d
         /\ n > 0 => DivRoundUp(n, d) > 0
<1> DEFINE q == (n + d - 1) \div d
<1>1. n + d - 1 \in Nat
  OBVIOUS
<1>2. q \in Nat /\ (n + d - 1) % d \in 0..(d - 1) /\ n + d - 1 = q * d + ((n + d - 1) % d)
  BY <1>1, DivMod
<1>3. q * d \in Nat
  BY <1>2
<1>4. n <= q * d /\ q * d < n + d
  BY <1>2, <1>3
<1>5. n > 0 => q > 0
  BY <1>2, <1>4
<1> QED BY <1>2, <1>4, <1>5 DEF DivRoundUp

---------------------------------------------------------------------------
(* What the table holds when k segments of it are filled. *)
Cell(i, k, segments, pages, per) ==
  LET s == i \div PerPage
      e == i % PerPage
  IN  IF s < k /\ e < per /\ s * per + e < pages THEN Entry("buffer", s * per + e)
      ELSE IF s < k /\ e = per /\ s + 1 < segments THEN Entry("table", s + 1)
      ELSE Empty
Filled(k, segments, pages, per) ==
  [area |-> [i \in 0..(segments * PerPage - 1) |-> Cell(i, k, segments, pages, per)],
   page |-> IF k * per < pages THEN k * per ELSE pages]

(* By segment and entry. *)
LEMMA CellAt ==
  ASSUME NEW k \in Nat, NEW segments \in Nat, NEW pages \in Nat, NEW per \in 1..(PerPage - 1),
         NEW s \in Nat, NEW e \in 0..(PerPage - 1)
  PROVE  Cell(s * PerPage + e, k, segments, pages, per) =
           IF s < k /\ e < per /\ s * per + e < pages THEN Entry("buffer", s * per + e)
           ELSE IF s < k /\ e = per /\ s + 1 < segments THEN Entry("table", s + 1)
           ELSE Empty
<1>1. (s * PerPage + e) \div PerPage = s /\ (s * PerPage + e) % PerPage = e
  BY PerPageAssumption, DivUnique
<1> QED  BY <1>1 DEF Cell

(* What goes into a segment when p pages are placed. *)
LEMMA Share ==
  ASSUME NEW per \in Nat \ {0}, NEW pages \in Nat, NEW p \in Nat, p < pages
  PROVE  /\ (IF per < pages - p THEN per ELSE pages - p) \in 1..per
         /\ p + (IF per < pages - p THEN per ELSE pages - p) =
              IF p + per < pages THEN p + per ELSE pages
  OBVIOUS

(* The loop body fills one segment more. *)
LEMMA FillStep ==
  ASSUME NEW pages \in Nat, NEW per \in 1..(PerPage - 1), NEW segments \in Nat,
         NEW k \in 0..(segments - 1), k * per < pages,
         (k + 1 < segments) <=> (k + 1) * per < pages
  PROVE  Fill(Filled(k, segments, pages, per), k, segments, pages, per)
           = Filled(k + 1, segments, pages, per)
<1> DEFINE now   == Filled(k, segments, pages, per)
           first == k * PerPage
           count == IF per < pages - k * per THEN per ELSE pages - k * per
           N     == segments * PerPage - 1
<1>0. PerPage \in Nat /\ PerPage > 0
  BY PerPageAssumption
<1>1. k * per \in Nat /\ (k + 1) * per = k * per + per
  OBVIOUS
<1>2. now.page = k * per /\ now.area = [i \in 0..N |-> Cell(i, k, segments, pages, per)]
  BY DEF Filled
<1>3. count \in 1..per /\ now.page + count = IF (k + 1) * per < pages THEN (k + 1) * per ELSE pages
  <2>1. PICK p \in Nat : p = k * per /\ (k + 1) * per = p + per /\ p < pages
    BY <1>1
  <2>2. per \in Nat \ {0}
    BY <1>0
  <2> HIDE DEF now
  <2> QED  BY <1>2, <2>1, <2>2, Share
<1>4. ASSUME NEW i \in 0..N
      PROVE  (IF i \in first..(first + count - 1) THEN Entry("buffer", now.page + (i - first))
              ELSE IF i = first + count /\ k + 1 < segments THEN Entry("table", k + 1)
              ELSE now.area[i]) = Cell(i, k + 1, segments, pages, per)
  <2> DEFINE s == i \div PerPage
             e == i % PerPage
  <2>0. N \in Int /\ i \in Nat
    BY <1>0
  <2>1. s \in Nat /\ e \in 0..(PerPage - 1) /\ i = s * PerPage + e
    BY <2>0, PerPageAssumption, DivMod
  <2>2. now.area[i] = Cell(i, k, segments, pages, per)
    BY <1>2
  <2>3. s < k => i < first
    <3> SUFFICES ASSUME s < k PROVE i < first
      OBVIOUS
    <3>1. (s + 1) * PerPage <= k * PerPage
      BY <2>1, <1>0
    <3> QED  BY <3>1, <2>1, <1>0
  <2>4. s > k => i >= first + PerPage
    <3> SUFFICES ASSUME s > k PROVE i >= first + PerPage
      OBVIOUS
    <3>1. s * PerPage >= (k + 1) * PerPage
      BY <2>1, <1>0
    <3> QED  BY <3>1, <2>1, <1>0
  <2>5. s = k => i = first + e
    BY <2>1
  <2>6. /\ Cell(i, k, segments, pages, per) =
             IF s < k /\ e < per /\ s * per + e < pages THEN Entry("buffer", s * per + e)
             ELSE IF s < k /\ e = per /\ s + 1 < segments THEN Entry("table", s + 1)
             ELSE Empty
        /\ Cell(i, k + 1, segments, pages, per) =
             IF s < k + 1 /\ e < per /\ s * per + e < pages THEN Entry("buffer", s * per + e)
             ELSE IF s < k + 1 /\ e = per /\ s + 1 < segments THEN Entry("table", s + 1)
             ELSE Empty
    BY DEF Cell
  <2> HIDE DEF s, e, now
  <2>7. first \in Nat
    BY <1>0
  <2> HIDE DEF first
  <2>8. CASE s < k
    BY <2>8, <1>1, <1>3, <2>0, <2>1, <2>2, <2>3, <2>6, <2>7
  <2>9. CASE s > k
    <3>1. i >= first + PerPage /\ first + PerPage > first + count
      BY <2>9, <2>4, <1>3, <1>0, <2>7
    <3>2. count \in Nat
      BY <1>3
    <3> HIDE DEF count
    <3>3. i \notin first..(first + count - 1) /\ i # first + count
      BY <3>1, <3>2, <2>0, <2>7, <1>0
    <3>4. ~(s < k) /\ ~(s < k + 1)
      BY <2>9, <2>1
    <3> QED  BY <3>3, <3>4, <2>2, <2>6
  <2>10. CASE s = k
    <3>1. i = first + e /\ s * per = k * per
      BY <2>10, <2>5
    <3>2. e < count <=> e < per /\ s * per + e < pages
      BY <3>1, <2>1, <1>1
    <3>3. e = count /\ k + 1 < segments <=> e = per /\ s + 1 < segments
      BY <2>10, <1>1, <2>1
    <3>4. i \in first..(first + count - 1) <=> e < count
      BY <3>1, <2>1, <2>7, <1>3
    <3>5. i = first + count <=> e = count
      BY <3>1, <2>1, <2>7, <1>3
    <3>6. now.page + (i - first) = s * per + e
      <4>1. PICK p \in Nat : p = k * per
        BY <1>1
      <4>2. now.page = p /\ s * per = p
        BY <4>1, <3>1, <1>2
      <4>3. p + (i - first) = p + e
        BY <3>1, <2>1, <2>7
      <4> QED  BY <4>2, <4>3
    <3> HIDE DEF count
    <3> QED  BY <2>10, <3>2, <3>3, <3>4, <3>5, <3>6, <2>1, <2>2, <2>6
  <2> QED  BY <2>8, <2>9, <2>10, <2>1
<1>5. DOMAIN now.area = 0..N
  BY <1>2
<1> HIDE DEF now
<1>6. Fill(now, k, segments, pages, per) =
        [area |-> [i \in 0..N |-> Cell(i, k + 1, segments, pages, per)],
         page |-> IF (k + 1) * per < pages THEN (k + 1) * per ELSE pages]
  <2>1. Fill(now, k, segments, pages, per) =
          [area |-> [i \in DOMAIN now.area |->
             IF i \in first..(first + count - 1) THEN Entry("buffer", now.page + (i - first))
             ELSE IF i = first + count /\ k + 1 < segments THEN Entry("table", k + 1)
             ELSE now.area[i]],
           page |-> now.page + count]
    BY <1>2 DEF Fill
  <2> HIDE DEF first, count
  <2> QED  BY <2>1, <1>5, <1>4, <1>3
<1> QED  BY <1>6 DEF now, Filled

(* The number of segments is as small as it can be. *)
Fits(segments, pages, per) ==
  /\ segments > 0 /\ pages <= segments * per
  /\ \A k \in 0..(segments - 1) : k * per < pages
  /\ \A k \in 0..(segments - 1) : k + 1 < segments <=> (k + 1) * per < pages

LEMMA SegmentCount ==
  ASSUME NEW pages \in Nat \ {0}, NEW per \in Nat \ {0}, NEW segments \in Nat,
         segments = DivRoundUp(pages, per)
  PROVE  Fits(segments, pages, per)
<1>1. segments > 0 /\ pages <= segments * per /\ segments * per < pages + per
  BY RoundUp
<1>2. ASSUME NEW k \in 0..(segments - 1)
      PROVE  k * per < pages
  <2>1. (k + 1) * per <= segments * per /\ (k + 1) * per = k * per + per /\ k * per \in Nat
    OBVIOUS
  <2>2. segments * per \in Nat
    OBVIOUS
  <2> QED  BY <2>1, <2>2, <1>1
<1>3. ASSUME NEW k \in 0..(segments - 1)
      PROVE  k + 1 < segments <=> (k + 1) * per < pages
  <2>1. CASE k + 1 < segments
    <3>1. k + 1 \in 0..(segments - 1)
      BY <2>1
    <3> QED  BY <3>1, <1>2, <2>1
  <2>2. CASE k + 1 = segments
    <3>1. (k + 1) * per = segments * per
      BY <2>2
    <3> QED  BY <2>2, <3>1, <1>1
  <2> QED  BY <2>1, <2>2
<1> QED  BY <1>1, <1>2, <1>3 DEF Fits

(* The recursion ends with all segments filled. *)
LEMMA TableIs ==
  ASSUME NEW bytes, NEW per \in 1..(PerPage - 1), Pages(bytes) \in Nat \ {0}
  PROVE  Table(bytes, per)
           = Filled(Segments(bytes, per), Segments(bytes, per), Pages(bytes), per).area
<1> DEFINE pages    == Pages(bytes)
           segments == Segments(bytes, per)
           none     == [area |-> [i \in 0..(segments * PerPage - 1) |-> Empty], page |-> 0]
           Loop(f)  == f = [s \in 0..segments |->
                              IF s = 0 THEN none ELSE Fill(f[s - 1], s - 1, segments, pages, per)]
           closed   == [s \in 0..segments |-> Filled(s, segments, pages, per)]
<1>1. per \in Nat \ {0} /\ segments \in Nat /\ segments = DivRoundUp(pages, per)
  BY RoundUp, PerPageAssumption DEF Segments
<1>2. Table(bytes, per) = (CHOOSE f : Loop(f))[segments].area
  BY DEF Table
<1>3. Filled(0, segments, pages, per) = none
  <2>1. \A i \in 0..(segments * PerPage - 1) : Cell(i, 0, segments, pages, per) = Empty
    <3>1. ASSUME NEW i \in 0..(segments * PerPage - 1)
          PROVE  Cell(i, 0, segments, pages, per) = Empty
      <4>1. i \div PerPage \in Nat
        <5>1. i \in Nat
          BY <1>1, PerPageAssumption
        <5> QED  BY <5>1, DivMod, PerPageAssumption
      <4> QED  BY <4>1 DEF Cell
    <3> QED  BY <3>1
  <2>2. 0 * per = 0 /\ 0 < pages
    BY <1>1
  <2> HIDE DEF pages, segments
  <2> QED  BY <2>1, <2>2 DEF Filled
<1>4. \A s \in 1..segments : Fill(Filled(s - 1, segments, pages, per), s - 1, segments, pages, per)
                               = Filled(s, segments, pages, per)
  <2>1. ASSUME NEW s \in 1..segments
        PROVE  Fill(Filled(s - 1, segments, pages, per), s - 1, segments, pages, per)
                 = Filled(s, segments, pages, per)
    <3>1. PICK k \in 0..(segments - 1) : k = s - 1 /\ s = k + 1
      BY <1>1
    <3>2. k * per < pages /\ ((k + 1 < segments) <=> (k + 1) * per < pages)
      BY <1>1, SegmentCount DEF Fits
    <3> HIDE DEF pages, segments
    <3>3. Fill(Filled(k, segments, pages, per), k, segments, pages, per)
            = Filled(k + 1, segments, pages, per)
      BY <3>2, <1>1, FillStep DEF pages
    <3> QED  BY <3>3, <3>1
  <2> QED  BY <2>1
<1> HIDE DEF pages, segments, none
<1>5. Loop(closed)
  <2>1. ASSUME NEW s \in 0..segments
        PROVE  Filled(s, segments, pages, per) =
                 IF s = 0 THEN none ELSE Fill(closed[s - 1], s - 1, segments, pages, per)
    <3>1. CASE s = 0
      BY <3>1, <1>3
    <3>2. CASE s # 0
      <4>1. s \in 1..segments /\ s - 1 \in 0..segments
        BY <3>2, <1>1
      <4>2. closed[s - 1] = Filled(s - 1, segments, pages, per)
        BY <4>1
      <4> QED  BY <4>1, <4>2, <3>2, <1>4
    <3> QED  BY <3>1, <3>2
  <2> QED  BY <2>1
<1>6. PICK f : f = (CHOOSE g : Loop(g)) /\ Loop(f)
  BY <1>5
<1>7. \A s \in 0..segments : f[s] = Filled(s, segments, pages, per)
  <2> DEFINE T == {s \in 0..segments : f[s] = Filled(s, segments, pages, per)}
  <2>1. 0 \in T
    <3>1. 0 \in 0..segments
      BY <1>1
    <3>2. f[0] = none
      BY <3>1, <1>6
    <3> QED  BY <3>1, <3>2, <1>3
  <2>2. ASSUME NEW s \in 0..(segments - 1), s \in T
        PROVE  s + 1 \in T
    <3>1. s + 1 \in 0..segments /\ s + 1 # 0 /\ s + 1 \in 1..segments /\ (s + 1) - 1 = s
      BY <1>1
    <3>2. f[s + 1] = Fill(f[s], s, segments, pages, per)
      BY <3>1, <1>6
    <3>3. f[s] = Filled(s, segments, pages, per)
      BY <2>2
    <3>4. Fill(Filled(s, segments, pages, per), s, segments, pages, per)
            = Filled(s + 1, segments, pages, per)
      BY <3>1, <1>4
    <3> QED  BY <3>1, <3>2, <3>3, <3>4
  <2>3. \A s \in 0..segments : s \in T
    <3> HIDE DEF T
    <3> QED  BY <2>1, <2>2, <1>1, Inductive
  <2> QED  BY <2>3
<1> QED  BY <1>1, <1>2, <1>6, <1>7 DEF pages, segments

---------------------------------------------------------------------------
(* What the device meets from segment s on, with k segments to go. *)
Run(s, k, pages, per) ==
  [n \in 1..((IF (s + k) * per < pages THEN (s + k) * per ELSE pages) - s * per) |-> s * per + n - 1]

(* A table as quantum_dma_table_build leaves it. *)
Chained(table, segments, pages, per) ==
  \A s \in 0..(segments - 1) :
    /\ \A e \in 0..(per - 1) :
         /\ table[s * PerPage + e].to = "buffer" <=> s * per + e < pages
         /\ s * per + e < pages => table[s * PerPage + e].n = s * per + e
    /\ (table[s * PerPage + per].to = "table") <=> (s + 1 < segments)
    /\ s + 1 < segments => table[s * PerPage + per].n = s + 1

(* Such a table is built. *)
LEMMA TableChains ==
  ASSUME NEW bytes, NEW per \in 1..(PerPage - 1), Pages(bytes) \in Nat \ {0}
  PROVE  Chained(Table(bytes, per), Segments(bytes, per), Pages(bytes), per)
<1> DEFINE pages    == Pages(bytes)
           segments == Segments(bytes, per)
           table    == Table(bytes, per)
<1>1. per \in Nat \ {0} /\ segments \in Nat /\ pages \in Nat
  BY RoundUp, PerPageAssumption DEF Segments
<1>2. table = [i \in 0..(segments * PerPage - 1) |-> Cell(i, segments, segments, pages, per)]
  BY TableIs DEF Filled
<1> HIDE DEF pages, segments, table
<1>3. ASSUME NEW s \in 0..(segments - 1), NEW e \in 0..(PerPage - 1)
      PROVE  table[s * PerPage + e] =
               IF e < per /\ s * per + e < pages THEN Entry("buffer", s * per + e)
               ELSE IF e = per /\ s + 1 < segments THEN Entry("table", s + 1)
               ELSE Empty
  <2>1. s * PerPage + e \in 0..(segments * PerPage - 1)
    <3>1. (s + 1) * PerPage <= segments * PerPage
      BY <1>1, PerPageAssumption
    <3> QED  BY <3>1, <1>1, PerPageAssumption
  <2>2. table[s * PerPage + e] = Cell(s * PerPage + e, segments, segments, pages, per)
    BY <2>1, <1>2
  <2> QED  BY <2>2, <1>1, CellAt
<1>4. ASSUME NEW s \in 0..(segments - 1), NEW e \in 0..(per - 1)
      PROVE  /\ table[s * PerPage + e].to = "buffer" <=> s * per + e < pages
             /\ s * per + e < pages => table[s * PerPage + e].n = s * per + e
  <2>1. e \in 0..(PerPage - 1) /\ e < per /\ e # per
    BY PerPageAssumption
  <2>2. table[s * PerPage + e] = IF s * per + e < pages THEN Entry("buffer", s * per + e) ELSE Empty
    BY <2>1, <1>3
  <2> QED  BY <2>2 DEF Entry, Empty
<1>5. ASSUME NEW s \in 0..(segments - 1)
      PROVE  /\ (table[s * PerPage + per].to = "table") <=> (s + 1 < segments)
             /\ s + 1 < segments => table[s * PerPage + per].n = s + 1
  <2>1. per \in 0..(PerPage - 1) /\ ~(per < per)
    BY PerPageAssumption
  <2>2. table[s * PerPage + per] = IF s + 1 < segments THEN Entry("table", s + 1) ELSE Empty
    BY <2>1, <1>3
  <2> QED  BY <2>2 DEF Entry, Empty
<1> QED  BY <1>4, <1>5 DEF Chained, table, segments, pages

(* The device leaves a segment with the pages that are in it. *)
LEMMA PageRun ==
  ASSUME NEW table, NEW segments \in Nat, NEW pages \in Nat, NEW per \in Nat \ {0},
         Chained(table, segments, pages, per),
         NEW s \in 0..(segments - 1), s * per < pages
  PROVE  OnPage(table, per, s) = Run(s, 1, pages, per)
<1> DEFINE refers(e) == table[s * PerPage + e].to = "buffer"
           P(n)  == (\A e \in 0..(n - 1) : refers(e)) /\ (n < per => ~refers(n))
           last  == CHOOSE n \in 0..per : P(n)
           count == IF per < pages - s * per THEN per ELSE pages - s * per
<1>1. s * per \in Nat /\ (s + 1) * per = s * per + per
  OBVIOUS
<1>2. count \in 1..per
      /\ s * per + count = (IF s * per + per < pages THEN s * per + per ELSE pages)
  BY <1>1, Share
<1>3. \A e \in 0..(per - 1) : refers(e) <=> s * per + e < pages
  BY DEF Chained
<1>4. \A e \in 0..(per - 1) : s * per + e < pages => e < count
  BY <1>1
<1>5. \A e \in 0..(per - 1) : e < count => s * per + e < pages
  BY <1>1
<1> HIDE DEF count, refers
<1>6. \A e \in 0..(per - 1) : refers(e) <=> e < count
  BY <1>3, <1>4, <1>5
<1>7. P(count)
  BY <1>6, <1>2
<1>8. \A n \in 0..per : P(n) => n = count
  BY <1>6, <1>2
<1>9. last = count
  BY <1>7, <1>8, <1>2
<1> HIDE DEF last
<1>10. OnPage(table, per, s) = [e \in 1..last |-> table[s * PerPage + e - 1].n]
  BY DEF OnPage, last, refers
<1>11. \A e \in 1..count : table[s * PerPage + e - 1].n = s * per + e - 1
  <2>1. ASSUME NEW e \in 1..count
        PROVE  table[s * PerPage + e - 1].n = s * per + e - 1
    <3>1. e - 1 \in 0..(per - 1) /\ e - 1 < count
      BY <1>2
    <3>2. s * per + (e - 1) < pages
      BY <3>1, <1>5
    <3>3. table[s * PerPage + (e - 1)].n = s * per + (e - 1)
      BY <3>1, <3>2 DEF Chained
    <3>4. s * PerPage \in Int
      BY PerPageAssumption
    <3>5. s * PerPage + (e - 1) = s * PerPage + e - 1 /\ s * per + (e - 1) = s * per + e - 1
      BY <3>4, <1>1, <1>2
    <3> QED  BY <3>3, <3>5
  <2> QED  BY <2>1
<1>12. Run(s, 1, pages, per) = [n \in 1..count |-> s * per + n - 1]
  <2>1. (IF (s + 1) * per < pages THEN (s + 1) * per ELSE pages) - s * per = count
    BY <1>1, <1>2
  <2> QED  BY <2>1 DEF Run
<1> QED  BY <1>9, <1>10, <1>11, <1>12

(* Counting up from a number, and counting on. *)
LEMMA Counting ==
  ASSUME NEW first \in Nat, NEW n \in Nat
  PROVE  /\ [i \in 1..n |-> first + i - 1] \in Seq(Nat)
         /\ Len([i \in 1..n |-> first + i - 1]) = n
<1>1. \A i \in 1..n : first + i - 1 \in Nat
  OBVIOUS
<1> QED  BY <1>1

LEMMA CountOn ==
  ASSUME NEW first \in Nat, NEW m \in Nat, NEW n \in Nat
  PROVE  [i \in 1..m |-> first + i - 1] \o [i \in 1..n |-> (first + m) + i - 1]
           = [i \in 1..(m + n) |-> first + i - 1]
<1> DEFINE a == [i \in 1..m |-> first + i - 1]
           b == [i \in 1..n |-> (first + m) + i - 1]
           c == [i \in 1..(m + n) |-> first + i - 1]
<1>1. a \in Seq(Nat) /\ Len(a) = m /\ b \in Seq(Nat) /\ Len(b) = n /\ c \in Seq(Nat) /\ Len(c) = m + n
  <2>1. first + m \in Nat /\ m + n \in Nat
    OBVIOUS
  <2> QED  BY <2>1, Counting
<1>2. \A i \in 1..m : a[i] = first + i - 1
  OBVIOUS
<1>3. \A i \in 1..n : b[i] = (first + m) + i - 1
  OBVIOUS
<1>4. \A i \in 1..(m + n) : c[i] = first + i - 1
  OBVIOUS
<1> HIDE DEF a, b, c
<1>5. /\ a \o b \in Seq(Nat) /\ Len(a \o b) = m + n
      /\ \A i \in 1..(m + n) : (a \o b)[i] = IF i <= m THEN a[i] ELSE b[i - m]
  BY <1>1, ConcatProperties
<1>6. \A i \in 1..(m + n) : (a \o b)[i] = c[i]
  <2>1. ASSUME NEW i \in 1..(m + n)
        PROVE  (a \o b)[i] = c[i]
    <3>1. CASE i <= m
      BY <3>1, <1>2, <1>4, <1>5
    <3>2. CASE ~(i <= m)
      <4>1. i - m \in 1..n
        BY <3>2
      <4>2. b[i - m] = (first + m) + (i - m) - 1
        BY <4>1, <1>3
      <4>3. (first + m) + (i - m) - 1 = first + i - 1
        OBVIOUS
      <4> QED  BY <3>2, <4>2, <4>3, <1>4, <1>5
    <3> QED  BY <3>1, <3>2
  <2> QED  BY <2>1
<1>7. a \o b = c
  BY <1>1, <1>5, <1>6, SeqEqual
<1> QED  BY <1>7 DEF a, b, c

(* Concatenation, with its definition hidden. *)
Joined(a, b) == a \o b

(* One segment and what follows it, and the last segment. *)
LEMMA RunOn ==
  ASSUME NEW pages \in Nat, NEW per \in Nat \ {0}, NEW s \in Nat, NEW t \in Nat, NEW k \in Nat,
         s < t, t <= s + 1, t * per < pages
  PROVE  Joined(Run(s, 1, pages, per), Run(t, k, pages, per)) = Run(s, k + 1, pages, per)
<1> DEFINE rest == (IF (t + k) * per < pages THEN (t + k) * per ELSE pages) - t * per
           p == s * per
<1>0. t = s + 1
  OBVIOUS
<1>1. /\ p \in Nat /\ (s + 1) * per = p + per /\ t * per = p + per /\ k * per \in Nat
      /\ (t + k) * per = p + per + k * per /\ (s + (k + 1)) * per = p + per + k * per
  BY <1>0
<1>2. /\ rest \in Nat
      /\ (IF (s + 1) * per < pages THEN (s + 1) * per ELSE pages) - p = per
      /\ (IF (s + (k + 1)) * per < pages THEN (s + (k + 1)) * per ELSE pages) - p = per + rest
  BY <1>1
<1> HIDE DEF rest
<1>3. Run(s, 1, pages, per) = [n \in 1..per |-> p + n - 1]
  BY <1>2 DEF Run
<1>4. Run(t, k, pages, per) = [n \in 1..rest |-> (p + per) + n - 1]
  BY <1>1 DEF Run, rest
<1>5. Run(s, k + 1, pages, per) = [n \in 1..(per + rest) |-> p + n - 1]
  BY <1>2 DEF Run
<1> HIDE DEF p
<1>6. [n \in 1..per |-> p + n - 1] \o [n \in 1..rest |-> (p + per) + n - 1]
        = [n \in 1..(per + rest) |-> p + n - 1]
  BY <1>1, <1>2, CountOn
<1> QED  BY <1>3, <1>4, <1>5, <1>6 DEF Joined

LEMMA RunEnds ==
  ASSUME NEW pages \in Nat, NEW per \in Nat \ {0}, NEW s \in Nat, NEW k \in Nat,
         s * per < pages, pages <= (s + 1) * per
  PROVE  Joined(Run(s, 1, pages, per), <<>>) = Run(s, k + 1, pages, per)
<1> DEFINE p == s * per
<1>1. p \in Nat /\ (s + 1) * per = p + per /\ k * per \in Nat
      /\ (s + (k + 1)) * per = p + per + k * per
  OBVIOUS
<1>2. /\ (IF (s + 1) * per < pages THEN (s + 1) * per ELSE pages) - p = pages - p
      /\ (IF (s + (k + 1)) * per < pages THEN (s + (k + 1)) * per ELSE pages) - p = pages - p
      /\ pages - p \in Nat
  BY <1>1
<1>3. Run(s, 1, pages, per) = [n \in 1..(pages - p) |-> p + n - 1]
  BY <1>2 DEF Run
<1>4. Run(s, k + 1, pages, per) = [n \in 1..(pages - p) |-> p + n - 1]
  BY <1>2 DEF Run
<1>5. [n \in 1..(pages - p) |-> p + n - 1] \in Seq(Nat)
  <2> HIDE DEF p
  <2> QED  BY <1>1, <1>2, Counting
<1> QED  BY <1>3, <1>4, <1>5, ConcatEmptySeq DEF Joined

(* One round of the recursion in Walk, and what it comes to after k rounds.*)
Round(k, next, table, per, segments) ==
  [s \in 0..segments |->
     IF k = 0 THEN <<>>
     ELSE IF s = segments THEN <<"beyond the table">>
     ELSE OnPage(table, per, s) \o
            IF table[s * PerPage + per].to = "table"
              THEN next[table[s * PerPage + per].n] ELSE <<>>]
Met(k, segments, pages, per) ==
  [s \in 0..segments |->
     IF k = 0 THEN <<>>
     ELSE IF s = segments THEN <<"beyond the table">>
     ELSE Run(s, k, pages, per)]

(* No pages are met in no rounds. *)
LEMMA MetAt ==
  ASSUME NEW pages \in Nat \ {0}, NEW per \in Nat \ {0}, NEW segments \in Nat,
         NEW k \in Nat, NEW s \in 0..(segments - 1), s * per < pages
  PROVE  Met(k, segments, pages, per)[s] = Run(s, k, pages, per)
<1>1. CASE k = 0
  <2>1. (IF (s + 0) * per < pages THEN (s + 0) * per ELSE pages) - s * per = 0
    OBVIOUS
  <2>2. Run(s, 0, pages, per) = <<>>
    BY <2>1 DEF Run
  <2> QED  BY <1>1, <2>2 DEF Met
<1>2. CASE k # 0
  <2>1. s \in 0..segments /\ s # segments
    OBVIOUS
  <2> QED  BY <1>2, <2>1, Zenon DEF Met
<1> QED  BY <1>1, <1>2

(* A round adds a segment to what k rounds come to. *)
LEMMA RoundStep ==
  ASSUME NEW table, NEW pages \in Nat \ {0}, NEW per \in Nat \ {0}, NEW segments \in Nat,
         Fits(segments, pages, per), Chained(table, segments, pages, per),
         NEW k \in Nat
  PROVE  Round(k + 1, Met(k, segments, pages, per), table, per, segments)
           = Met(k + 1, segments, pages, per)
<1> DEFINE next == Met(k, segments, pages, per)
<1>1. /\ \A s \in 0..(segments - 1) : s * per < pages
      /\ \A s \in 0..(segments - 1) : s + 1 < segments => (s + 1) * per < pages
      /\ pages <= segments * per
  BY DEF Fits
<1>2. \A s \in 0..(segments - 1) : next[s] = Run(s, k, pages, per)
  BY <1>1, MetAt
<1>3. \A s \in 0..(segments - 1) : OnPage(table, per, s) = Run(s, 1, pages, per)
  BY <1>1, PageRun
<1>4. \A s, t \in 0..(segments - 1) : s < t /\ t <= s + 1 =>
        Joined(Run(s, 1, pages, per), Run(t, k, pages, per)) = Run(s, k + 1, pages, per)
  <2>1. ASSUME NEW s \in 0..(segments - 1), NEW t \in 0..(segments - 1), s < t, t <= s + 1
        PROVE  Joined(Run(s, 1, pages, per), Run(t, k, pages, per)) = Run(s, k + 1, pages, per)
    <3>1. s \in Nat /\ t \in Nat /\ pages \in Nat /\ t * per < pages
      BY <1>1
    <3> QED  BY <2>1, <3>1, RunOn
  <2> QED  BY <2>1
<1>5. \A s \in 0..(segments - 1) : s + 1 = segments =>
        Joined(Run(s, 1, pages, per), <<>>) = Run(s, k + 1, pages, per)
  BY <1>1, RunEnds
<1> HIDE DEF next
<1>6. ASSUME NEW s \in 0..(segments - 1)
      PROVE  Joined(OnPage(table, per, s),
                    IF table[s * PerPage + per].to = "table"
                      THEN next[table[s * PerPage + per].n] ELSE <<>>) = Run(s, k + 1, pages, per)
  <2>1. /\ (table[s * PerPage + per].to = "table") <=> (s + 1 < segments)
        /\ s + 1 < segments => table[s * PerPage + per].n = s + 1
    BY DEF Chained
  <2>2. CASE s + 1 < segments
    <3>1. s + 1 \in 0..(segments - 1)
      BY <2>2
    <3>2. next[s + 1] = Run(s + 1, k, pages, per)
      BY <3>1, <1>2
    <3> QED  BY <3>1, <3>2, <2>1, <2>2, <1>3, <1>4
  <2>3. CASE s + 1 = segments
    <3>1. ~(table[s * PerPage + per].to = "table")
      BY <2>1, <2>3
    <3> QED  BY <3>1, <2>3, <1>3, <1>5
  <2> QED  BY <2>2, <2>3
<1>7. \A s \in 0..segments : s # segments => s \in 0..(segments - 1)
  OBVIOUS
<1>8. k + 1 # 0
  OBVIOUS
<1>9. Round(k + 1, next, table, per, segments) = Met(k + 1, segments, pages, per)
  BY <1>6, <1>7, <1>8, Zenon DEF Round, Met, Joined
<1> QED  BY <1>9 DEF next

(* The device meets the buffer. *)
LEMMA WalkIs ==
  ASSUME NEW table, NEW pages \in Nat \ {0}, NEW per \in Nat \ {0}, NEW segments \in Nat,
         Fits(segments, pages, per), Chained(table, segments, pages, per)
  PROVE  Walk(table, per, segments) = [n \in 1..pages |-> n - 1]
<1> DEFINE Loop(f) == f = [k \in 0..(segments + 1) |-> Round(k, f[k - 1], table, per, segments)]
           closed == [k \in 0..(segments + 1) |-> Met(k, segments, pages, per)]
<1>1. segments > 0 /\ pages <= segments * per
  BY DEF Fits
<1>2. Walk(table, per, segments) = (CHOOSE f : Loop(f))[segments + 1][0]
  BY DEF Walk, Round
<1>3. \A next : Round(0, next, table, per, segments) = Met(0, segments, pages, per)
  BY DEF Round, Met
<1>4. Loop(closed)
  <2>1. ASSUME NEW k \in 0..(segments + 1)
        PROVE  Met(k, segments, pages, per) = Round(k, closed[k - 1], table, per, segments)
    <3>1. CASE k = 0
      BY <3>1, <1>3
    <3>2. CASE k # 0
      <4>1. PICK j \in 0..segments : j = k - 1 /\ k = j + 1
        BY <3>2
      <4>2. closed[k - 1] = Met(j, segments, pages, per)
        BY <4>1
      <4>3. Round(j + 1, Met(j, segments, pages, per), table, per, segments)
              = Met(j + 1, segments, pages, per)
        BY RoundStep
      <4> HIDE DEF closed
      <4> QED  BY <4>1, <4>2, <4>3
    <3> QED  BY <3>1, <3>2
  <2> QED  BY <2>1
<1>5. PICK f : f = (CHOOSE g : Loop(g)) /\ Loop(f)
  <2> HIDE DEF Loop
  <2> QED  BY <1>4
<1>6. f[segments + 1] = Met(segments + 1, segments, pages, per)
  <2> DEFINE T == {k \in 0..(segments + 1) : f[k] = Met(k, segments, pages, per)}
  <2>1. 0 \in T
    <3>1. 0 \in 0..(segments + 1)
      OBVIOUS
    <3>2. f[0] = Round(0, f[0 - 1], table, per, segments)
      BY <3>1, <1>5
    <3> QED  BY <3>1, <3>2, <1>3
  <2>2. ASSUME NEW k \in 0..segments, k \in T
        PROVE  k + 1 \in T
    <3>1. k + 1 \in 0..(segments + 1) /\ (k + 1) - 1 = k
      OBVIOUS
    <3>2. f[k + 1] = Round(k + 1, f[k], table, per, segments)
      BY <3>1, <1>5
    <3>3. f[k] = Met(k, segments, pages, per)
      BY <2>2
    <3>4. Round(k + 1, Met(k, segments, pages, per), table, per, segments)
            = Met(k + 1, segments, pages, per)
      BY RoundStep
    <3> QED  BY <3>1, <3>2, <3>3, <3>4
  <2>3. \A k \in 0..(segments + 1) : k \in T
    <3>1. \A k \in 0..((segments + 1) - 1) : k \in 0..segments
      OBVIOUS
    <3>2. segments + 1 \in Nat
      OBVIOUS
    <3> HIDE DEF T
    <3> QED  BY <2>1, <2>2, <3>1, <3>2, Inductive
  <2>4. segments + 1 \in 0..(segments + 1)
    OBVIOUS
  <2>5. segments + 1 \in T
    <3> HIDE DEF T
    <3> QED  BY <2>3, <2>4
  <2> QED  BY <2>5
<1>7. Met(segments + 1, segments, pages, per)[0] = Run(0, segments + 1, pages, per)
  <2>1. PICK s \in 0..(segments - 1) : s = 0 /\ s * per < pages
    BY <1>1
  <2>2. PICK k \in Nat : k = segments + 1
    OBVIOUS
  <2>3. Met(k, segments, pages, per)[s] = Run(s, k, pages, per)
    BY <2>1, MetAt
  <2> QED  BY <2>1, <2>2, <2>3
<1>8. Run(0, segments + 1, pages, per) = [n \in 1..pages |-> n - 1]
  <2>1. (segments + 1) * per = segments * per + per /\ segments * per \in Nat
    OBVIOUS
  <2>2. (0 + (segments + 1)) * per = (segments + 1) * per /\ 0 * per = 0
    OBVIOUS
  <2>3. (IF (0 + (segments + 1)) * per < pages THEN (0 + (segments + 1)) * per ELSE pages) - 0 * per = pages
    BY <2>1, <2>2, <1>1
  <2>4. \A n \in 1..pages : 0 * per + n - 1 = n - 1
    BY <2>2
  <2> QED  BY <2>3, <2>4 DEF Run
<1> HIDE DEF Loop
<1> QED  BY <1>2, <1>5, <1>6, <1>7, <1>8

(* For every buffer that is not empty and every segment size that          *)
(* quantum_dma_table_build accepts, the device meets each page of the      *)
(* buffer once, in order, and then the end of the table, whether or not    *)
(* the last segment is full.                                               *)
THEOREM TablesReach ==
  \A bytes \in Nat \ {0}, per \in Nat :
    Accepts(per) =>
      Walk(Table(bytes, per), per, Segments(bytes, per)) = [n \in 1..Pages(bytes) |-> n - 1]
<1> TAKE bytes \in Nat \ {0}, per \in Nat
<1> HAVE Accepts(per)
<1>1. per \in 1..(PerPage - 1) /\ per \in Nat \ {0}
  BY PerPageAssumption DEF Accepts
<1>2. Pages(bytes) \in Nat \ {0}
  <2>1. PageSize \in Nat \ {0}
    BY PerPageAssumption DEF PageSize
  <2>2. DivRoundUp(bytes, PageSize) \in Nat /\ DivRoundUp(bytes, PageSize) > 0
    BY <2>1, RoundUp
  <2> QED  BY <2>2 DEF Pages
<1>3. Chained(Table(bytes, per), Segments(bytes, per), Pages(bytes), per)
  BY <1>1, <1>2, TableChains
<1>4. Segments(bytes, per) = DivRoundUp(Pages(bytes), per) /\ Segments(bytes, per) \in Nat
  BY <1>1, <1>2, RoundUp DEF Segments
<1>5. Fits(Segments(bytes, per), Pages(bytes), per)
  BY <1>1, <1>2, <1>4, SegmentCount
<1>6. PICK pages \in Nat \ {0}, segments \in Nat, table \in {Table(bytes, per)} :
        /\ table = Table(bytes, per) /\ pages = Pages(bytes) /\ segments = Segments(bytes, per)
        /\ Fits(segments, pages, per) /\ Chained(table, segments, pages, per)
  BY <1>2, <1>3, <1>4, <1>5
<1>7. Walk(table, per, segments) = [n \in 1..pages |-> n - 1]
  <2>1. Fits(segments, pages, per)
    BY <1>6
  <2>2. Chained(table, segments, pages, per)
    BY <1>6
  <2>3. per \in Nat \ {0}
    BY <1>1
  <2> QED  BY <2>1, <2>2, <2>3, WalkIs, ZenonT(40)
<1> QED  BY <1>6, <1>7
=============================================================================
