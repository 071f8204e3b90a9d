------------------------------ MODULE DmaTable ------------------------------
(* The page tables through which the device finds an audio buffer: what    *)
(* quantum_dma_table_build writes, and which pages a device meets that     *)
(* follows it.  A table is a sequence of pages, one for each segment, of   *)
(* PerPage entries; an entry is empty, or refers to a page of the buffer   *)
(* or to a segment of the table.                                           *)
EXTENDS Integers, Sequences

CONSTANT PerPage                    (* PAGE_SIZE / sizeof(__le64)           *)
ASSUME PerPageAssumption == PerPage \in Nat \ {0}

PageSize == 8 * PerPage

Entry(to, n) == [to |-> to, n |-> n]
Empty == Entry("nothing", 0)

DivRoundUp(n, d) == (n + d - 1) \div d
Pages(bytes) == DivRoundUp(bytes, PageSize)
Segments(bytes, per) == DivRoundUp(Pages(bytes), per)

(* The device reports how many addresses it takes from a segment; one more *)
(* entry must be left for the chain.                                       *)
Accepts(per) == per > 0 /\ per < PerPage

(* The loop over the segments: the page counter runs on from one segment   *)
(* to the next, and every segment but the last ends in a link.             *)
FillChainingAll(filled, segment, segments, pages, per) ==
  LET first == segment * PerPage
      count == IF per < pages - filled.page THEN per ELSE pages - filled.page
  IN  [area |-> [i \in DOMAIN filled.area |->
         IF i \in first..(first + count - 1) THEN Entry("buffer", filled.page + (i - first))
         ELSE IF i = first + count /\ count = per THEN Entry("table", segment + 1)
         ELSE filled.area[i]],
       page |-> filled.page + count]
Fill(filled, segment, segments, pages, per) ==
  LET first == segment * PerPage
      count == IF per < pages - filled.page THEN per ELSE pages - filled.page
  IN  [area |-> [i \in DOMAIN filled.area |->
         IF i \in first..(first + count - 1) THEN Entry("buffer", filled.page + (i - first))
         ELSE IF i = first + count /\ segment + 1 < segments THEN Entry("table", segment + 1)
         ELSE filled.area[i]],
       page |-> filled.page + count]

Table(bytes, per) ==
  LET segments == Segments(bytes, per)
      filled[s \in 0..segments] ==
        IF s = 0 THEN [area |-> [i \in 0..(segments * PerPage - 1) |-> Empty], page |-> 0]
                 ELSE Fill(filled[s - 1], s - 1, segments, Pages(bytes), per)
  IN  filled[segments].area

---------------------------------------------------------------------------
(* What a device meets that takes up to per entries from a segment, stops  *)
(* at an empty one, and goes on where the entry after them links to; it is *)
(* given one step more than there are segments.                            *)
OnPage(table, per, s) ==
  LET refers(e) == table[s * PerPage + e].to = "buffer"
      last == CHOOSE n \in 0..per : /\ \A e \in 0..(n - 1) : refers(e)
                                    /\ n < per => ~refers(n)
  IN  [e \in 1..last |-> table[s * PerPage + e - 1].n]

Walk(table, per, segments) ==
  LET from[steps \in 0..(segments + 1)] ==
        [s \in 0..segments |->
           IF steps = 0 THEN <<>>
           ELSE IF s = segments THEN <<"beyond the table">>
           ELSE LET link == table[s * PerPage + per]
                IN  OnPage(table, per, s) \o
                      IF link.to = "table" THEN from[steps - 1][link.n] ELSE <<>>]
  IN  from[segments + 1][0]
=============================================================================
