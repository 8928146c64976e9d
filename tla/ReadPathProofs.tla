--------------------------- MODULE ReadPathProofs ---------------------------
(***************************************************************************)
(* Theorems about ReadPath, for any number of paths, writes and crashes:   *)
(* types; that only a deletion makes a call miss a page; and that answers  *)
(* are complete, in what no writer touched meanwhile, for listings, greps, *)
(* reads and outlines of any limits.                                       *)
(***************************************************************************)
EXTENDS ReadPath, TLAPS, FiniteSetTheorems, SequenceTheorems, Induction

-----------------------------------------------------------------------------
(* The strengthening.                                                      *)

(* The first k pages of an entry are there.                                *)
HasText(id, k) == \A n \in 1..k : text[id][n] # NoPage

(* The pages a live row names are there, under an id of its own path.      *)
RowsHaveText ==
  \A p \in Paths : row[p].live =>
    row[p].id \in Ids /\ row[p].id[1] = p /\ HasText(row[p].id, row[p].pages)

(* A writer holds an id of its path, the row's own when the row is live; a *)
(* put has written the pages it is past, and a delete removes text only    *)
(* after its row.                                                          *)
WriterInv ==
  writer.pc # "idle" =>
    /\ writer.path \in Paths /\ writer.id \in Ids /\ writer.id[1] = writer.path
    /\ writer.pc = "pages" =>
         /\ HasText(writer.id, writer.page - 1)
         /\ row[writer.path].live => row[writer.path].id = writer.id
    /\ writer.pc = "text" => ~row[writer.path].live

(* The documents a call has yet to read, and the one it reads.             *)
Held == call.found \union IF call.pc = "page" THEN {call.doc} ELSE {}

(* What a call holds of a document that was not deleted is still true.     *)
HeldInv ==
  \A d \in Held :
    /\ d.path \in Paths /\ d.id \in Ids /\ d.id[1] = d.path
    /\ d.path \in kept =>
         row[d.path].live /\ row[d.path].id = d.id /\ HasText(d.id, d.pages)

(* Where a call is, and the room its budgets leave.                        *)
CallInv ==
  /\ call.pc = "walk" => call.kind \in Walks /\ call.count < Limit
  /\ call.pc = "scan" => call.kind \in {"grep", "files"}
  /\ call.pc = "stat" => call.kind \in Scans /\ call.doc.path \in Paths
  /\ call.pc = "page" /\ call.kind \in Scans => call.end <= call.doc.pages
  /\ call.pc = "page" /\ call.kind = "grep" =>
       call.perFile < MaxPerFile /\ Len(call.hits) < MaxMatches

IInv == TypeOK /\ RowsHaveText /\ WriterInv /\ HeldInv /\ CallInv /\ OnlyDeletionFails

-----------------------------------------------------------------------------
(* Matches are counted in natural numbers, and contents are counted so.    *)
LEMMA HitFacts ==
  /\ NoPage \notin Nat
  /\ NoPage \in Hits
  /\ \A h \in Hits : h # NoPage => h \in Nat
  /\ \A c \in Contents : /\ Len(c) \in Pages
                         /\ \A n \in 1..Len(c) : c[n] \in Hits /\ c[n] # NoPage
  /\ Unread \notin Contents
<1>1. NoPage \notin Nat /\ NoPage \in Hits
  BY DEF NoPage, Hits
<1>2. \A c \in Contents : c \in Seq(Nat) /\ Len(c) \in Pages
  BY ContentAssumption
<1>3. ASSUME NEW c \in Contents, NEW n \in 1..Len(c)
      PROVE  c[n] \in Nat /\ c[n] \in ToSet(c)
  BY <1>2 DEF ToSet
<1>4. \A c \in Contents : ToSet(c) \subseteq Nat
  BY <1>2 DEF ToSet
<1>5. \A h \in Hits : h # NoPage => h \in Nat
  BY <1>4 DEF Hits
<1>6. \A c \in Contents : \A n \in 1..Len(c) : c[n] \in Hits /\ c[n] # NoPage
  BY <1>1, <1>3 DEF Hits
<1>7. Unread \notin Contents
  <2>1. Len(Unread) = 1 /\ Unread[1] = NoPage
    BY DEF Unread
  <2>2. QED BY <1>1, <1>3, <2>1
<1>8. QED BY <1>1, <1>2, <1>5, <1>6, <1>7

(* The smaller of two numbers.                                             *)
LEMMA SmallerFacts ==
  ASSUME NEW m \in Int, NEW n \in Int
  PROVE  /\ Smaller(m, n) \in {m, n}
         /\ Smaller(m, n) <= m /\ Smaller(m, n) <= n
BY DEF Smaller

(* The limits are positive.                                                *)
LEMMA LimitFacts ==
  /\ N \in Nat \ {0} /\ MaxPage \in Nat \ {0}
  /\ MaxMatches \in Nat \ {0} /\ MaxPerFile \in Nat \ {0} /\ MaxItems \in Nat \ {0}
  /\ MaxReadPages \in Nat \ {0} /\ MaxScanPages \in Nat \ {0}
  /\ MaxWrites \in Nat /\ MaxCrashes \in Nat
  /\ call.kind \in Walks => Limit \in Nat \ {0}
BY LimitAssumption DEF Limit, Walks

(* The first k matches of a page are matches.                              *)
LEMMA FirstHitsType ==
  ASSUME NEW k \in Nat, call.doc.path \in Paths, call.page \in Pages
  PROVE  FirstHits(k) \in Seq(Hit) /\ Len(FirstHits(k)) = k
<1>1. \A i \in 1..k : <<call.doc.path, call.page, i>> \in Hit
  BY DEF Hit
<1>2. QED BY <1>1 DEF FirstHits

(* Matches are added to those found before.                                *)
LEMMA ConcatHits ==
  ASSUME NEW s \in Seq(Hit), NEW t \in Seq(Hit)
  PROVE  s \o t \in Seq(Hit) /\ Len(s \o t) = Len(s) + Len(t)
BY ConcatProperties

(* A caller in no call, and a writer that does nothing.                    *)
LEMMA IdleTypes == NoCall \in CallState /\ NoWriter \in Writer
BY LimitAssumption
DEF NoCall, CallState, NoDoc, Doc, Pattern, Walks, Scans, NoWriter, Writer, NoId

-----------------------------------------------------------------------------
(* The invariant holds of every corpus a call may find.                    *)
LEMMA InitIInv == Init => IInv
<1> SUFFICES ASSUME Init PROVE IInv
  OBVIOUS
<1>1. PICK docs \in Population :
        /\ row = [p \in Paths |-> Stored(p, docs[p])]
        /\ text = [i \in Ids |-> [n \in Pages |->
             IF i[2] = 0 /\ n <= Len(docs[i[1]].content) THEN docs[i[1]].content[n]
                                                         ELSE NoPage]]
  BY DEF Init
<1>2. \A p \in Paths : docs[p].content \in Contents \union {Unread}
  BY DEF Population
<1>3. \A p \in Paths, n \in Pages : n <= Len(docs[p].content) => docs[p].content[n] \in Hits
  <2> SUFFICES ASSUME NEW p \in Paths, NEW n \in Pages, n <= Len(docs[p].content)
               PROVE  docs[p].content[n] \in Hits
    OBVIOUS
  <2>1. CASE docs[p].content \in Contents
    BY <2>1, HitFacts DEF Pages
  <2>2. CASE docs[p].content = Unread
    BY <2>2, HitFacts DEF Unread, Pages
  <2>3. QED BY <1>2, <2>1, <2>2
<1>4. text \in [Ids -> [Pages -> Hits]]
  BY <1>1, <1>3, HitFacts DEF Ids
<1>5. ASSUME NEW p \in Paths
      PROVE  /\ row[p] \in Row
             /\ row[p].live => /\ row[p].id = <<p, 0>>
                               /\ \A n \in 1..row[p].pages : text[<<p, 0>>][n] # NoPage
  <2>1. row[p] = Stored(p, docs[p])
    BY <1>1
  <2>2. <<p, 0>> \in Ids
    BY LimitFacts DEF Ids
  <2>3. CASE docs[p].content = Unread
    BY <2>1, <2>2, <2>3, LimitFacts DEF Stored, NoRow, Row
  <2>4. CASE docs[p].content \in Contents
    <3>1. Len(docs[p].content) \in Pages
      BY <2>4, HitFacts
    <3>2. row[p] \in Row
      BY <2>1, <2>2, <3>1, HitFacts, LimitFacts DEF Stored, NoRow, Row, Pages
    <3>3. ASSUME row[p].live
          PROVE  row[p].id = <<p, 0>> /\ row[p].pages = Len(docs[p].content)
      BY <2>1, <2>4, <3>3, HitFacts DEF Stored, NoRow
    <3>4. ASSUME NEW n \in 1..Len(docs[p].content)
          PROVE  text[<<p, 0>>][n] # NoPage
      <4>1. n \in Pages /\ n <= Len(docs[p].content)
        BY <3>1, LimitFacts DEF Pages
      <4>2. <<p, 0>>[1] = p /\ <<p, 0>>[2] = 0
        OBVIOUS
      <4>3. text[<<p, 0>>] = [m \in Pages |->
              IF <<p, 0>>[2] = 0 /\ m <= Len(docs[<<p, 0>>[1]].content)
              THEN docs[<<p, 0>>[1]].content[m] ELSE NoPage]
        BY <1>1, <2>2, Zenon
      <4>4. text[<<p, 0>>][n] = docs[p].content[n]
        BY <4>1, <4>2, <4>3
      <4>5. QED BY <2>4, <4>4, HitFacts
    <3>5. QED BY <3>2, <3>3, <3>4
  <2>5. QED BY <1>2, <2>3, <2>4
<1>6. row \in [Paths -> Row]
  BY <1>1, <1>5
<1>7. call = NoCall /\ writer = NoWriter
  BY DEF Init
<1>8. TypeOK
  BY <1>4, <1>6, <1>7, IdleTypes, LimitFacts DEF Init, TypeOK
<1>9. RowsHaveText
  <2>1. \A p \in Paths : <<p, 0>> \in Ids /\ <<p, 0>>[1] = p
    BY LimitFacts DEF Ids
  <2>2. ASSUME NEW p \in Paths, row[p].live
        PROVE  row[p].id \in Ids /\ row[p].id[1] = p /\ HasText(row[p].id, row[p].pages)
    <3>1. row[p].id = <<p, 0>> /\ \A n \in 1..row[p].pages : text[<<p, 0>>][n] # NoPage
      BY <1>5, <2>2
    <3>2. QED BY <2>1, <3>1, Zenon DEF HasText
  <2>3. QED BY <2>2 DEF RowsHaveText
<1>10. WriterInv /\ HeldInv /\ CallInv /\ OnlyDeletionFails
  BY <1>7 DEF WriterInv, HeldInv, Held, CallInv, OnlyDeletionFails, NoCall, NoWriter
<1>11. QED BY <1>8, <1>9, <1>10 DEF IInv

-----------------------------------------------------------------------------
(* Steps of the writer.                                                    *)

(* What a call holds stays true as long as the documents that are not      *)
(* deleted stay live, under their ids, with their pages.                   *)
LEMMA HeldFrame ==
  ASSUME IInv, UNCHANGED call, kept' \subseteq kept,
         \A p \in kept' : row[p].live => row'[p].live /\ row'[p].id = row[p].id,
         \A p \in kept', i \in Ids, n \in Pages :
           row[p].live /\ i[1] = p /\ text[i][n] # NoPage => text'[i][n] # NoPage
  PROVE  HeldInv' /\ CallInv' /\ OnlyDeletionFails'
<1>1. CallInv'
  BY DEF IInv, CallInv, Limit
<1>2. OnlyDeletionFails'
  BY DEF IInv, OnlyDeletionFails
<1>3. ASSUME NEW d \in Held
      PROVE  /\ d.path \in Paths /\ d.id \in Ids /\ d.id[1] = d.path
             /\ d.path \in kept' =>
                  row'[d.path].live /\ row'[d.path].id = d.id /\ HasText(d.id, d.pages)'
  <2>1. /\ d.path \in Paths /\ d.id \in Ids /\ d.id[1] = d.path
        /\ d.path \in kept =>
             row[d.path].live /\ row[d.path].id = d.id /\ HasText(d.id, d.pages)
    BY <1>3 DEF IInv, HeldInv
  <2>2. d \in Doc
    BY <1>3 DEF IInv, TypeOK, CallState, Held
  <2>3. ASSUME d.path \in kept', NEW n \in 1..d.pages
        PROVE  text'[d.id][n] # NoPage
    <3>1. n \in Pages
      BY <2>2, LimitFacts DEF Doc, Pages
    <3>2. text[d.id][n] # NoPage /\ row[d.path].live
      BY <2>1, <2>3 DEF HasText
    <3>3. QED BY <2>1, <2>3, <3>1, <3>2
  <2>4. QED BY <2>1, <2>3 DEF HasText
<1>4. Held' = Held
  BY DEF Held
<1>5. HeldInv'
  BY <1>3, <1>4 DEF HeldInv
<1>6. QED BY <1>1, <1>2, <1>5

(* Rows and text that do not change stay as they are.                      *)
LEMMA RowsFrame ==
  ASSUME IInv, UNCHANGED <<row, text>>
  PROVE  RowsHaveText'
BY DEF IInv, RowsHaveText, HasText

(* put_document looks the row up.                                          *)
LEMMA PutBeginStep ==
  ASSUME IInv, NEW p \in Paths, NEW c \in Contents \union {Unread}, PutBegin(p, c)
  PROVE  IInv'
<1>1. TypeOK /\ writer.pc = "idle" /\ writes \in 0..MaxWrites /\ writes < MaxWrites
  BY DEF IInv, TypeOK, PutBegin, WriterBegins
<1>2. UNCHANGED <<row, text, call, kept, crashes>> /\ writes' = writes + 1 /\ steady' = steady \ {p}
  BY DEF PutBegin, WriterBegins
<1>3. DEFINE id == IF row[p].live THEN row[p].id ELSE <<p, writes + 1>>
<1>4. id \in Ids /\ id[1] = p /\ (row[p].live => row[p].id = id)
  <2>1. <<p, writes + 1>> \in Ids /\ <<p, writes + 1>>[1] = p
    BY <1>1, LimitFacts DEF Ids
  <2>2. row[p].live => row[p].id \in Ids /\ row[p].id[1] = p
    BY DEF IInv, RowsHaveText
  <2>3. QED BY <2>1, <2>2
<1>5. writer' = [pc |-> "pages", path |-> p, content |-> c, page |-> 1, id |-> id]
  BY DEF PutBegin
<1> HIDE DEF id
<1>6. writer' \in Writer
  BY <1>4, <1>5, LimitFacts DEF Writer
<1>7. TypeOK'
  BY <1>1, <1>2, <1>6, LimitFacts DEF TypeOK
<1>8. HasText(writer.id, writer.page - 1)'
  BY <1>5 DEF HasText
<1>9. WriterInv'
  BY <1>2, <1>4, <1>5, <1>8 DEF WriterInv
<1>10. QED BY <1>2, <1>7, <1>9, RowsFrame, HeldFrame DEF IInv

(* put_document stores a page: in place, or under an id of its own.        *)
LEMMA PutPageStep ==
  ASSUME IInv, PutPage
  PROVE  IInv'
<1>1. /\ TypeOK /\ writer.pc = "pages" /\ writer.id \in Ids /\ writer.page \in 1..MaxPage + 1
      /\ writer.content \in Contents /\ writer.page <= Len(writer.content)
  BY DEF IInv, TypeOK, WriterInv, Writer, PutPage, MorePages
<1>2. /\ writer.page \in Pages
      /\ writer.content[writer.page] \in Hits /\ writer.content[writer.page] # NoPage
  BY <1>1, HitFacts, LimitFacts DEF Pages
<1>3. /\ text' = [text EXCEPT ![writer.id][writer.page] = writer.content[writer.page]]
      /\ writer' = [writer EXCEPT !.page = writer.page + 1]
      /\ UNCHANGED <<row, call, steady, kept, writes, crashes>>
  BY DEF PutPage
<1>4. text' \in [Ids -> [Pages -> Hits]]
  BY <1>1, <1>2, <1>3 DEF TypeOK
<1>5. writer' \in Writer
  <2>1. writer.page + 1 \in 1..MaxPage + 1
    BY <1>2, LimitFacts DEF Pages
  <2>2. QED BY <1>1, <1>3, <2>1 DEF TypeOK, Writer
<1>6. TypeOK'
  BY <1>1, <1>3, <1>4, <1>5 DEF TypeOK
<1>7. /\ \A i \in Ids, n \in Pages : text[i][n] # NoPage => text'[i][n] # NoPage
      /\ text'[writer.id][writer.page] # NoPage
  BY <1>1, <1>2, <1>3 DEF TypeOK
<1>8. \A i \in Ids, k \in 0..MaxPage : HasText(i, k) => HasText(i, k)'
  BY <1>7, LimitFacts DEF HasText, Pages
<1>9. RowsHaveText'
  BY <1>1, <1>3, <1>8 DEF IInv, RowsHaveText, TypeOK, Row
<1>10. WriterInv'
  <2>1. /\ writer.path \in Paths /\ writer.id[1] = writer.path
        /\ \A n \in 1..writer.page - 1 : text[writer.id][n] # NoPage
        /\ row[writer.path].live => row[writer.path].id = writer.id
    BY <1>1 DEF IInv, WriterInv, HasText
  <2>2. writer.page \in Nat /\ writer.page <= MaxPage
    BY <1>2, LimitFacts DEF Pages
  <2>3. /\ writer'.pc = "pages" /\ writer'.path = writer.path /\ writer'.id = writer.id
        /\ writer'.page - 1 = writer.page
    BY <1>1, <1>3, <2>2 DEF TypeOK, Writer
  <2>4. ASSUME NEW n \in 1..writer.page
        PROVE  text'[writer.id][n] # NoPage
    <3>1. CASE n = writer.page
      BY <1>7, <3>1
    <3>2. CASE n # writer.page
      <4>1. n \in 1..writer.page - 1 /\ n \in Pages
        BY <2>2, <2>4, <3>2, LimitFacts DEF Pages
      <4>2. QED BY <1>1, <1>7, <2>1, <4>1
    <3>3. QED BY <3>1, <3>2
  <2>5. HasText(writer.id, writer.page - 1)'
    BY <2>3, <2>4 DEF HasText
  <2>6. QED BY <1>1, <1>3, <2>1, <2>3, <2>5 DEF WriterInv
<1>11. HeldInv' /\ CallInv' /\ OnlyDeletionFails'
  BY <1>3, <1>7, HeldFrame
<1>12. QED BY <1>6, <1>9, <1>10, <1>11 DEF IInv

(* put_document writes the row, after all its pages.                       *)
LEMMA PutRowStep ==
  ASSUME IInv, PutRow
  PROVE  IInv'
<1>1. /\ TypeOK /\ writer.pc = "pages" /\ writer.path \in Paths
      /\ writer.id \in Ids /\ writer.id[1] = writer.path
      /\ HasText(writer.id, writer.page - 1) /\ writer.page \in 1..MaxPage + 1
      /\ row[writer.path].live => row[writer.path].id = writer.id
      /\ writer.content \in Contents \union {Unread}
  BY DEF IInv, TypeOK, Writer, WriterInv, PutRow
<1>2. DEFINE pages == IF writer.content = Unread THEN 0 ELSE Len(writer.content)
             new == [id |-> writer.id, live |-> TRUE, extracted |-> writer.content # Unread,
                     pages |-> pages]
<1>3. /\ row' = [row EXCEPT ![writer.path] = new] /\ writer' = NoWriter
      /\ UNCHANGED <<text, call, steady, kept, writes, crashes>>
  BY DEF PutRow
<1>4. pages \in 0..MaxPage /\ pages <= writer.page - 1
  <2>1. CASE writer.content = Unread
    BY <1>1, <2>1, LimitFacts
  <2>2. CASE writer.content # Unread
    <3>1. writer.content \in Contents /\ ~(writer.page <= Len(writer.content))
      BY <1>1, <2>2 DEF PutRow, MorePages
    <3>2. Len(writer.content) \in 1..MaxPage
      BY <3>1, HitFacts DEF Pages
    <3>3. QED BY <1>1, <2>2, <3>1, <3>2, LimitFacts
  <2>3. QED BY <2>1, <2>2
<1>5. HasText(writer.id, pages)
  BY <1>1, <1>4, LimitFacts DEF HasText
<1> HIDE DEF pages
<1>6. new \in Row
  BY <1>1, <1>4 DEF Row
<1>7. \A p \in Paths : row'[p] = IF p = writer.path THEN new ELSE row[p]
  BY <1>1, <1>3 DEF TypeOK
<1>8. TypeOK'
  BY <1>1, <1>3, <1>6, IdleTypes DEF TypeOK
<1>9. RowsHaveText'
  <2>1. ASSUME NEW p \in Paths, row'[p].live
        PROVE  row'[p].id \in Ids /\ row'[p].id[1] = p /\ HasText(row[p].id, row[p].pages)'
    <3>1. CASE p = writer.path
      <4>1. row'[p].id = writer.id /\ row'[p].pages = pages
        BY <1>7, <3>1
      <4>2. QED BY <1>1, <1>3, <1>5, <3>1, <4>1 DEF HasText
    <3>2. CASE p # writer.path
      BY <1>3, <1>7, <2>1, <3>2 DEF IInv, RowsHaveText, HasText
    <3>3. QED BY <3>1, <3>2
  <2>2. QED BY <2>1 DEF RowsHaveText
<1>10. WriterInv'
  BY <1>3 DEF WriterInv, NoWriter
<1>11. /\ kept' \subseteq kept /\ kept \subseteq Paths
       /\ \A p \in kept' : row[p].live => row'[p].live /\ row'[p].id = row[p].id
  BY <1>1, <1>3, <1>7 DEF TypeOK
<1>12. HeldInv' /\ CallInv' /\ OnlyDeletionFails'
  BY <1>3, <1>11, HeldFrame
<1>13. QED BY <1>8, <1>9, <1>10, <1>12 DEF IInv

(* delete_document looks the row up.                                       *)
LEMMA DeleteBeginStep ==
  ASSUME IInv, NEW p \in Paths, DeleteBegin(p)
  PROVE  IInv'
<1>1. /\ TypeOK /\ writes \in 0..MaxWrites /\ writes < MaxWrites
      /\ row[p].live /\ row[p].id \in Ids /\ row[p].id[1] = p
  BY DEF IInv, TypeOK, RowsHaveText, DeleteBegin, WriterBegins
<1>2. UNCHANGED <<row, text, call, kept, crashes>> /\ writes' = writes + 1 /\ steady' = steady \ {p}
  BY DEF DeleteBegin, WriterBegins
<1>3. writer' = [NoWriter EXCEPT !.pc = "delete", !.path = p, !.id = row[p].id]
  BY DEF DeleteBegin
<1>4. /\ writer' \in Writer /\ writer'.pc = "delete" /\ writer'.path = p
      /\ writer'.id = row[p].id
  BY <1>1, <1>3, IdleTypes DEF Writer, NoWriter
<1>5. TypeOK'
  BY <1>1, <1>2, <1>4, LimitFacts DEF TypeOK
<1>6. WriterInv'
  BY <1>1, <1>2, <1>4 DEF WriterInv
<1>7. QED BY <1>2, <1>5, <1>6, RowsFrame, HeldFrame DEF IInv

(* delete_entry tombstones the row: the document is no longer kept.        *)
LEMMA DeleteRowStep ==
  ASSUME IInv, DeleteRow
  PROVE  IInv'
<1>1. /\ TypeOK /\ writer.pc = "delete" /\ writer.path \in Paths
      /\ writer.id \in Ids /\ writer.id[1] = writer.path
  BY DEF IInv, WriterInv, DeleteRow
<1>2. /\ row' = [row EXCEPT ![writer.path].live = FALSE]
      /\ kept' = kept \ {writer.path}
      /\ writer' = [writer EXCEPT !.pc = "text"]
      /\ UNCHANGED <<text, call, steady, writes, crashes>>
  BY DEF DeleteRow
<1>3. /\ row' \in [Paths -> Row] /\ ~row'[writer.path].live
      /\ \A p \in Paths : p # writer.path => row'[p] = row[p]
  BY <1>1, <1>2 DEF TypeOK, Row
<1>4. /\ writer' \in Writer /\ writer'.pc = "text"
      /\ writer'.path = writer.path /\ writer'.id = writer.id
  BY <1>1, <1>2 DEF TypeOK, Writer
<1>5. TypeOK'
  BY <1>1, <1>2, <1>3, <1>4 DEF TypeOK
<1>6. RowsHaveText'
  BY <1>2, <1>3 DEF IInv, RowsHaveText, HasText
<1>7. WriterInv'
  BY <1>1, <1>3, <1>4 DEF WriterInv
<1>8. \A p \in kept' : row[p].live => row'[p].live /\ row'[p].id = row[p].id
  BY <1>1, <1>2, <1>3 DEF TypeOK
<1>9. HeldInv' /\ CallInv' /\ OnlyDeletionFails'
  BY <1>2, <1>8, HeldFrame
<1>10. QED BY <1>5, <1>6, <1>7, <1>9 DEF IInv

(* delete_document removes the text, of a row that is no longer live.      *)
LEMMA DeleteTextStep ==
  ASSUME IInv, DeleteText
  PROVE  IInv'
<1>1. /\ TypeOK /\ writer.path \in Paths /\ writer.id \in Ids
      /\ writer.id[1] = writer.path /\ ~row[writer.path].live
  BY DEF IInv, WriterInv, DeleteText
<1>2. /\ text' = [text EXCEPT ![writer.id] = [n \in Pages |-> NoPage]]
      /\ writer' = NoWriter
      /\ UNCHANGED <<row, call, steady, kept, writes, crashes>>
  BY DEF DeleteText
<1>3. /\ text' \in [Ids -> [Pages -> Hits]]
      /\ \A i \in Ids : i # writer.id => text'[i] = text[i]
  BY <1>1, <1>2, HitFacts DEF TypeOK
<1>4. TypeOK'
  BY <1>1, <1>2, <1>3, IdleTypes DEF TypeOK
<1>5. \A i \in Ids : row[i[1]].live => text'[i] = text[i]
  BY <1>1, <1>3
<1>6. RowsHaveText'
  BY <1>2, <1>5 DEF IInv, RowsHaveText, HasText
<1>7. WriterInv'
  BY <1>2 DEF WriterInv, NoWriter
<1>8. \A p \in kept', i \in Ids, n \in Pages :
        row[p].live /\ i[1] = p /\ text[i][n] # NoPage => text'[i][n] # NoPage
  BY <1>5
<1>9. HeldInv' /\ CallInv' /\ OnlyDeletionFails'
  BY <1>2, <1>8, HeldFrame
<1>10. QED BY <1>4, <1>6, <1>7, <1>9 DEF IInv

(* A writer dies: nothing it wrote is taken back.                          *)
LEMMA WriterCrashStep ==
  ASSUME IInv, WriterCrash
  PROVE  IInv'
<1>1. /\ crashes' \in 0..MaxCrashes /\ writer' = NoWriter
      /\ UNCHANGED <<row, text, call, steady, kept, writes>>
  BY LimitFacts DEF IInv, TypeOK, WriterCrash
<1>2. TypeOK'
  BY <1>1, IdleTypes DEF IInv, TypeOK
<1>3. WriterInv'
  BY <1>1 DEF WriterInv, NoWriter
<1>4. QED BY <1>1, <1>2, <1>3, RowsFrame, HeldFrame DEF IInv

-----------------------------------------------------------------------------
(* Steps of a call.                                                        *)

(* A call changes nothing but itself.                                      *)
LEMMA CallFrame ==
  ASSUME IInv, UNCHANGED writeVars, steady' \subseteq Paths, kept' \subseteq Paths,
         call' \in CallState, HeldInv', CallInv', OnlyDeletionFails'
  PROVE  IInv'
<1>1. UNCHANGED <<row, text, writer, writes, crashes>>
  BY DEF writeVars
<1>2. TypeOK'
  BY <1>1 DEF IInv, TypeOK
<1>3. WriterInv'
  BY <1>1 DEF IInv, WriterInv, HasText
<1>4. QED BY <1>1, <1>2, <1>3, RowsFrame DEF IInv

(* What was held before the step is held to be true after it.              *)
LEMMA HeldShrinks ==
  ASSUME IInv, UNCHANGED writeVars, UNCHANGED kept, Held' \subseteq Held
  PROVE  HeldInv'
<1>1. UNCHANGED <<row, text>>
  BY DEF writeVars
<1>2. QED BY <1>1 DEF IInv, HeldInv, HasText

(* What ReaderMoves leaves alone.                                          *)
LEMMA MovesFacts ==
  ASSUME IInv, NEW new, ReaderMoves(new)
  PROVE  /\ call' = new /\ UNCHANGED writeVars /\ UNCHANGED kept
         /\ UNCHANGED <<row, text>>
         /\ steady' \subseteq Paths /\ kept' \subseteq Paths
BY DEF ReaderMoves, IInv, TypeOK, writeVars

(* A call begins with nothing in hand.                                     *)
LEMMA BeginStep ==
  ASSUME IInv, BeginCall
  PROVE  IInv'
<1>1. ASSUME NEW kind \in Walks, NEW g \in Patterns, BeginWalk(kind, g)
      PROVE  IInv'
  <2>1. /\ call' = [NoCall EXCEPT !.kind = kind, !.pc = "walk", !.want = g]
        /\ UNCHANGED writeVars /\ steady' \subseteq Paths /\ kept' \subseteq Paths
    BY <1>1 DEF BeginWalk, Begins
  <2>2. g \in Pattern
    BY PatternAssumption
  <2>3. call' \in CallState
    BY <2>1, <2>2, IdleTypes DEF CallState
  <2>4. /\ call'.pc = "walk" /\ call'.kind = kind /\ call'.count = 0 /\ call'.found = {}
    BY <2>1 DEF NoCall
  <2>5. Limit' \in Nat \ {0}
    BY <2>4, LimitAssumption DEF Limit, Walks
  <2>6. CallInv' /\ HeldInv' /\ OnlyDeletionFails'
    BY <2>4, <2>5 DEF CallInv, HeldInv, Held, OnlyDeletionFails
  <2>7. QED BY <2>1, <2>3, <2>6, CallFrame
<1>2. ASSUME NEW kind \in Scans, NEW p \in Paths, BeginScan(kind, p)
      PROVE  IInv'
  <2>1. /\ call' = [NoCall EXCEPT !.kind = kind, !.pc = "stat", !.doc.path = p]
        /\ UNCHANGED writeVars /\ steady' \subseteq Paths /\ kept' \subseteq Paths
    BY <1>2 DEF BeginScan, Begins
  <2>2. [NoDoc EXCEPT !.path = p] \in Doc /\ [NoDoc EXCEPT !.path = p].path = p
    BY LimitFacts DEF NoDoc, Doc
  <2>3. call' = [NoCall EXCEPT !.kind = kind, !.pc = "stat", !.doc = [NoDoc EXCEPT !.path = p]]
    BY <2>1 DEF NoCall
  <2>4. call' \in CallState
    BY <2>2, <2>3, IdleTypes DEF CallState
  <2>5. /\ call'.pc = "stat" /\ call'.kind = kind /\ call'.doc.path = p /\ call'.found = {}
    BY <2>2, <2>3 DEF NoCall
  <2>6. CallInv' /\ HeldInv' /\ OnlyDeletionFails'
    BY <2>5 DEF CallInv, HeldInv, Held, OnlyDeletionFails
  <2>7. QED BY <2>1, <2>4, <2>6, CallFrame
<1>3. QED BY <1>1, <1>2 DEF BeginCall

(* The keys of a page are paths, finitely many, and its items are live.    *)
LEMMA PageFacts ==
  ASSUME IInv
  PROVE  /\ Evaluated \subseteq Paths /\ Listed \subseteq Paths
         /\ \A p \in Listed : row[p].live
         /\ call.kind \in Walks => Matching \subseteq Listed /\ Cardinality(Matching) \in Nat
         /\ NextCursor \subseteq 0..N
<1>1. call \in CallState /\ call.want.under \subseteq Paths
  BY DEF IInv, TypeOK, CallState, Pattern
<1>2. Evaluated \subseteq Paths
  BY <1>1 DEF Evaluated
<1>3. Listed \subseteq Paths /\ \A p \in Listed : row[p].live
  BY <1>2 DEF Listed
<1>4. call.kind \in Walks => Matching \subseteq Listed
  BY DEF Matching, Walks
<1>5. IsFiniteSet(Paths)
  BY LimitFacts, FS_Interval DEF Paths
<1>6. call.kind \in Walks => Cardinality(Matching) \in Nat
  BY <1>3, <1>4, <1>5, FS_Subset, FS_CardinalityType
<1>7. LastOf(Evaluated) \subseteq 0..N /\ 0 \in 0..N
  <2>1. LastOf(Evaluated) \subseteq Evaluated
    BY DEF LastOf
  <2>2. Paths \subseteq 0..N /\ 0 \in 0..N
    BY LimitFacts DEF Paths
  <2>3. QED BY <1>2, <2>1, <2>2
<1>8. NextCursor \subseteq 0..N
  BY <1>7 DEF NextCursor
<1>9. QED BY <1>2, <1>3, <1>4, <1>6, <1>8

(* A walk collects live rows: their pages are there.                       *)
LEMMA WalkStep ==
  ASSUME IInv, Walk
  PROVE  IInv'
<1>1. call \in CallState /\ call.pc = "walk" /\ call.kind \in Walks /\ call.count < Limit
  BY DEF IInv, TypeOK, CallInv, Walk
<1>2. DEFINE room == Limit - call.count
             full == Cardinality(Matching) >= room
             found == call.found \union Documents(Matching, room)
             more(next) == ~full /\ next # 0
             searching(next) == call.kind \in {"grep", "files"} /\ ~more(next)
             step(next) == [call EXCEPT
               !.found = IF searching(next) THEN Candidates(found) ELSE found,
               !.count = @ + Smaller(Cardinality(Matching), room),
               !.filled = full,
               !.truncated = full /\ call.kind \in {"tree", "find"} /\ next # 0,
               !.cursor = next,
               !.pc = IF more(next) THEN "walk" ELSE IF searching(next) THEN "scan" ELSE "done"]
<1>3. PICK next \in NextCursor : ReaderMoves(step(next))
  BY DEF Walk
<1>4. /\ call' = step(next) /\ UNCHANGED writeVars /\ UNCHANGED kept /\ UNCHANGED <<row, text>>
      /\ steady' \subseteq Paths /\ kept' \subseteq Paths
  BY <1>3, MovesFacts
<1>5. /\ Cardinality(Matching) \in Nat /\ Matching \subseteq Paths /\ next \in 0..N
      /\ \A p \in Matching : row[p].live
  BY <1>1, <1>3, PageFacts
<1>6. Limit \in Nat /\ call.count \in Nat /\ room \in Nat \ {0}
  BY <1>1, LimitFacts DEF CallState
<1>7. ASSUME NEW d \in Documents(Matching, room)
      PROVE  /\ d \in Doc /\ d.path \in Paths /\ d.id \in Ids /\ d.id[1] = d.path
             /\ row[d.path].live /\ row[d.path].id = d.id /\ HasText(d.id, d.pages)
  <2>1. PICK p \in Matching : d = [path |-> p, id |-> row[p].id, pages |-> row[p].pages]
    BY <1>7 DEF Documents
  <2>2. row[p] \in Row /\ row[p].live /\ p \in Paths
    BY <1>5 DEF IInv, TypeOK
  <2>3. row[p].id \in Ids /\ row[p].id[1] = p /\ HasText(row[p].id, row[p].pages)
    BY <2>2 DEF IInv, RowsHaveText
  <2>4. QED BY <2>1, <2>2, <2>3 DEF Doc, Row
<1>8. Smaller(Cardinality(Matching), room) \in Nat
  BY <1>5, <1>6, SmallerFacts
<1>9. found \subseteq Doc /\ Candidates(found) \subseteq found
  BY <1>1, <1>7 DEF CallState, Candidates
<1>10. step(next) \in CallState
  <2>1. (IF searching(next) THEN Candidates(found) ELSE found) \in SUBSET Doc
    BY <1>9
  <2>2. call.count + Smaller(Cardinality(Matching), room) \in Nat
    BY <1>6, <1>8
  <2>3. (IF more(next) THEN "walk" ELSE IF searching(next) THEN "scan" ELSE "done")
          \in {"walk", "scan", "done"}
    OBVIOUS
  <2>4. full \in BOOLEAN /\ (full /\ call.kind \in {"tree", "find"} /\ next # 0) \in BOOLEAN
    OBVIOUS
  <2> HIDE DEF searching, more, full, found, room
  <2>5. QED BY <1>1, <1>5, <2>1, <2>2, <2>3, <2>4 DEF CallState
<1>11. /\ call'.found \subseteq found
       /\ call'.pc \in {"walk", "scan", "done"} /\ call'.kind = call.kind
       /\ call'.pc = "walk" => ~full
       /\ call'.pc = "scan" => call.kind \in {"grep", "files"}
       /\ call'.count = call.count + Smaller(Cardinality(Matching), room)
  BY <1>1, <1>4, <1>9 DEF CallState
<1>12. HeldInv'
  <2>1. Held' \subseteq found
    BY <1>11 DEF Held
  <2>2. \A d \in found :
          /\ d.path \in Paths /\ d.id \in Ids /\ d.id[1] = d.path
          /\ d.path \in kept =>
               row[d.path].live /\ row[d.path].id = d.id /\ HasText(d.id, d.pages)
    BY <1>7 DEF IInv, HeldInv, Held
  <2>3. QED BY <1>4, <2>1, <2>2 DEF HeldInv, HasText
<1>13. CallInv' /\ OnlyDeletionFails'
  <2>1. Limit' = Limit
    BY <1>11 DEF Limit
  <2>2. call'.pc = "walk" => call'.count < Limit
    BY <1>5, <1>6, <1>11 DEF Smaller
  <2>3. QED BY <1>1, <1>11, <2>1, <2>2 DEF CallInv, OnlyDeletionFails
<1>14. QED BY <1>4, <1>10, <1>12, <1>13, CallFrame

(* grep is through with its candidates, or has spent a budget.             *)
LEMMA GrepEndsStep ==
  ASSUME IInv, GrepEnds
  PROVE  IInv'
<1>1. call \in CallState /\ call.pc = "scan"
  BY DEF IInv, TypeOK, GrepEnds
<1>2. ReaderMoves([call EXCEPT !.pc = "done", !.truncated = @ \/ call.found # {}])
  BY DEF GrepEnds
<1>3. /\ call' = [call EXCEPT !.pc = "done", !.truncated = @ \/ call.found # {}]
      /\ UNCHANGED writeVars /\ UNCHANGED kept
      /\ steady' \subseteq Paths /\ kept' \subseteq Paths
  BY <1>2, MovesFacts
<1>4. call' \in CallState /\ call'.pc = "done" /\ call'.found = call.found
  BY <1>1, <1>3 DEF CallState
<1>5. Held' \subseteq Held
  BY <1>4 DEF Held
<1>6. CallInv' /\ OnlyDeletionFails'
  BY <1>4 DEF CallInv, OnlyDeletionFails
<1>7. QED BY <1>3, <1>4, <1>5, <1>6, HeldShrinks, CallFrame

(* grep opens a candidate: it holds what it held, one document in hand.    *)
LEMMA GrepOpenStep ==
  ASSUME IInv, GrepOpen
  PROVE  IInv'
<1>1. call \in CallState /\ call.pc = "scan" /\ call.kind \in {"grep", "files"} /\ ~Spent
  BY DEF IInv, TypeOK, CallInv, GrepOpen
<1>2. PICK d \in call.found :
        ReaderMoves([call EXCEPT !.pc = "page", !.found = @ \ {d}, !.doc = d, !.page = 1,
                                 !.perFile = 0])
  BY DEF GrepOpen
<1>3. /\ call' = [call EXCEPT !.pc = "page", !.found = @ \ {d}, !.doc = d, !.page = 1,
                              !.perFile = 0]
      /\ UNCHANGED writeVars /\ UNCHANGED kept
      /\ steady' \subseteq Paths /\ kept' \subseteq Paths
  BY <1>2, MovesFacts
<1>4. d \in Doc /\ call.found \ {d} \in SUBSET Doc
  BY <1>1, <1>2 DEF CallState
<1>5. call' \in CallState
  <2>1. 1 \in 1..MaxPage + 1 /\ 0 \in Nat
    BY LimitFacts
  <2>2. QED BY <1>1, <1>3, <1>4, <2>1 DEF CallState
<1>6. /\ call'.pc = "page" /\ call'.kind = call.kind /\ call'.found = call.found \ {d}
      /\ call'.doc = d /\ call'.perFile = 0 /\ call'.hits = call.hits
  BY <1>1, <1>3 DEF CallState
<1>7. Held' \subseteq Held
  BY <1>2, <1>6 DEF Held
<1>8. call.kind = "grep" => Len(call.hits) < MaxMatches
  <2>1. Len(call.hits) \in Nat
    BY <1>1, LenProperties DEF CallState
  <2>2. QED BY <1>1, <2>1, LimitFacts DEF Spent
<1>9. CallInv' /\ OnlyDeletionFails'
  BY <1>1, <1>6, <1>8, LimitFacts DEF CallInv, OnlyDeletionFails, Scans
<1>10. QED BY <1>3, <1>5, <1>7, <1>9, HeldShrinks, CallFrame

(* The page at hand, when the row it was listed with names it: the number  *)
(* of its matches, or, after a deletion only, nothing.                     *)
LEMMA FetchFacts ==
  ASSUME IInv, call.pc = "page", call.page <= call.doc.pages
  PROVE  /\ call.doc.path \in Paths /\ call.page \in Pages
         /\ FetchedPage # NoPage => FetchedPage \in Nat
         /\ FetchedPage = NoPage => call.doc.path \notin kept
<1>1. call \in CallState
  BY DEF IInv, TypeOK
<1>2. call.doc \in Held
  BY DEF Held
<1>3. /\ call.doc.path \in Paths /\ call.doc.id \in Ids
      /\ call.doc.path \in kept => HasText(call.doc.id, call.doc.pages)
  BY <1>2 DEF IInv, HeldInv
<1>4. call.doc \in Doc /\ call.page \in 1..MaxPage + 1
  BY <1>1 DEF CallState
<1>5. call.doc.pages \in 0..MaxPage
  BY <1>4 DEF Doc
<1>6. call.page \in Pages /\ call.page \in 1..call.doc.pages
  BY <1>4, <1>5, LimitFacts DEF Pages
<1>7. FetchedPage \in Hits
  BY <1>3, <1>6 DEF FetchedPage, IInv, TypeOK
<1>8. FetchedPage # NoPage => FetchedPage \in Nat
  BY <1>7, HitFacts
<1>9. FetchedPage = NoPage => call.doc.path \notin kept
  BY <1>3, <1>6 DEF FetchedPage, HasText
<1>10. QED BY <1>3, <1>6, <1>8, <1>9

(* A call that misses a page fails, for want of a deleted document.        *)
LEMMA MissedPage ==
  ASSUME IInv, call.pc = "page", call.page <= call.doc.pages, FetchedPage = NoPage,
         ReaderMoves([call EXCEPT !.pc = "failed"])
  PROVE  IInv'
<1>1. /\ call' = [call EXCEPT !.pc = "failed"] /\ UNCHANGED writeVars /\ UNCHANGED kept
      /\ steady' \subseteq Paths /\ kept' \subseteq Paths
  BY MovesFacts
<1>2. /\ call' \in CallState /\ call'.pc = "failed" /\ call'.found = call.found
      /\ call'.doc = call.doc
  BY <1>1 DEF IInv, TypeOK, CallState
<1>3. Held' \subseteq Held
  BY <1>2 DEF Held
<1>4. OnlyDeletionFails'
  BY <1>1, <1>2, FetchFacts DEF OnlyDeletionFails
<1>5. CallInv'
  BY <1>2 DEF CallInv
<1>6. QED BY <1>1, <1>2, <1>3, <1>4, <1>5, HeldShrinks, CallFrame

(* grep reads a page, or leaves the document.                              *)
LEMMA GrepPageStep ==
  ASSUME IInv, GrepPage
  PROVE  IInv'
<1>1. call \in CallState /\ call.pc = "page" /\ call.kind \in {"grep", "files"}
  BY DEF IInv, TypeOK, GrepPage
<1>2. ASSUME NEW cut \in BOOLEAN, call' = [call EXCEPT !.pc = "scan", !.truncated = cut],
             ReaderMoves(call')
      PROVE  IInv'
  <2>1. /\ UNCHANGED writeVars /\ UNCHANGED kept
        /\ steady' \subseteq Paths /\ kept' \subseteq Paths
    BY <1>2, MovesFacts
  <2>2. /\ call' \in CallState /\ call'.pc = "scan" /\ call'.found = call.found
        /\ call'.kind = call.kind
    BY <1>1, <1>2 DEF CallState
  <2>3. Held' \subseteq Held
    BY <2>2 DEF Held
  <2>4. CallInv' /\ OnlyDeletionFails'
    BY <1>1, <2>2 DEF CallInv, OnlyDeletionFails
  <2>5. QED BY <2>1, <2>2, <2>3, <2>4, HeldShrinks, CallFrame
<1>3. CASE call.page > call.doc.pages
  <2>1. ReaderMoves([call EXCEPT !.pc = "scan"])
    BY <1>3 DEF GrepPage
  <2>2. call' = [call EXCEPT !.pc = "scan", !.truncated = call.truncated]
    BY <1>1, <2>1 DEF ReaderMoves, CallState
  <2>3. call.truncated \in BOOLEAN
    BY <1>1 DEF CallState
  <2>4. ReaderMoves(call')
    BY <2>1 DEF ReaderMoves
  <2>5. QED BY <1>2, <2>2, <2>3, <2>4
<1>4. CASE ~(call.page > call.doc.pages) /\ call.scanned >= PageBudget
  <2>1. ReaderMoves([call EXCEPT !.pc = "scan", !.truncated = TRUE])
    BY <1>4 DEF GrepPage
  <2>2. call' = [call EXCEPT !.pc = "scan", !.truncated = TRUE] /\ ReaderMoves(call')
    BY <2>1 DEF ReaderMoves
  <2>3. QED BY <1>2, <2>2
<1>5. CASE ~(call.page > call.doc.pages) /\ ~(call.scanned >= PageBudget)
  <2>1. call.page <= call.doc.pages
    BY <1>1, <1>5, LimitFacts DEF CallState, Doc
  <2>2. CASE FetchedPage = NoPage
    BY <1>1, <1>5, <2>1, <2>2, MissedPage DEF GrepPage
  <2>3. CASE FetchedPage # NoPage
    <3> DEFINE room == IF call.kind = "files" THEN 1
                       ELSE Smaller(MaxPerFile - call.perFile, MaxMatches - Len(call.hits))
               taken == Smaller(FetchedPage, room)
               new == [call EXCEPT
                !.scanned = @ + 1,
                !.hits = @ \o FirstHits(taken),
                !.perFile = @ + taken,
                !.page = @ + 1,
                !.pc = IF taken = room THEN "scan" ELSE "page"]
    <3>1. ReaderMoves(new)
      BY <1>5, <2>3 DEF GrepPage
    <3>2. /\ call' = new /\ UNCHANGED writeVars /\ UNCHANGED kept
          /\ steady' \subseteq Paths /\ kept' \subseteq Paths
      BY <3>1, MovesFacts
    <3>3. call.doc.path \in Paths /\ call.page \in Pages /\ FetchedPage \in Nat
      BY <1>1, <2>1, <2>3, FetchFacts
    <3>4. /\ call.perFile \in Nat /\ call.scanned \in Nat /\ call.hits \in Seq(Hit)
          /\ Len(call.hits) \in Nat
      BY <1>1, LenProperties DEF CallState
    <3>5. call.kind = "grep" => call.perFile < MaxPerFile /\ Len(call.hits) < MaxMatches
      BY <1>1 DEF IInv, CallInv
    <3>6. /\ room \in Nat \ {0}
          /\ call.kind = "grep" =>
               room <= MaxPerFile - call.perFile /\ room <= MaxMatches - Len(call.hits)
      BY <1>1, <3>4, <3>5, LimitFacts DEF Smaller
    <3>7. taken \in Nat /\ taken <= room
      BY <3>3, <3>6 DEF Smaller
    <3> HIDE DEF room, taken
    <3>8. FirstHits(taken) \in Seq(Hit) /\ Len(FirstHits(taken)) = taken
      BY <3>3, <3>7, FirstHitsType
    <3>9. /\ call.hits \o FirstHits(taken) \in Seq(Hit)
          /\ Len(call.hits \o FirstHits(taken)) = Len(call.hits) + taken
      BY <3>4, <3>8, ConcatHits
    <3>10. call.page + 1 \in 1..MaxPage + 1
      BY <3>3, LimitFacts DEF Pages
    <3>11. call.scanned + 1 \in Nat /\ call.perFile + taken \in Nat
      BY <3>4, <3>7
    <3>12. call' \in CallState
      BY <1>1, <3>2, <3>9, <3>10, <3>11 DEF CallState
    <3>13. /\ call'.found = call.found /\ call'.doc = call.doc /\ call'.kind = call.kind
           /\ call'.pc = IF taken = room THEN "scan" ELSE "page"
           /\ call'.perFile = call.perFile + taken
           /\ call'.hits = call.hits \o FirstHits(taken)
      BY <1>1, <3>2 DEF CallState
    <3>14. Held' \subseteq Held
      BY <1>1, <3>13 DEF Held
    <3>15. CallInv'
      <4>1. ASSUME call'.pc = "page", call'.kind = "grep"
            PROVE  call'.perFile < MaxPerFile /\ Len(call'.hits) < MaxMatches
        BY <3>4, <3>6, <3>7, <3>9, <3>13, <4>1, LimitFacts
      <4>2. call'.kind \notin Scans
        BY <1>1, <3>13 DEF Scans
      <4>3. QED BY <1>1, <3>13, <4>1, <4>2 DEF CallInv
    <3>16. OnlyDeletionFails'
      BY <3>13 DEF OnlyDeletionFails
    <3>17. QED BY <3>2, <3>12, <3>14, <3>15, <3>16, HeldShrinks, CallFrame
  <2>4. QED BY <2>2, <2>3
<1>6. QED BY <1>3, <1>4, <1>5

(* read and outline look the row up: its pages are there.                  *)
LEMMA StatStep ==
  ASSUME IInv, Stat
  PROVE  IInv'
<1>1. /\ call \in CallState /\ call.pc = "stat" /\ call.kind \in Scans
      /\ call.doc.path \in Paths
  BY DEF IInv, TypeOK, CallInv, Stat
<1> DEFINE r == row[call.doc.path]
           end == IF call.kind = "read" THEN Window(call.page, r.pages)
                                        ELSE Smaller(r.pages, MaxScanPages)
           doc == [path |-> call.doc.path, id |-> r.id, pages |-> r.pages]
<1>2. r \in Row
  BY <1>1 DEF IInv, TypeOK
<1>3. CASE ~r.live \/ ~r.extracted
  <2>1. ReaderMoves([call EXCEPT !.pc = "refused"])
    BY <1>3 DEF Stat
  <2>2. /\ call' = [call EXCEPT !.pc = "refused"] /\ UNCHANGED writeVars /\ UNCHANGED kept
        /\ steady' \subseteq Paths /\ kept' \subseteq Paths
    BY <2>1, MovesFacts
  <2>3. call' \in CallState /\ call'.pc = "refused" /\ call'.found = call.found
    BY <1>1, <2>2 DEF CallState
  <2>4. Held' \subseteq Held
    BY <2>3 DEF Held
  <2>5. CallInv' /\ OnlyDeletionFails'
    BY <2>3 DEF CallInv, OnlyDeletionFails
  <2>6. QED BY <2>2, <2>3, <2>4, <2>5, HeldShrinks, CallFrame
<1>4. CASE ~(~r.live \/ ~r.extracted)
  <2>1. ReaderMoves([call EXCEPT !.pc = "page", !.end = end, !.truncated = Cut(end, r.pages),
                                 !.doc = doc])
    BY <1>4 DEF Stat
  <2>2. /\ call' = [call EXCEPT !.pc = "page", !.end = end, !.truncated = Cut(end, r.pages),
                                !.doc = doc]
        /\ UNCHANGED writeVars /\ UNCHANGED kept /\ UNCHANGED <<row, text>>
        /\ steady' \subseteq Paths /\ kept' \subseteq Paths
    BY <2>1, MovesFacts
  <2>3. end \in 0..MaxPage /\ end <= r.pages
    <3>1. r.pages \in 0..MaxPage /\ call.page \in 1..MaxPage + 1
      BY <1>1, <1>2 DEF Row, CallState
    <3>2. QED BY <3>1, LimitFacts DEF Window, Smaller
  <2>4. doc \in Doc /\ doc.path \in Paths /\ doc.id \in Ids /\ doc.id[1] = doc.path
        /\ row[doc.path].live /\ row[doc.path].id = doc.id /\ HasText(doc.id, doc.pages)
    <3>1. r.live /\ r.id \in Ids /\ r.id[1] = call.doc.path /\ HasText(r.id, r.pages)
      BY <1>1, <1>4 DEF IInv, RowsHaveText
    <3>2. QED BY <1>1, <1>2, <3>1 DEF Doc, Row
  <2>5. Cut(end, r.pages) \in BOOLEAN
    BY DEF Cut
  <2> HIDE DEF end, doc, r
  <2>6. call' \in CallState
    BY <1>1, <1>2, <2>2, <2>3, <2>4, <2>5 DEF CallState
  <2>7. /\ call'.pc = "page" /\ call'.kind = call.kind /\ call'.found = call.found
        /\ call'.doc = doc /\ call'.end = end
    BY <1>1, <2>2 DEF CallState
  <2>8. HeldInv'
    <3>1. Held' = call.found \union {doc}
      BY <2>7 DEF Held
    <3>2. \A d \in call.found :
            /\ d.path \in Paths /\ d.id \in Ids /\ d.id[1] = d.path
            /\ d.path \in kept =>
                 row[d.path].live /\ row[d.path].id = d.id /\ HasText(d.id, d.pages)
      BY DEF IInv, HeldInv, Held
    <3>3. QED BY <2>2, <2>4, <3>1, <3>2 DEF HeldInv, HasText
  <2>9. CallInv' /\ OnlyDeletionFails'
    <3>1. end <= doc.pages
      BY <2>3 DEF doc
    <3>2. QED BY <1>1, <2>7, <3>1 DEF CallInv, OnlyDeletionFails, Scans
  <2>10. QED BY <2>2, <2>6, <2>8, <2>9, CallFrame
<1>5. QED BY <1>3, <1>4

(* A scan that stays within its document's pages, or that ends its window. *)
LEMMA ScanFrame ==
  ASSUME IInv, call.pc = "page", call.kind \in Scans,
         NEW pc \in {"page", "stat", "done"}, NEW hits \in Seq(Hit),
         NEW page \in 1..MaxPage + 1, NEW cut \in BOOLEAN,
         ReaderMoves(call'),
         call' = [call EXCEPT !.pc = pc, !.hits = hits, !.page = page, !.truncated = cut]
  PROVE  IInv'
<1>1. call \in CallState
  BY DEF IInv, TypeOK
<1>2. /\ call' = [call EXCEPT !.pc = pc, !.hits = hits, !.page = page, !.truncated = cut]
      /\ UNCHANGED writeVars /\ UNCHANGED kept
      /\ steady' \subseteq Paths /\ kept' \subseteq Paths
  BY MovesFacts
<1>3. /\ call' \in CallState /\ call'.pc = pc /\ call'.kind = call.kind
      /\ call'.found = call.found /\ call'.doc = call.doc /\ call'.end = call.end
  BY <1>1, <1>2 DEF CallState
<1>4. Held' \subseteq Held
  BY <1>3 DEF Held
<1>5. call.doc.path \in Paths /\ call.end <= call.doc.pages
  <2>1. call.doc \in Held
    BY DEF Held
  <2>2. QED BY <2>1 DEF IInv, HeldInv, CallInv
<1>6. CallInv' /\ OnlyDeletionFails'
  BY <1>3, <1>5 DEF CallInv, OnlyDeletionFails, Scans
<1>7. QED BY <1>2, <1>3, <1>4, <1>6, HeldShrinks, CallFrame

(* read fetches a page of its window, or ends the window.                  *)
LEMMA ReadPageStep ==
  ASSUME IInv, ReadPage
  PROVE  IInv'
<1>1. /\ call \in CallState /\ call.kind = "read" /\ call.kind \in Scans /\ call.pc = "page"
      /\ call.end <= call.doc.pages
  BY DEF IInv, TypeOK, CallInv, ReadPage, Scans
<1>2. /\ call.hits \in Seq(Hit) /\ call.truncated \in BOOLEAN
      /\ call.page \in 1..MaxPage + 1 /\ call.end \in 0..MaxPage /\ call.doc.pages \in 0..MaxPage
  BY <1>1 DEF CallState, Doc
<1>3. CASE call.page > call.end
  <2> DEFINE pc == IF call.truncated THEN "stat" ELSE "done"
  <2>1. ReaderMoves([call EXCEPT !.pc = pc])
    BY <1>1, <1>3 DEF ReadPage
  <2>2. pc \in {"page", "stat", "done"}
    OBVIOUS
  <2> HIDE DEF pc
  <2>3. ReaderMoves(call') /\ call' =
        [call EXCEPT !.pc = pc, !.hits = call.hits, !.page = call.page,
                     !.truncated = call.truncated]
    BY <1>1, <2>1 DEF CallState, ReaderMoves
  <2>4. QED BY <1>1, <1>2, <2>2, <2>3, ScanFrame
<1>4. CASE ~(call.page > call.end)
  <2>1. call.page <= call.doc.pages
    BY <1>1, <1>2, <1>4, LimitFacts
  <2>2. CASE FetchedPage = NoPage
    BY <1>1, <1>4, <2>1, <2>2, MissedPage DEF ReadPage
  <2>3. CASE FetchedPage # NoPage
    <3>1. call.doc.path \in Paths /\ call.page \in Pages /\ FetchedPage \in Nat
      BY <1>1, <2>1, <2>3, FetchFacts
    <3> DEFINE hits == Append(call.hits, <<call.doc.path, call.page, FetchedPage>>)
               page == call.page + 1
    <3>2. ReaderMoves([call EXCEPT !.hits = hits, !.page = page])
      BY <1>1, <1>4, <2>3 DEF ReadPage
    <3>3. hits \in Seq(Hit)
      <4>1. <<call.doc.path, call.page, FetchedPage>> \in Hit
        BY <3>1 DEF Hit
      <4>2. QED BY <1>2, <4>1, AppendProperties
    <3>4. page \in 1..MaxPage + 1
      BY <3>1, LimitFacts DEF Pages
    <3> HIDE DEF hits, page
    <3>5. ReaderMoves(call') /\ call' =
          [call EXCEPT !.pc = "page", !.hits = hits, !.page = page,
                       !.truncated = call.truncated]
      BY <1>1, <3>2 DEF CallState, ReaderMoves
    <3>6. QED BY <1>1, <1>2, <3>3, <3>4, <3>5, ScanFrame
  <2>4. QED BY <2>2, <2>3
<1>5. QED BY <1>3, <1>4

(* outline fetches a page, or ends.                                        *)
LEMMA OutlinePageStep ==
  ASSUME IInv, OutlinePage
  PROVE  IInv'
<1>1. /\ call \in CallState /\ call.kind = "outline" /\ call.kind \in Scans /\ call.pc = "page"
      /\ call.end <= call.doc.pages
  BY DEF IInv, TypeOK, CallInv, OutlinePage, Scans
<1>2. /\ call.hits \in Seq(Hit) /\ Len(call.hits) \in Nat /\ call.truncated \in BOOLEAN
      /\ call.page \in 1..MaxPage + 1 /\ call.end \in 0..MaxPage /\ call.doc.pages \in 0..MaxPage
  BY <1>1, LenProperties DEF CallState, Doc
<1>3. CASE call.page > call.end
  <2>1. ReaderMoves([call EXCEPT !.pc = "done"])
    BY <1>1, <1>3 DEF OutlinePage
  <2>2. ReaderMoves(call') /\ call' =
        [call EXCEPT !.pc = "done", !.hits = call.hits, !.page = call.page,
                     !.truncated = call.truncated]
    BY <1>1, <2>1 DEF CallState, ReaderMoves
  <2>3. QED BY <1>1, <1>2, <2>2, ScanFrame
<1>4. CASE ~(call.page > call.end) /\ Len(call.hits) >= MaxItems
  <2>1. ReaderMoves([call EXCEPT !.pc = "done", !.truncated = TRUE])
    BY <1>1, <1>4 DEF OutlinePage
  <2>2. ReaderMoves(call') /\ call' =
        [call EXCEPT !.pc = "done", !.hits = call.hits, !.page = call.page, !.truncated = TRUE]
    BY <1>1, <2>1 DEF CallState, ReaderMoves
  <2>3. QED BY <1>1, <1>2, <2>2, ScanFrame
<1>5. CASE ~(call.page > call.end) /\ ~(Len(call.hits) >= MaxItems)
  <2>1. call.page <= call.doc.pages
    BY <1>1, <1>2, <1>5, LimitFacts
  <2>2. CASE FetchedPage = NoPage
    BY <1>1, <1>5, <2>1, <2>2, MissedPage DEF OutlinePage
  <2>3. CASE FetchedPage # NoPage
    <3>1. call.doc.path \in Paths /\ call.page \in Pages /\ FetchedPage \in Nat
      BY <1>1, <2>1, <2>3, FetchFacts
    <3> DEFINE room == MaxItems - Len(call.hits)
               taken == Smaller(FetchedPage, room)
               hits == call.hits \o FirstHits(taken)
               page == call.page + 1
               cut == call.truncated \/ FetchedPage >= room
    <3>2. ReaderMoves([call EXCEPT !.hits = hits, !.truncated = cut, !.page = page])
      BY <1>1, <1>5, <2>3 DEF OutlinePage
    <3>3. taken \in Nat
      BY <1>2, <1>5, <3>1, LimitFacts DEF Smaller
    <3>4. hits \in Seq(Hit)
      <4> HIDE DEF taken
      <4>1. FirstHits(taken) \in Seq(Hit)
        BY <3>1, <3>3, FirstHitsType
      <4>2. QED BY <1>2, <4>1, ConcatHits
    <3>5. page \in 1..MaxPage + 1
      BY <3>1, LimitFacts DEF Pages
    <3>6. cut \in BOOLEAN
      BY <1>2
    <3> HIDE DEF hits, page, cut
    <3>7. ReaderMoves(call') /\ call' =
          [call EXCEPT !.pc = "page", !.hits = hits, !.page = page, !.truncated = cut]
      BY <1>1, <3>2 DEF CallState, ReaderMoves
    <3>8. QED BY <1>1, <3>4, <3>5, <3>6, <3>7, ScanFrame
  <2>4. QED BY <2>2, <2>3
<1>6. QED BY <1>3, <1>4, <1>5

-----------------------------------------------------------------------------
(* Every step keeps the invariant.                                         *)
LEMMA StepIInv == IInv /\ [Next]_vars => IInv'
<1> SUFFICES ASSUME IInv, [Next]_vars PROVE IInv'
  OBVIOUS
<1>1. CASE BeginCall
  BY <1>1, BeginStep
<1>2. CASE CallStep
  BY <1>2, WalkStep, GrepEndsStep, GrepOpenStep, GrepPageStep, StatStep, ReadPageStep,
     OutlinePageStep DEF CallStep
<1>3. CASE WriterStep
  BY <1>3, DeleteBeginStep, PutBeginStep, PutPageStep, PutRowStep, DeleteRowStep,
     DeleteTextStep, WriterCrashStep DEF WriterStep
<1>4. CASE UNCHANGED vars
  <2>1. /\ UNCHANGED writeVars /\ UNCHANGED <<call, steady, kept>>
        /\ UNCHANGED <<row, text>>
    BY <1>4 DEF vars, writeVars
  <2>2. HeldInv' /\ CallInv' /\ OnlyDeletionFails'
    BY <2>1, HeldFrame
  <2>3. call' \in CallState /\ steady' \subseteq Paths /\ kept' \subseteq Paths
    BY <2>1 DEF IInv, TypeOK
  <2>4. QED BY <2>1, <2>2, <2>3, CallFrame
<1>5. QED BY <1>1, <1>2, <1>3, <1>4 DEF Next

(* The invariant: what a call holds of a document that no delete took from *)
(* it is the row's own id, and pages that are there.                       *)
THEOREM ReadInvariance == Spec => []IInv
<1>1. QED BY InitIInv, StepIInv, PTL DEF Spec

(* Rows, text, the writer and the call have values of the right kind: no   *)
(* scan runs past the largest document, and no budget is overdrawn.        *)
THEOREM ReadTypeCorrect == Spec => []TypeOK
<1>1. IInv => TypeOK
  BY DEF IInv
<1>2. QED BY <1>1, ReadInvariance, PTL

(* Only a deletion makes a read, an outline or a grep miss a page; putting *)
(* the document again, extracting it later and a writer that dies do not.  *)
THEOREM DeletionAloneFails == Spec => []OnlyDeletionFails
<1>1. IInv => OnlyDeletionFails
  BY DEF IInv
<1>2. QED BY <1>1, ReadInvariance, PTL

-----------------------------------------------------------------------------
(* Completeness: what is true of the documents no writer touched.          *)

(* A writer is at none of them.                                            *)
Untouched == writer.pc # "idle" => writer.path \notin steady

(* Patterns are what globs are.                                            *)
WantInv == call.want.typed \subseteq call.want.match /\ call.want.match \subseteq call.want.under

(* The calls that collect candidates to open them.                         *)
Searching == call.kind \in {"grep", "files"}

(* Does the walk collect this path, as it is now?                          *)
Answers(p) ==
  row[p].live /\
    CASE call.kind \in {"list", "tree"} -> p \in call.want.under
      [] call.kind = "find" -> p \in call.want.typed
      [] call.kind = "glob" -> p \in call.want.match
      [] call.kind \in {"grep", "files"} -> p \in call.want.match /\ row[p].extracted

(* The paths collected, and those of what a grep has yet to open or read.  *)
FoundPaths == {d.path : d \in call.found}

(* What was collected of a document that stayed as it was is the document, *)
(* and no path was collected twice.                                        *)
IsCurrent(d) == Answers(d.path) /\ d.id = row[d.path].id /\ d.pages = row[d.path].pages

FoundInv ==
  call.kind \in Walks =>
    /\ \A d, e \in call.found : d.path = e.path => d = e
    /\ \A d \in call.found : d.path \in steady => IsCurrent(d)
    /\ ~Searching \/ call.pc = "walk" => Cardinality(FoundPaths) = call.count

(* A walk has collected what it looks for up to its cursor, nothing beyond *)
(* it, and everything when it ends short of its limit.                     *)
WalkInv ==
  call.kind \in Walks =>
    /\ call.pc = "walk" =>
         /\ \A d \in call.found : d.path <= call.cursor
         /\ \A p \in steady : Answers(p) /\ p <= call.cursor => p \in FoundPaths
    /\ call.pc = "done" /\ ~Searching /\ ~call.filled =>
         \A p \in steady : Answers(p) => p \in FoundPaths

(* The matches on the first k pages of a path.                             *)
HitsTo(p, k) == UNION {{<<p, n, i>> : i \in 1..text[row[p].id][n]} : n \in 1..k}

(* A grep that does not claim to be complete.                              *)
Excused ==
  call.truncated \/ call.filled \/ (call.kind = "grep" /\ Len(call.hits) >= MaxMatches)

HeldPaths == {d.path : d \in Held}

(* Of a document a grep is through with, the first matches are reported;   *)
(* of one that waits, none; of the one at hand, those on the pages before. *)
GrepInv ==
  Searching =>
    /\ call.pc \in {"scan", "page", "done"} /\ ~Excused =>
         \A p \in Expected : p \notin HeldPaths => ReportsFirst(p, PerFile)
    /\ call.pc = "walk" => call.hits = <<>>
    /\ call.pc \in {"scan", "page"} => \A d \in call.found : Reported(d.path) = {}
    /\ call.pc = "done" /\ ~call.truncated => call.found = {}
    /\ call.pc = "page" =>
         /\ call.doc.path \notin FoundPaths
         /\ call.page <= call.doc.pages + 1
         /\ call.perFile < PerFile
         /\ call.doc.path \in steady =>
              /\ IsCurrent(call.doc)
              /\ Reported(call.doc.path) = HitsTo(call.doc.path, call.page - 1)
              /\ Cardinality(Reported(call.doc.path)) = call.perFile

(* The document a scan is in.                                              *)
Scanned ==
  call.kind \in Scans /\ call.pc = "page" /\ call.doc.path \in steady =>
    /\ row[call.doc.path].live
    /\ call.doc.id = row[call.doc.path].id /\ call.doc.pages = row[call.doc.path].pages
    /\ call.page <= call.end + 1

(* A read has the pages up to where it is, and at its end all of them.     *)
ReadInv ==
  call.kind = "read" /\ call.pc \in {"stat", "page", "done"} /\ call.doc.path \in steady =>
    LET p == call.doc.path
        r == row[p]
    IN  /\ call.hits = [n \in 1..call.page - 1 |-> <<p, n, text[r.id][n]>>]
        /\ call.page <= r.pages + 1
        /\ call.page > 1 \/ call.pc # "stat" => r.live
        /\ call.pc = "page" => call.truncated = (call.end < r.pages)
        /\ call.pc = "done" => call.page = r.pages + 1

(* An outline that is not truncated has the headings up to where it is, in *)
(* order.                                                                  *)
OutlineInv ==
  call.kind = "outline" /\ call.doc.path \in steady =>
    /\ call.pc = "stat" => call.page = 1 /\ call.hits = <<>>
    /\ call.pc \in {"page", "done"} /\ ~call.truncated =>
         LET p == call.doc.path
         IN  /\ row[p].live
             /\ ToSet(call.hits) = HitsTo(p, call.page - 1)
             /\ \A i, j \in DOMAIN call.hits : i < j => Before(call.hits[i], call.hits[j])
             /\ Len(call.hits) < MaxItems
             /\ call.pc = "page" => call.end = row[p].pages
             /\ call.pc = "done" => call.page = row[p].pages + 1

(* The strengthening, all of it.                                           *)
AnswerInv ==
  /\ Untouched /\ WantInv /\ FoundInv /\ WalkInv
  /\ GrepInv /\ Scanned /\ ReadInv /\ OutlineInv

-----------------------------------------------------------------------------
(* The first k elements of a set of integers.                              *)
FirstFew(S, k) == {p \in S : Cardinality({q \in S : q <= p}) <= k}

(* They are k, or all when there are fewer, and nothing of the set lies    *)
(* between them.                                                           *)
LEMMA FirstFewFacts ==
  ASSUME NEW S \in SUBSET Int, IsFiniteSet(S), NEW k \in Nat
  PROVE  /\ Cardinality(FirstFew(S, k)) = Smaller(Cardinality(S), k)
         /\ \A p \in FirstFew(S, k), q \in S : q <= p => q \in FirstFew(S, k)
         /\ Cardinality(S) <= k => FirstFew(S, k) = S
<1> DEFINE F == FirstFew(S, k)
           Upto(p) == {q \in S : q <= p}
<1>1. Cardinality(S) \in Nat /\ IsFiniteSet(F) /\ Cardinality(F) \in Nat
  <2>1. F \in SUBSET S
    BY DEF FirstFew
  <2>2. QED BY <2>1, FS_Subset, FS_CardinalityType
<1>2. ASSUME NEW p \in S
      PROVE  /\ IsFiniteSet(Upto(p)) /\ Cardinality(Upto(p)) \in Nat
             /\ Cardinality(Upto(p)) <= Cardinality(S)
             /\ \A q \in S : q <= p => Cardinality(Upto(q)) <= Cardinality(Upto(p))
  <2>1. Upto(p) \in SUBSET S
    OBVIOUS
  <2>2. IsFiniteSet(Upto(p)) /\ Cardinality(Upto(p)) <= Cardinality(S)
    BY <2>1, FS_Subset
  <2>3. ASSUME NEW q \in S, q <= p
        PROVE  Cardinality(Upto(q)) <= Cardinality(Upto(p))
    <3>1. \A x \in S : x <= q => x <= p
      BY <2>3
    <3>2. Upto(q) \in SUBSET Upto(p)
      BY <3>1
    <3>3. QED BY <2>2, <3>2, FS_Subset
  <2>4. QED BY <2>2, <2>3, FS_CardinalityType
<1>3. ASSUME NEW p \in F, NEW q \in S, q <= p
      PROVE  q \in F
  <2>1. p \in S /\ Cardinality(Upto(p)) <= k
    BY DEF FirstFew
  <2>2. Cardinality(Upto(q)) <= Cardinality(Upto(p)) /\ Cardinality(Upto(q)) \in Nat
    BY <1>2, <1>3, <2>1
  <2>3. Cardinality(Upto(p)) \in Nat
    BY <1>2, <2>1
  <2>4. Cardinality(Upto(q)) <= k
    BY <2>1, <2>2, <2>3
  <2>5. QED BY <2>4 DEF FirstFew
<1>4. ASSUME Cardinality(S) <= k
      PROVE  F = S
  <2>1. ASSUME NEW p \in S
        PROVE  Cardinality(Upto(p)) <= k
    BY <1>1, <1>2, <1>4
  <2>2. QED BY <2>1 DEF FirstFew
<1>5. Cardinality(F) <= k
  <2>1. CASE F = {}
    BY <2>1, FS_EmptySet
  <2>2. CASE F # {}
    <3>1. F \in SUBSET Int
      BY DEF FirstFew
    <3>2. PICK m \in F : \A p \in F : p <= m
      BY <1>1, <2>2, <3>1, LeastAndLast
    <3>3. m \in S /\ Cardinality(Upto(m)) <= k
      BY DEF FirstFew
    <3>4. F \in SUBSET Upto(m)
      BY <3>2 DEF FirstFew
    <3>5. Cardinality(F) <= Cardinality(Upto(m)) /\ Cardinality(Upto(m)) \in Nat
      BY <1>2, <3>3, <3>4, FS_Subset
    <3>6. QED BY <1>1, <3>3, <3>5
  <2>3. QED BY <2>1, <2>2
<1>6. ASSUME F = S
      PROVE  Cardinality(F) = Smaller(Cardinality(S), k)
  BY <1>1, <1>5, <1>6 DEF Smaller
<1>7. ASSUME F # S
      PROVE  Cardinality(F) = Smaller(Cardinality(S), k)
  <2> DEFINE rest == S \ F
  <2>1. rest \in SUBSET Int /\ rest # {} /\ IsFiniteSet(rest)
    <3>1. F \subseteq S
      BY DEF FirstFew
    <3>2. QED BY <1>7, <3>1, FS_Difference
  <2>2. PICK p \in rest : \A q \in rest : p <= q
    BY <2>1, LeastAndLast
  <2>3. ~(Cardinality(Upto(p)) <= k) /\ p \in S /\ p \notin F
    BY DEF FirstFew
  <2> DEFINE below == Upto(p) \ {p}
  <2>4. below \in SUBSET F
    <3>1. ASSUME NEW q \in S, q <= p, q # p
          PROVE  q \in F
      BY <2>2, <3>1
    <3>2. QED BY <3>1
  <2>5. Cardinality(below) = Cardinality(Upto(p)) - 1
    <3>1. p \in Upto(p) /\ IsFiniteSet(Upto(p))
      BY <1>2, <2>3
    <3>2. QED BY <3>1, FS_RemoveElement
  <2>6. Cardinality(below) <= Cardinality(F)
    BY <1>1, <2>4, FS_Subset
  <2>7. Cardinality(Upto(p)) \in Nat /\ Cardinality(Upto(p)) <= Cardinality(S)
    BY <1>2, <2>3
  <2> HIDE DEF F, below, Upto
  <2>8. Cardinality(F) = k /\ k <= Cardinality(S)
    BY <1>1, <1>5, <2>3, <2>5, <2>6, <2>7
  <2>9. QED BY <1>1, <2>8 DEF Smaller
<1>8. QED BY <1>3, <1>4, <1>6, <1>7

-----------------------------------------------------------------------------
(* A step leaves the row and the text of a path as they were.              *)
Same(p) == row'[p] = row[p] /\ \A i \in Ids : i[1] = p => text'[i] = text[i]

(* A writer's step leaves the call, and the rows and the text of what no   *)
(* writer touched, as they were.                                           *)
LEMMA WriterSteady ==
  ASSUME IInv, Untouched, WriterStep
  PROVE  /\ UNCHANGED call /\ steady' \subseteq steady /\ Untouched'
         /\ \A p \in steady' : Same(p)
<1>1. TypeOK /\ steady \subseteq Paths
  BY DEF IInv, TypeOK
<1>2. writer.pc # "idle" => /\ writer.path \in Paths /\ writer.id \in Ids
                            /\ writer.id[1] = writer.path /\ writer.path \notin steady
  BY DEF IInv, WriterInv, Untouched
<1>3. ASSUME NEW p \in Paths, NEW c \in Contents \union {Unread}, PutBegin(p, c)
      PROVE  /\ UNCHANGED <<row, text, call>> /\ steady' = steady \ {p} /\ writer'.path = p
  BY <1>3 DEF PutBegin, WriterBegins
<1>4. ASSUME NEW p \in Paths, DeleteBegin(p)
      PROVE  /\ UNCHANGED <<row, text, call>> /\ steady' = steady \ {p} /\ writer'.path = p
  BY <1>4 DEF DeleteBegin, WriterBegins, NoWriter
<1>5. CASE PutPage
  <2>1. /\ writer.pc = "pages" /\ UNCHANGED <<row, call, steady>>
        /\ text' = [text EXCEPT ![writer.id][writer.page] = writer.content[writer.page]]
        /\ writer' = [writer EXCEPT !.page = @ + 1]
    BY <1>5 DEF PutPage
  <2>2. writer'.path = writer.path /\ writer'.pc = writer.pc
    BY <1>1, <2>1 DEF TypeOK, Writer
  <2>3. \A i \in Ids : i[1] # writer.path => text'[i] = text[i]
    BY <1>1, <1>2, <2>1 DEF TypeOK
  <2>4. QED BY <1>2, <2>1, <2>2, <2>3 DEF Untouched, Same
<1>6. CASE PutRow
  <2>1. /\ writer.pc = "pages" /\ UNCHANGED <<text, call, steady>> /\ writer'.pc = "idle"
        /\ \A p \in Paths : p # writer.path => row'[p] = row[p]
    BY <1>1, <1>6 DEF PutRow, NoWriter, TypeOK
  <2>2. QED BY <1>1, <1>2, <2>1 DEF Untouched, Same
<1>7. CASE DeleteRow
  <2>1. /\ writer.pc = "delete" /\ UNCHANGED <<text, call, steady>>
        /\ row' = [row EXCEPT ![writer.path].live = FALSE]
        /\ writer' = [writer EXCEPT !.pc = "text"]
    BY <1>7 DEF DeleteRow
  <2>2. writer'.path = writer.path
    BY <1>1, <2>1 DEF TypeOK, Writer
  <2>3. \A p \in Paths : p # writer.path => row'[p] = row[p]
    BY <1>1, <2>1 DEF TypeOK
  <2>4. QED BY <1>1, <1>2, <2>1, <2>2, <2>3 DEF Untouched, Same
<1>8. CASE DeleteText
  <2>1. /\ writer.pc = "text" /\ UNCHANGED <<row, call, steady>> /\ writer'.pc = "idle"
        /\ text' = [text EXCEPT ![writer.id] = [n \in Pages |-> NoPage]]
    BY <1>8 DEF DeleteText, NoWriter
  <2>2. \A i \in Ids : i[1] # writer.path => text'[i] = text[i]
    BY <1>1, <1>2, <2>1 DEF TypeOK
  <2>3. QED BY <1>1, <1>2, <2>1, <2>2 DEF Untouched, Same
<1>9. CASE WriterCrash
  BY <1>9 DEF WriterCrash, Untouched, Same, NoWriter
<1>10. ASSUME NEW p \in Paths, UNCHANGED <<row, text, call>>, steady' = steady \ {p},
              writer'.path = p
       PROVE  /\ UNCHANGED call /\ steady' \subseteq steady /\ Untouched'
              /\ \A q \in steady' : Same(q)
  BY <1>10 DEF Untouched, Same
<1>11. QED BY <1>3, <1>4, <1>5, <1>6, <1>7, <1>8, <1>9, <1>10 DEF WriterStep

-----------------------------------------------------------------------------
(* What AnswerInv says stays true under a writer's steps.                  *)

(* Then all that the answer is compared with stays as it was.              *)
LEMMA SameFacts ==
  ASSUME IInv, UNCHANGED call, NEW p \in Paths, Same(p)
  PROVE  /\ Answers(p)' = Answers(p)
         /\ \A k : row[p].live => HitsTo(p, k)' = HitsTo(p, k)
         /\ row[p].live => row'[p] = row[p] /\ text'[row[p].id] = text[row[p].id]
         /\ row[p].live => HitsIn(p)' = HitsIn(p)
         /\ row[p].live => \A k : ReportsFirst(p, k)' = ReportsFirst(p, k)
<1>1. row'[p] = row[p] /\ row[p].live => text'[row[p].id] = text[row[p].id]
  BY DEF IInv, RowsHaveText, Same
<1>2. Answers(p)' = Answers(p)
  BY <1>1 DEF Answers, Same
<1>3. row[p].live => \A k : HitsTo(p, k)' = HitsTo(p, k)
  BY <1>1 DEF HitsTo, Same
<1>4. row[p].live => HitsIn(p)' = HitsIn(p)
  BY <1>1 DEF HitsIn, Same
<1>5. Reported(p)' = Reported(p)
  BY DEF Reported
<1>6. row[p].live => \A k : ReportsFirst(p, k)' = ReportsFirst(p, k)
  BY <1>4, <1>5 DEF ReportsFirst
<1>7. QED BY <1>1, <1>2, <1>3, <1>4, <1>6 DEF Same

(* What leaves the call and the steady paths as they were keeps all that   *)
(* the invariant says: a writer's step, or none.                           *)
LEMMA AnswersFrame ==
  ASSUME IInv, AnswerInv, UNCHANGED call, steady' \subseteq steady, Untouched',
         \A p \in steady' : Same(p)
  PROVE  AnswerInv'
<1>1. steady \subseteq Paths /\ call' = call
  BY DEF IInv, TypeOK
<1>2. ASSUME NEW p \in steady'
      PROVE  /\ p \in steady /\ p \in Paths /\ row'[p] = row[p]
             /\ Answers(p)' = Answers(p)
             /\ row[p].live => /\ \A k : HitsTo(p, k)' = HitsTo(p, k)
                               /\ text'[row[p].id] = text[row[p].id]
                               /\ \A k : ReportsFirst(p, k)' = ReportsFirst(p, k)
  BY <1>1, <1>2, SameFacts DEF Same
<1>3. WantInv'
  BY <1>1 DEF AnswerInv, WantInv
<1>4. FoundPaths' = FoundPaths /\ HeldPaths' = HeldPaths /\ PerFile' = PerFile
  BY <1>1 DEF FoundPaths, HeldPaths, Held, PerFile
<1>5. FoundInv'
  <2>1. ASSUME NEW d \in call.found, d.path \in steady', call.kind \in Walks
        PROVE  IsCurrent(d)'
    <3>1. IsCurrent(d)
      BY <1>2, <2>1 DEF AnswerInv, FoundInv
    <3>2. QED BY <1>2, <2>1, <3>1 DEF IsCurrent
  <2>2. QED BY <1>1, <1>4, <2>1 DEF AnswerInv, FoundInv, Searching
<1>6. WalkInv'
  BY <1>1, <1>2, <1>4 DEF AnswerInv, WalkInv, Searching
<1>7. GrepInv'
  <2> SUFFICES ASSUME Searching PROVE GrepInv'
    BY <1>1 DEF GrepInv, Searching
  <2>1. ASSUME call.pc \in {"scan", "page", "done"}, ~Excused, NEW p \in Expected',
               p \notin HeldPaths
        PROVE  ReportsFirst(p, PerFile)'
    <3>1. p \in steady' /\ row'[p].live
      BY <2>1 DEF Expected
    <3>2. p \in Expected /\ row[p].live
      BY <1>1, <1>2, <2>1, <3>1 DEF Expected
    <3>3. ReportsFirst(p, PerFile)
      BY <2>1, <3>2 DEF AnswerInv, GrepInv
    <3>4. QED BY <1>2, <1>4, <3>1, <3>2, <3>3
  <2>2. Excused' = Excused
    BY <1>1 DEF Excused
  <2>3. ASSUME call.pc = "page", call.doc.path \in steady'
        PROVE  /\ IsCurrent(call.doc)'
               /\ Reported(call.doc.path)' = HitsTo(call.doc.path, call.page - 1)'
               /\ Cardinality(Reported(call.doc.path))' = call'.perFile
    <3> DEFINE p == call.doc.path
    <3>1. /\ IsCurrent(call.doc) /\ Reported(p) = HitsTo(p, call.page - 1)
          /\ Cardinality(Reported(p)) = call.perFile
      BY <1>2, <2>3 DEF AnswerInv, GrepInv
    <3>2. p \in steady' /\ Answers(p) /\ row[p].live
      BY <2>3, <3>1 DEF IsCurrent, Answers
    <3>3. IsCurrent(call.doc)'
      BY <1>1, <1>2, <3>1, <3>2 DEF IsCurrent
    <3>4. Reported(p)' = Reported(p)
      BY <1>1 DEF Reported
    <3>5. HitsTo(p, call.page - 1)' = HitsTo(p, call.page - 1)
      <4>1. row'[p] = row[p] /\ text'[row[p].id] = text[row[p].id]
        BY <1>2, <3>2
      <4>2. QED BY <1>1, <4>1 DEF HitsTo
    <3>6. QED BY <1>1, <3>1, <3>3, <3>4, <3>5
  <2>4. \A d \in call.found : Reported(d.path)' = Reported(d.path)
    BY <1>1 DEF Reported
  <2>5. QED BY <1>1, <1>4, <2>1, <2>2, <2>3, <2>4 DEF AnswerInv, GrepInv, Searching
<1>8. Scanned'
  BY <1>1, <1>2 DEF AnswerInv, Scanned
<1>9. ReadInv'
  <2> SUFFICES ASSUME call.kind = "read", call.pc \in {"stat", "page", "done"},
                      call.doc.path \in steady'
               PROVE  ReadInv'
    BY <1>1 DEF ReadInv
  <2> DEFINE p == call.doc.path
  <2>1. /\ call.hits = [n \in 1..call.page - 1 |-> <<p, n, text[row[p].id][n]>>]
        /\ call.page <= row[p].pages + 1
        /\ call.page > 1 \/ call.pc # "stat" => row[p].live
        /\ call.pc = "page" => call.truncated = (call.end < row[p].pages)
        /\ call.pc = "done" => call.page = row[p].pages + 1
    BY <1>2 DEF AnswerInv, ReadInv
  <2>2. row'[p] = row[p]
    BY <1>2
  <2>3. call.hits = [n \in 1..call.page - 1 |-> <<p, n, text'[row[p].id][n]>>]
    <3>1. CASE row[p].live
      BY <1>2, <2>1, <3>1
    <3>2. CASE ~row[p].live
      <4>1. ~(call.page > 1)
        BY <2>1, <3>2
      <4>2. call.page \in Int
        BY DEF IInv, TypeOK, CallState
      <4>3. 1..call.page - 1 = {}
        BY <4>1, <4>2
      <4>4. QED BY <2>1, <4>3
    <3>3. QED BY <3>1, <3>2
  <2>4. QED BY <1>1, <2>1, <2>2, <2>3 DEF ReadInv
<1>10. OutlineInv'
  <2> SUFFICES ASSUME call.kind = "outline", call.doc.path \in steady'
               PROVE  OutlineInv'
    BY <1>1 DEF OutlineInv
  <2> DEFINE p == call.doc.path
  <2>1. row'[p] = row[p]
    BY <1>2
  <2>2. call.pc = "stat" => call.page = 1 /\ call.hits = <<>>
    BY <1>2 DEF AnswerInv, OutlineInv
  <2>3. ASSUME call.pc \in {"page", "done"}, ~call.truncated
        PROVE  /\ row[p].live
               /\ ToSet(call.hits) = HitsTo(p, call.page - 1)'
               /\ \A i, j \in DOMAIN call.hits : i < j => Before(call.hits[i], call.hits[j])
               /\ Len(call.hits) < MaxItems
               /\ call.pc = "page" => call.end = row[p].pages
               /\ call.pc = "done" => call.page = row[p].pages + 1
    <3>1. /\ row[p].live
          /\ ToSet(call.hits) = HitsTo(p, call.page - 1)
          /\ \A i, j \in DOMAIN call.hits : i < j => Before(call.hits[i], call.hits[j])
          /\ Len(call.hits) < MaxItems
          /\ call.pc = "page" => call.end = row[p].pages
          /\ call.pc = "done" => call.page = row[p].pages + 1
      BY <1>2, <2>3 DEF AnswerInv, OutlineInv
    <3>2. HitsTo(p, call.page - 1)' = HitsTo(p, call.page - 1)
      <4>1. row'[p] = row[p] /\ text'[row[p].id] = text[row[p].id]
        BY <1>2, <3>1
      <4>2. QED BY <1>1, <4>1 DEF HitsTo
    <3>3. QED BY <3>1, <3>2
  <2>4. QED BY <1>1, <2>1, <2>2, <2>3 DEF OutlineInv, Before
<1>11. QED BY <1>3, <1>5, <1>6, <1>7, <1>8, <1>9, <1>10 DEF AnswerInv

-----------------------------------------------------------------------------
(* A call that begins has nothing yet.                                     *)
Fresh ==
  /\ call.pc \in {"idle", "walk", "stat"}
  /\ call.found = {} /\ call.count = 0 /\ call.cursor = 0 /\ call.hits = <<>> /\ call.page = 1
  /\ steady \subseteq Paths
  /\ \A p \in Paths : row[p] \in Row

(* So the invariant has nothing to say of it.                              *)
LEMMA FreshAnswers ==
  Fresh => FoundInv /\ WalkInv /\ GrepInv /\ Scanned /\ ReadInv /\ OutlineInv
<1> SUFFICES ASSUME Fresh
             PROVE  FoundInv /\ WalkInv /\ GrepInv /\ Scanned /\ ReadInv /\ OutlineInv
  OBVIOUS
<1> USE DEF Fresh
<1>1. FoundInv
  <2>1. FoundPaths = {}
    BY DEF FoundPaths
  <2>2. QED BY <2>1, FS_EmptySet DEF FoundInv
<1>2. WalkInv
  BY LimitFacts DEF WalkInv, Paths
<1>3. GrepInv
  BY DEF GrepInv
<1>4. Scanned /\ OutlineInv
  BY DEF Scanned, OutlineInv
<1>5. ReadInv
  <2> SUFFICES ASSUME call.pc = "stat", call.doc.path \in steady
               PROVE  ReadInv
    BY DEF ReadInv
  <2> DEFINE p == call.doc.path
  <2>1. row[p].pages \in Nat
    BY LimitFacts DEF Row
  <2>2. 1..call.page - 1 = {}
    OBVIOUS
  <2>3. call.hits = [n \in 1..call.page - 1 |-> <<p, n, text[row[p].id][n]>>]
    BY <2>2
  <2>4. QED BY <2>1, <2>3 DEF ReadInv
<1>6. QED BY <1>1, <1>2, <1>3, <1>4, <1>5

(* No call has begun.                                                      *)
LEMMA InitAnswers == Init => AnswerInv
<1> SUFFICES ASSUME Init PROVE AnswerInv
  OBVIOUS
<1>1. call = NoCall /\ writer = NoWriter /\ steady = Paths
  BY DEF Init
<1>2. IInv
  BY InitIInv
<1>3. /\ call.pc = "idle" /\ call.kind = "list" /\ call.found = {} /\ call.count = 0
      /\ call.cursor = 0 /\ call.hits = <<>> /\ call.page = 1
  BY <1>1 DEF NoCall
<1>4. Untouched /\ WantInv
  BY <1>1 DEF Untouched, NoWriter, WantInv, NoCall
<1>5. \A p \in Paths : row[p] \in Row
  BY <1>2 DEF IInv, TypeOK
<1>6. FoundInv /\ WalkInv /\ GrepInv /\ Scanned /\ ReadInv /\ OutlineInv
  BY <1>1, <1>3, <1>5, FreshAnswers DEF Fresh
<1>7. QED BY <1>4, <1>6 DEF AnswerInv

(* A call begins: BeginWalk and BeginScan.                                 *)
LEMMA BeginAnswers ==
  ASSUME IInv, IInv', BeginCall
  PROVE  AnswerInv'
<1>1. ASSUME NEW kind \in Walks, NEW g \in Patterns, BeginWalk(kind, g)
      PROVE  /\ call'.pc = "walk" /\ call'.kind = kind /\ call'.found = {} /\ call'.count = 0
             /\ call'.cursor = 0 /\ call'.hits = <<>> /\ call'.page = 1 /\ WantInv'
             /\ steady' = Paths \ {writer.path} /\ UNCHANGED writeVars
  BY <1>1, PatternAssumption DEF BeginWalk, Begins, NoCall, WantInv
<1>2. ASSUME NEW kind \in Scans, NEW p \in Paths, BeginScan(kind, p)
      PROVE  /\ call'.pc = "stat" /\ call'.kind = kind /\ call'.found = {} /\ call'.count = 0
             /\ call'.cursor = 0 /\ call'.hits = <<>> /\ call'.page = 1 /\ WantInv'
             /\ steady' = Paths \ {writer.path} /\ UNCHANGED writeVars
  BY <1>2 DEF BeginScan, Begins, NoCall, WantInv
<1>3. /\ steady' = Paths \ {writer.path} /\ UNCHANGED writeVars /\ WantInv'
      /\ call'.found = {} /\ call'.count = 0
      /\ call'.cursor = 0 /\ call'.hits = <<>> /\ call'.page = 1
      /\ call'.pc \in {"walk", "stat"}
      /\ call'.pc = "walk" => call'.kind \in Walks
      /\ call'.pc = "stat" => call'.kind \in Scans
  BY <1>1, <1>2 DEF BeginCall
<1>4. Untouched'
  BY <1>3 DEF Untouched, writeVars
<1>5. \A p \in Paths : row'[p] \in Row
  BY DEF IInv, TypeOK
<1>6. (FoundInv /\ WalkInv /\ GrepInv /\ Scanned /\ ReadInv /\ OutlineInv)'
  <2>1. Fresh'
    BY <1>3, <1>5 DEF Fresh
  <2>2. QED BY <2>1, FreshAnswers, PTL
<1>7. QED BY <1>3, <1>4, <1>6 DEF AnswerInv

-----------------------------------------------------------------------------
(* The steps of a call leave the stores and the steady paths alone.        *)
LEMMA MovesSteady ==
  ASSUME IInv, AnswerInv, NEW new, ReaderMoves(new)
  PROVE  /\ call' = new /\ UNCHANGED <<row, text, writer, steady>> /\ Untouched'
BY DEF ReaderMoves, writeVars, AnswerInv, Untouched

(* What a query returns of a walk: the keys up to the next cursor, and all *)
(* of them when there is none.                                             *)
LEMMA QueryFacts ==
  ASSUME IInv, AnswerInv, call.kind \in Walks, NEW next \in NextCursor
  PROVE  /\ Matching = {p \in Evaluated : Answers(p)}
         /\ \A p \in Evaluated : p > call.cursor
         /\ next # 0 => next \in Evaluated /\ \A p \in Evaluated : p <= next
         /\ \A p \in Paths : /\ Answers(p) /\ p > call.cursor
                             /\ next # 0 => p <= next
                             => p \in Matching
<1> DEFINE rest == {p \in call.want.under : p > call.cursor /\ row[p] # NoRow}
<1>1. /\ call \in CallState /\ call.want.under \subseteq Paths /\ row \in [Paths -> Row]
      /\ CatalogLimit \in Nat \ {0} /\ call.cursor \in Nat
  BY LimitAssumption DEF IInv, TypeOK, CallState, Pattern
<1>2. rest \in SUBSET Int /\ IsFiniteSet(rest) /\ rest \subseteq Paths
  <2>1. IsFiniteSet(Paths) /\ Paths \subseteq Int
    BY LimitFacts, FS_Interval DEF Paths
  <2>2. rest \in SUBSET Paths
    BY <1>1
  <2>3. QED BY <2>1, <2>2, FS_Subset
<1>3. Evaluated = FirstFew(rest, CatalogLimit)
  BY DEF Evaluated, FirstFew
<1>4. Matching = {p \in Evaluated : Answers(p)}
  <2>1. Evaluated \subseteq call.want.under
    BY DEF Evaluated
  <2>2. QED BY <2>1 DEF Matching, Listed, Answers, Walks
<1>5. \A p \in Evaluated : p \in rest /\ p > call.cursor
  BY DEF Evaluated
<1>6. next # 0 => next \in Evaluated /\ \A p \in Evaluated : p <= next
  BY DEF NextCursor, LastOf
<1>7. \A p \in Paths : Answers(p) /\ p > call.cursor => p \in rest
  <2>1. \A p \in Paths : Answers(p) => p \in call.want.under
    BY DEF AnswerInv, WantInv, Answers, Walks
  <2>2. \A p \in Paths : Answers(p) => row[p] # NoRow
    BY DEF Answers, NoRow
  <2>3. QED BY <2>1, <2>2
<1> HIDE DEF rest
<1>8. ASSUME next # 0
      PROVE  \A p \in rest : p <= next => p \in Evaluated
  BY <1>1, <1>2, <1>3, <1>6, <1>8, FirstFewFacts
<1>9. ASSUME next = 0
      PROVE  rest = Evaluated
  <2>1. Cardinality(Evaluated) # CatalogLimit
    <3>1. 0 \notin LastOf(Evaluated)
      BY <1>1, <1>5 DEF LastOf
    <3>2. QED BY <1>9, <3>1 DEF NextCursor
  <2>2. Cardinality(Evaluated) = Smaller(Cardinality(rest), CatalogLimit)
    BY <1>1, <1>2, <1>3, FirstFewFacts
  <2>3. Cardinality(rest) \in Nat
    BY <1>2, FS_CardinalityType
  <2>4. Cardinality(rest) <= CatalogLimit
    BY <1>1, <2>1, <2>2, <2>3 DEF Smaller
  <2>5. QED BY <1>1, <1>2, <1>3, <2>4, FirstFewFacts
<1>10. QED BY <1>4, <1>5, <1>6, <1>7, <1>8, <1>9

(* The documents collected of a page.                                      *)
LEMMA CollectFacts ==
  ASSUME IInv, NEW S \in SUBSET Paths, NEW k \in Nat
  PROVE  /\ \A d \in Documents(S, k) : /\ d.path \in FirstFew(S, k) /\ d.path \in S
                                       /\ d.id = row[d.path].id /\ d.pages = row[d.path].pages
         /\ \A p \in FirstFew(S, k) : \E d \in Documents(S, k) : d.path = p
         /\ \A d, e \in Documents(S, k) : d.path = e.path => d = e
         /\ IsFiniteSet(S) /\ IsFiniteSet(FirstFew(S, k))
         /\ Cardinality(FirstFew(S, k)) = Smaller(Cardinality(S), k)
         /\ Cardinality(S) <= k => FirstFew(S, k) = S
<1>1. IsFiniteSet(Paths) /\ Paths \subseteq Int
  BY LimitFacts, FS_Interval DEF Paths
<1>2. IsFiniteSet(S) /\ S \in SUBSET Int
  BY <1>1, FS_Subset
<1>3. FirstFew(S, k) \in SUBSET S
  BY DEF FirstFew
<1>4. IsFiniteSet(FirstFew(S, k))
  BY <1>2, <1>3, FS_Subset
<1>5. Documents(S, k) = {[path |-> p, id |-> row[p].id, pages |-> row[p].pages] :
                           p \in FirstFew(S, k)}
  BY DEF Documents, FirstFew
<1>6. /\ Cardinality(FirstFew(S, k)) = Smaller(Cardinality(S), k)
      /\ Cardinality(S) <= k => FirstFew(S, k) = S
  BY <1>2, FirstFewFacts
<1>7. ASSUME NEW p \in FirstFew(S, k)
      PROVE  \E d \in Documents(S, k) : d.path = p
  <2> DEFINE d == [path |-> p, id |-> row[p].id, pages |-> row[p].pages]
  <2>1. d \in Documents(S, k) /\ d.path = p
    BY <1>5
  <2>2. QED BY <2>1
<1>8. \A d \in Documents(S, k) :
        /\ d.path \in FirstFew(S, k) /\ d.path \in S
        /\ d.id = row[d.path].id /\ d.pages = row[d.path].pages
  BY <1>3, <1>5
<1>9. \A d, e \in Documents(S, k) : d.path = e.path => d = e
  BY <1>5
<1>10. QED BY <1>2, <1>4, <1>6, <1>7, <1>8, <1>9, Zenon

(* One query of a walk.                                                    *)
LEMMA WalkAnswers ==
  ASSUME IInv, AnswerInv, Walk
  PROVE  AnswerInv'
<1>1. call \in CallState /\ call.pc = "walk" /\ call.kind \in Walks /\ call.count < Limit
  BY DEF IInv, TypeOK, CallInv, Walk
<1> DEFINE room == Limit - call.count
           full == Cardinality(Matching) >= room
           found == call.found \union Documents(Matching, room)
           more(next) == ~full /\ next # 0
           searching(next) == call.kind \in {"grep", "files"} /\ ~more(next)
           step(next) == [call EXCEPT
             !.found = IF searching(next) THEN Candidates(found) ELSE found,
             !.count = @ + Smaller(Cardinality(Matching), room),
             !.filled = full,
             !.truncated = full /\ call.kind \in {"tree", "find"} /\ next # 0,
             !.cursor = next,
             !.pc = IF more(next) THEN "walk" ELSE IF searching(next) THEN "scan" ELSE "done"]
<1>2. PICK next \in NextCursor : ReaderMoves(step(next))
  BY DEF Walk
<1>3. call' = step(next) /\ UNCHANGED <<row, text, writer, steady>> /\ Untouched'
  BY <1>2, MovesSteady
<1>4. /\ call'.kind = call.kind /\ call'.want = call.want /\ call'.hits = call.hits
      /\ call'.found = IF searching(next) THEN Candidates(found) ELSE found
      /\ call'.count = call.count + Smaller(Cardinality(Matching), room)
      /\ call'.filled = full /\ call'.cursor = next
      /\ call'.truncated = (full /\ call.kind \in {"tree", "find"} /\ next # 0)
      /\ call'.pc = IF more(next) THEN "walk" ELSE IF searching(next) THEN "scan" ELSE "done"
  BY <1>1, <1>3 DEF CallState
<1>5. /\ Limit \in Nat /\ call.count \in Nat /\ room \in Nat /\ steady \subseteq Paths
      /\ call.cursor \in Nat /\ next \in 0..N /\ Paths \subseteq Nat
      /\ \A d \in call.found : d.path \in Paths /\ d.path \in Nat
  <2>1. next \in 0..N
    BY <1>2, PageFacts
  <2>2. \A d \in call.found : d.path \in Paths /\ d.path \in Nat
    BY DEF IInv, HeldInv, Held, Paths
  <2>3. QED BY <1>1, <2>1, <2>2, LimitFacts DEF CallState, IInv, TypeOK, Paths
<1>6. /\ Matching = {p \in Evaluated : Answers(p)} /\ Matching \in SUBSET Paths
      /\ \A p \in Evaluated : p > call.cursor
      /\ next # 0 => next \in Evaluated /\ \A p \in Evaluated : p <= next
      /\ \A p \in Paths : /\ Answers(p) /\ p > call.cursor
                          /\ next # 0 => p <= next
                          => p \in Matching
  BY <1>1, <1>2, QueryFacts, PageFacts
<1> DEFINE first == FirstFew(Matching, room)
           docs == Documents(Matching, room)
<1>7. /\ \A d \in docs : d.path \in first /\ d.path \in Matching
      /\ \A d \in docs : d.id = row[d.path].id /\ d.pages = row[d.path].pages
      /\ \A p \in first : \E d \in docs : d.path = p
      /\ \A d, e \in docs : d.path = e.path => d = e
      /\ IsFiniteSet(first) /\ Cardinality(Matching) \in Nat
      /\ Cardinality(first) = Smaller(Cardinality(Matching), room)
      /\ Cardinality(Matching) <= room => first = Matching
  <2> HIDE DEF room
  <2>1. Matching \in SUBSET Paths /\ room \in Nat
    BY <1>5, <1>6
  <2>2. /\ \A d \in docs : /\ d.path \in first /\ d.path \in Matching
                           /\ d.id = row[d.path].id /\ d.pages = row[d.path].pages
        /\ \A p \in first : \E d \in docs : d.path = p
        /\ \A d, e \in docs : d.path = e.path => d = e
        /\ IsFiniteSet(Matching) /\ IsFiniteSet(first)
        /\ Cardinality(first) = Smaller(Cardinality(Matching), room)
        /\ Cardinality(Matching) <= room => first = Matching
    BY <2>1, CollectFacts
  <2>3. Cardinality(Matching) \in Nat
    BY <2>2, FS_CardinalityType
  <2> HIDE DEF first, docs
  <2>4. QED BY <2>2, <2>3, Zenon
<1>8. /\ \A d, e \in call.found : d.path = e.path => d = e
      /\ \A d \in call.found : d.path \in steady => IsCurrent(d)
      /\ \A d \in call.found : d.path <= call.cursor
      /\ Cardinality(FoundPaths) = call.count
      /\ \A p \in steady : Answers(p) /\ p <= call.cursor => p \in FoundPaths
  BY <1>1 DEF AnswerInv, FoundInv, WalkInv
<1> DEFINE paths == {d.path : d \in found}
<1>9. paths = FoundPaths \union first
  <2>1. \A p \in first : p \in {d.path : d \in docs}
    BY <1>7
  <2>2. \A d \in docs : d.path \in first
    BY <1>7
  <2> HIDE DEF first, docs
  <2>3. {d.path : d \in docs} = first
    BY <2>1, <2>2
  <2>4. paths = FoundPaths \union {d.path : d \in docs}
    BY DEF FoundPaths, docs
  <2>5. QED BY <2>3, <2>4
<1>10. /\ call'.kind \in Walks => WantInv'
       /\ \A p : Answers(p)' = Answers(p)
       /\ \A d : IsCurrent(d)' = IsCurrent(d)
       /\ Searching' = Searching
       /\ call'.found \subseteq found
       /\ ~searching(next) => FoundPaths' = paths
  <2>1. WantInv'
    BY <1>4 DEF AnswerInv, WantInv
  <2>2. \A p : Answers(p)' = Answers(p)
    BY <1>3, <1>4 DEF Answers
  <2>3. \A d : IsCurrent(d)' = IsCurrent(d)
    BY <1>3, <2>2 DEF IsCurrent
  <2>4. call'.found \subseteq found /\ Searching' = Searching
    BY <1>4 DEF Candidates, Searching
  <2>5. ~searching(next) => FoundPaths' = paths
    BY <1>4 DEF FoundPaths
  <2>6. QED BY <2>1, <2>2, <2>3, <2>4, <2>5
<1> HIDE DEF room, full, found, docs, first, paths, step
<1>11. /\ \A d \in found : d \in call.found \/ d \in docs
       /\ \A d \in docs : d.path > call.cursor /\ d.path \in Nat
       /\ \A d \in docs : IsCurrent(d)
  <2>1. \A d \in found : d \in call.found \/ d \in docs
    BY DEF found, docs
  <2>2. \A d \in docs : d.path > call.cursor /\ d.path \in Nat /\ Answers(d.path)
    BY <1>5, <1>6, <1>7
  <2>3. QED BY <1>7, <2>1, <2>2 DEF IsCurrent
<1>12. FoundInv'
  <2>1. ASSUME NEW d \in found, NEW e \in found, d.path = e.path
        PROVE  d = e
    <3>1. CASE d \in call.found /\ e \in call.found
      BY <1>8, <2>1, <3>1
    <3>2. CASE d \in docs /\ e \in docs
      BY <1>7, <2>1, <3>2
    <3>3. CASE d \in call.found /\ e \in docs
      BY <1>5, <1>8, <1>11, <2>1, <3>3
    <3>4. CASE d \in docs /\ e \in call.found
      BY <1>5, <1>8, <1>11, <2>1, <3>4
    <3>5. QED BY <1>11, <3>1, <3>2, <3>3, <3>4
  <2>2. ASSUME NEW d \in found, d.path \in steady
        PROVE  IsCurrent(d)
    BY <1>8, <1>11, <2>2
  <2>3. Cardinality(paths) = call.count + Smaller(Cardinality(Matching), room)
    <3>1. FoundPaths \in SUBSET Paths /\ IsFiniteSet(Paths)
      <4>1. FoundPaths \in SUBSET Paths
        BY <1>5 DEF FoundPaths
      <4>2. IsFiniteSet(Paths)
        BY LimitFacts, FS_Interval DEF Paths
      <4>3. QED BY <4>1, <4>2
    <3>2. IsFiniteSet(FoundPaths)
      BY <3>1, FS_Subset
    <3>3. FoundPaths \cap first = {}
      <4>1. \A p \in FoundPaths : p <= call.cursor /\ p \in Nat
        BY <1>5, <1>8 DEF FoundPaths
      <4>2. \A p \in first : p > call.cursor
        BY <1>6 DEF first, FirstFew
      <4>3. QED BY <1>5, <4>1, <4>2
    <3>4. Cardinality(FoundPaths \cap first) = 0
      BY <3>3, FS_EmptySet
    <3>5. /\ Cardinality(FoundPaths \union first)
               = Cardinality(FoundPaths) + Cardinality(first) - Cardinality(FoundPaths \cap first)
          /\ Cardinality(FoundPaths) \in Nat /\ Cardinality(first) \in Nat
      BY <1>7, <3>2, FS_Union, FS_CardinalityType
    <3>6. QED BY <1>7, <1>8, <1>9, <3>4, <3>5
  <2>4. ~Searching' \/ call'.pc = "walk" => Cardinality(FoundPaths') = call'.count
    <3>1. ~Searching \/ call'.pc = "walk" => ~searching(next)
      BY <1>4 DEF Searching
    <3>2. QED BY <1>4, <1>10, <2>3, <3>1
  <2>5. QED BY <1>3, <1>10, <2>1, <2>2, <2>4 DEF FoundInv
<1>13. ASSUME ~full, NEW p \in steady, Answers(p), next # 0 => p <= next
       PROVE  p \in paths
  <2>1. p \in Paths /\ p \in Nat
    BY <1>5
  <2>2. CASE p <= call.cursor
    BY <1>8, <1>9, <1>13, <2>2
  <2>3. CASE ~(p <= call.cursor)
    <3>1. p \in Matching
      BY <1>5, <1>6, <1>13, <2>1, <2>3
    <3>2. first = Matching
      BY <1>5, <1>7, <1>13 DEF full
    <3>3. QED BY <1>9, <3>1, <3>2
  <2>4. QED BY <2>2, <2>3
<1>14. WalkInv'
  <2>1. ASSUME call'.pc = "walk", NEW d \in call'.found
        PROVE  d.path <= call'.cursor
    <3>1. next # 0 /\ d \in found
      BY <1>4, <1>10, <2>1
    <3>2. next \in Evaluated /\ next > call.cursor
      BY <1>6, <3>1
    <3>3. CASE d \in call.found
      <4>1. d.path \in Nat /\ d.path <= call.cursor /\ next \in Int /\ call'.cursor = next
        BY <1>4, <1>5, <1>8, <3>3
      <4>2. QED BY <1>5, <3>2, <4>1
    <3>4. CASE d \in docs
      BY <1>4, <1>6, <1>7, <3>1, <3>4
    <3>5. QED BY <1>11, <3>1, <3>3, <3>4
  <2>2. ASSUME call'.pc = "walk", NEW p \in steady, Answers(p), p <= call'.cursor
        PROVE  p \in FoundPaths'
    BY <1>4, <1>10, <1>13, <2>2
  <2>3. ASSUME call'.pc = "done", ~Searching, ~call'.filled, NEW p \in steady, Answers(p)
        PROVE  p \in FoundPaths'
    <3>1. ~full /\ next = 0 /\ ~searching(next)
      BY <1>4, <2>3 DEF Searching
    <3>2. QED BY <1>10, <1>13, <2>3, <3>1
  <2>4. QED BY <1>3, <1>10, <2>1, <2>2, <2>3 DEF WalkInv
<1>15. GrepInv'
  <2> SUFFICES ASSUME Searching PROVE GrepInv'
    BY <1>10 DEF GrepInv
  <2>1. call.hits = <<>> /\ call'.hits = <<>> /\ call'.pc \in {"walk", "scan"}
    BY <1>1, <1>4 DEF AnswerInv, GrepInv, Searching
  <2>2. \A d : Reported(d.path)' = {}
    BY <2>1 DEF Reported, ToSet
  <2>3. ASSUME call'.pc = "scan", ~Excused', NEW p \in Expected'
        PROVE  p \in HeldPaths'
    <3>1. ~full /\ next = 0 /\ searching(next)
      BY <1>4, <2>3 DEF Excused
    <3>2. p \in steady /\ Answers(p) /\ p \in call.want.typed
      <4>1. p \in steady /\ row[p].live /\ p \in call.want.typed /\ row[p].extracted
        BY <1>3, <1>4, <2>3 DEF Expected, Searching
      <4>2. call.want.typed \subseteq call.want.match
        BY DEF AnswerInv, WantInv
      <4>3. QED BY <4>1, <4>2 DEF Answers, Searching
    <3>3. p \in paths
      BY <1>13, <3>1, <3>2
    <3>4. PICK d \in found : d.path = p
      BY <3>3 DEF paths
    <3>5. d \in call'.found
      BY <1>4, <3>1, <3>2, <3>4 DEF Candidates
    <3>6. QED BY <3>4, <3>5 DEF HeldPaths, Held
  <2>4. QED BY <2>1, <2>2, <2>3 DEF GrepInv
<1>16. Scanned' /\ ReadInv' /\ OutlineInv'
  BY <1>1, <1>4 DEF Scanned, ReadInv, OutlineInv, Walks, Scans
<1>17. QED BY <1>1, <1>3, <1>4, <1>10, <1>12, <1>14, <1>15, <1>16 DEF AnswerInv

-----------------------------------------------------------------------------
(* A read: Stat and ReadPage.                                              *)

(* A scan that is not grep's has nothing to do with the catalog.           *)
LEMMA ScanApart ==
  call.kind \in Scans => FoundInv /\ WalkInv /\ GrepInv
BY DEF Scans, Walks, FoundInv, WalkInv, GrepInv, Searching

(* The row of the document is looked up, for the first window or a next.   *)
LEMMA StatAnswers ==
  ASSUME IInv, AnswerInv, Stat
  PROVE  AnswerInv'
<1>1. /\ call \in CallState /\ call.pc = "stat" /\ call.kind \in Scans
      /\ call.doc.path \in Paths /\ row[call.doc.path] \in Row
      /\ call.page \in Nat \ {0}
  BY LimitFacts DEF IInv, TypeOK, CallInv, Stat, CallState
<1> DEFINE p == call.doc.path
           r == row[p]
           end == IF call.kind = "read" THEN Window(call.page, r.pages)
                                        ELSE Smaller(r.pages, MaxScanPages)
           doc == [path |-> p, id |-> r.id, pages |-> r.pages]
<1>2. CASE ~r.live \/ ~r.extracted
  <2>1. ReaderMoves([call EXCEPT !.pc = "refused"])
    BY <1>2 DEF Stat
  <2>2. /\ call' = [call EXCEPT !.pc = "refused"] /\ UNCHANGED <<row, text, writer, steady>>
        /\ Untouched'
    BY <2>1, MovesSteady
  <2>3. /\ call'.pc = "refused" /\ call'.kind = call.kind /\ call'.want = call.want
    BY <1>1, <2>2 DEF CallState
  <2>4. (FoundInv /\ WalkInv /\ GrepInv)'
    <3>1. (call.kind \in Scans)'
      BY <1>1, <2>3
    <3>2. QED BY <3>1, ScanApart, PTL
  <2>5. WantInv' /\ Scanned' /\ ReadInv' /\ OutlineInv'
    BY <2>3 DEF AnswerInv, WantInv, Scanned, ReadInv, OutlineInv
  <2>6. QED BY <2>2, <2>4, <2>5 DEF AnswerInv
<1>3. CASE r.live /\ r.extracted
  <2>1. ReaderMoves([call EXCEPT !.pc = "page", !.end = end, !.truncated = Cut(end, r.pages),
                                 !.doc = doc])
    BY <1>3 DEF Stat
  <2>2. /\ call' = [call EXCEPT !.pc = "page", !.end = end, !.truncated = Cut(end, r.pages),
                                !.doc = doc]
        /\ UNCHANGED <<row, text, writer, steady>> /\ Untouched'
    BY <2>1, MovesSteady
  <2>3. /\ call'.pc = "page" /\ call'.kind = call.kind /\ call'.want = call.want
        /\ call'.end = end /\ call'.truncated = (end < r.pages) /\ call'.doc = doc
        /\ call'.page = call.page /\ call'.hits = call.hits
        /\ call'.doc.path = p /\ call'.doc.id = r.id /\ call'.doc.pages = r.pages
    BY <1>1, <2>2 DEF CallState, Cut
  <2>4. (FoundInv /\ WalkInv /\ GrepInv)'
    <3>1. (call.kind \in Scans)'
      BY <1>1, <2>3
    <3>2. QED BY <3>1, ScanApart, PTL
  <2>5. WantInv'
    BY <2>3 DEF AnswerInv, WantInv
  <2>6. r.pages \in Nat /\ end <= r.pages /\ end \in Int
    BY <1>1, LimitFacts DEF Row, Window, Smaller
  <2>7. ASSUME p \in steady
        PROVE  call.page <= end + 1
    <3>1. CASE call.kind = "read"
      <4>1. call.page <= r.pages + 1
        BY <1>1, <2>7, <3>1 DEF AnswerInv, ReadInv
      <4>2. QED BY <1>1, <2>6, <3>1, <4>1, LimitFacts DEF Window, Smaller
    <3>2. CASE call.kind = "outline"
      <4>1. call.page = 1
        BY <1>1, <2>7, <3>2 DEF AnswerInv, OutlineInv
      <4>2. QED BY <2>6, <3>2, <4>1, LimitFacts DEF Smaller
    <3>3. QED BY <1>1, <3>1, <3>2 DEF Scans
  <2> HIDE DEF end
  <2>8. Scanned'
    BY <1>3, <2>2, <2>3, <2>7 DEF Scanned
  <2>9. ReadInv'
    <3> SUFFICES ASSUME call'.kind = "read", call'.doc.path \in steady' PROVE ReadInv'
      BY DEF ReadInv
    <3> call.kind = "read" /\ p \in steady
      BY <2>2, <2>3
    <3>1. /\ call.hits = [n \in 1..call.page - 1 |-> <<p, n, text[r.id][n]>>]
          /\ call.page <= r.pages + 1
      BY <1>1 DEF AnswerInv, ReadInv
    <3>2. /\ call'.doc.path = p /\ row'[call'.doc.path] = r
          /\ call'.hits = [n \in 1..call'.page - 1 |-> <<p, n, text'[r.id][n]>>]
      BY <2>2, <2>3, <3>1
    <3>3. QED BY <1>3, <2>3, <3>1, <3>2 DEF ReadInv
  <2>10. OutlineInv'
    <3> SUFFICES ASSUME call.kind = "outline", p \in steady, ~call'.truncated
                 PROVE  OutlineInv'
      BY <2>2, <2>3 DEF OutlineInv
    <3>1. call.page = 1 /\ call.hits = <<>>
      BY <1>1 DEF AnswerInv, OutlineInv
    <3>3. Len(call.hits) = 0 /\ DOMAIN call.hits = {}
      BY <3>1
    <3>4. end = r.pages
      <4>1. ~(end < r.pages)
        BY <2>3, Zenon
      <4>2. QED BY <2>6, <4>1
    <3>5. row'[call'.doc.path] = r /\ call'.end = r.pages /\ call'.pc = "page"
      BY <2>2, <2>3, <3>4
    <3>6. ToSet(call.hits)' = HitsTo(call.doc.path, call.page - 1)'
      <4>1. ToSet(call.hits)' = {}
        BY <2>3, <3>1 DEF ToSet
      <4>2. HitsTo(call.doc.path, call.page - 1)' = {}
        BY <2>3, <3>1 DEF HitsTo
      <4>3. QED BY <4>1, <4>2
    <3>7. DOMAIN call'.hits = {} /\ Len(call'.hits) < MaxItems
      BY <2>3, <3>1, <3>3, LimitFacts
    <3>8. QED BY <1>3, <2>3, <3>5, <3>6, <3>7 DEF OutlineInv
  <2>11. QED BY <2>2, <2>4, <2>5, <2>8, <2>9, <2>10 DEF AnswerInv
<1>4. QED BY <1>2, <1>3

(* A read stops at the end of its window, or goes on to the next page.     *)
LEMMA ReadAnswers ==
  ASSUME IInv, AnswerInv, ReadPage
  PROVE  AnswerInv'
<1>1. /\ call \in CallState /\ call.pc = "page" /\ call.kind = "read"
      /\ call.page \in Nat \ {0} /\ call.end \in Nat /\ call.doc.pages \in Nat
      /\ call.hits \in Seq(Hit) /\ call.end <= call.doc.pages
  <2>1. call \in CallState /\ call.pc = "page" /\ call.kind = "read"
    BY DEF IInv, TypeOK, ReadPage
  <2>2. call.end <= call.doc.pages
    BY <2>1 DEF IInv, CallInv, Scans
  <2>3. QED BY <2>1, <2>2, LimitFacts DEF CallState, Doc
<1> DEFINE p == call.doc.path
           r == row[p]
<1>2. ASSUME p \in steady
      PROVE  /\ call.doc.id = r.id /\ call.doc.pages = r.pages /\ r.live
             /\ call.page <= call.end + 1
             /\ call.hits = [n \in 1..call.page - 1 |-> <<p, n, text[r.id][n]>>]
             /\ call.truncated = (call.end < r.pages)
  BY <1>1, <1>2 DEF AnswerInv, Scanned, ReadInv, Scans
<1>3. ASSUME NEW c, ReaderMoves(c), c.kind = call.kind, c.want = call.want, Scanned', ReadInv'
      PROVE  AnswerInv'
  <2>1. call' = c /\ UNCHANGED <<row, text, writer, steady>> /\ Untouched'
    BY <1>3, MovesSteady
  <2>2. (call.kind \in Scans)'
    BY <1>1, <1>3, <2>1 DEF Scans
  <2>3. (FoundInv /\ WalkInv /\ GrepInv)'
    BY <2>2, ScanApart, PTL
  <2>4. WantInv' /\ OutlineInv'
    BY <1>1, <1>3, <2>1 DEF AnswerInv, WantInv, OutlineInv
  <2>5. QED BY <1>3, <2>1, <2>3, <2>4 DEF AnswerInv
<1>4. CASE call.page > call.end
  <2> DEFINE c == [call EXCEPT !.pc = IF call.truncated THEN "stat" ELSE "done"]
  <2>1. ReaderMoves(c)
    BY <1>1, <1>4 DEF ReadPage
  <2>2. /\ c.kind = call.kind /\ c.want = call.want /\ c.doc = call.doc /\ c.page = call.page
        /\ c.hits = call.hits /\ c.pc = IF call.truncated THEN "stat" ELSE "done"
    BY <1>1 DEF CallState
  <2> HIDE DEF c
  <2>3. call' = c /\ UNCHANGED <<row, text, steady>>
    BY <2>1, MovesSteady
  <2>4. Scanned'
    BY <2>2, <2>3 DEF Scanned
  <2>5. ReadInv'
    <3> SUFFICES ASSUME p \in steady PROVE ReadInv'
      BY <2>2, <2>3 DEF ReadInv
    <3>1. call.page = call.end + 1 /\ call.end <= r.pages /\ r.pages \in Nat
      BY <1>1, <1>2, <1>4
    <3>2. call.page <= r.pages + 1 /\ (~call.truncated => call.page = r.pages + 1)
      <4>1. ASSUME ~call.truncated
            PROVE  ~(call.end < r.pages)
        BY <1>2, <4>1, Zenon
      <4>2. QED BY <1>1, <3>1, <4>1
    <3>3. QED BY <1>2, <2>2, <2>3, <3>2 DEF ReadInv
  <2>6. QED BY <1>3, <2>1, <2>2, <2>4, <2>5
<1>5. CASE ~(call.page > call.end) /\ FetchedPage = NoPage
  <2> DEFINE c == [call EXCEPT !.pc = "failed"]
  <2>1. ReaderMoves(c)
    BY <1>1, <1>5 DEF ReadPage
  <2>2. c.kind = call.kind /\ c.want = call.want /\ c.pc = "failed"
    BY <1>1 DEF CallState
  <2> HIDE DEF c
  <2>3. call' = c
    BY <2>1, MovesSteady
  <2>4. Scanned' /\ ReadInv'
    BY <2>2, <2>3 DEF Scanned, ReadInv
  <2>5. QED BY <1>3, <2>1, <2>2, <2>4
<1>6. CASE ~(call.page > call.end) /\ FetchedPage # NoPage
  <2> DEFINE hits == Append(call.hits, <<p, call.page, FetchedPage>>)
             c == [call EXCEPT !.hits = hits, !.page = @ + 1]
  <2>1. ReaderMoves(c)
    BY <1>1, <1>6 DEF ReadPage
  <2>2. /\ c.kind = call.kind /\ c.want = call.want /\ c.doc = call.doc
        /\ c.page = call.page + 1 /\ c.hits = hits /\ c.pc = "page" /\ c.end = call.end
        /\ c.truncated = call.truncated
    BY <1>1 DEF CallState
  <2>3. ASSUME p \in steady
        PROVE  hits = [n \in 1..call.page |-> <<p, n, text[r.id][n]>>]
    <3>1. call.hits = [n \in 1..call.page - 1 |-> <<p, n, text[r.id][n]>>]
      BY <1>2, <2>3
    <3>2. FetchedPage = text[r.id][call.page]
      BY <1>2, <2>3 DEF FetchedPage
    <3>3. Len(call.hits) = call.page - 1
      BY <1>1, <3>1
    <3>4. <<p, call.page, FetchedPage>> \in Hit
      <4>1. call.page <= call.doc.pages
        BY <1>1, <1>6
      <4>2. QED BY <1>1, <1>6, <4>1, FetchFacts DEF Hit
    <3>5. /\ hits \in Seq(Hit) /\ Len(hits) = call.page
          /\ \A n \in 1..call.page - 1 : hits[n] = call.hits[n]
          /\ hits[call.page] = <<p, call.page, FetchedPage>>
      BY <1>1, <3>3, <3>4, AppendProperties
    <3> HIDE DEF hits
    <3>6. \A n \in 1..call.page : hits[n] = <<p, n, text[r.id][n]>>
      <4>1. \A n \in 1..call.page : n = call.page \/ n \in 1..call.page - 1
        BY <1>1
      <4>2. \A n \in 1..call.page - 1 : hits[n] = <<p, n, text[r.id][n]>>
        BY <3>1, <3>5
      <4>3. QED BY <3>2, <3>5, <4>1, <4>2
    <3>7. hits = [n \in 1..call.page |-> hits[n]]
      BY <1>1, <3>5
    <3>8. QED BY <3>6, <3>7
  <2> HIDE DEF c, hits
  <2>4. call' = c /\ UNCHANGED <<row, text, steady>>
    BY <2>1, MovesSteady
  <2>5. Scanned'
    BY <1>1, <1>2, <1>6, <2>2, <2>4 DEF Scanned
  <2>6. ReadInv'
    <3> SUFFICES ASSUME p \in steady PROVE ReadInv'
      BY <2>2, <2>4 DEF ReadInv
    <3>1. call.page + 1 <= r.pages + 1 /\ call.page + 1 - 1 = call.page
      <4> DEFINE n == call.page
                 e == call.end
                 t == r.pages
      <4>1. n \in Nat /\ e \in Nat /\ t \in Nat
        BY <1>1, <1>2
      <4>2. n <= e /\ e <= t
        BY <1>1, <1>2, <1>6
      <4> HIDE DEF n, e, t
      <4>3. n + 1 <= t + 1 /\ n + 1 - 1 = n
        BY <4>1, <4>2
      <4>4. QED BY <4>3 DEF n, e, t
    <3>2. /\ call'.doc.path = p /\ row'[p] = r /\ call'.page = call.page + 1
          /\ call'.hits = [n \in 1..call'.page - 1 |-> <<p, n, text'[r.id][n]>>]
      <4>1. call'.page - 1 = call.page
        BY <1>1, <2>2, <2>4
      <4>2. QED BY <2>2, <2>3, <2>4, <4>1
    <3>3. /\ call'.pc = "page" /\ call'.truncated = call.truncated /\ call'.end = call.end
      BY <2>2, <2>4
    <3>4. QED BY <1>2, <3>1, <3>2, <3>3 DEF ReadInv
  <2>7. QED BY <1>3, <2>1, <2>2, <2>5, <2>6
<1>7. QED BY <1>4, <1>5, <1>6

-----------------------------------------------------------------------------
(* Matches page by page.                                                   *)

(* The first k matches of page n of a path.                                *)
OnPage(p, n, k) == {<<p, n, i>> : i \in 1..k}

(* They are what the page adds to the matches of the pages before it.      *)
LEMMA HitsToNext ==
  ASSUME NEW p, NEW n \in Nat \ {0}
  PROVE  /\ HitsTo(p, n) = HitsTo(p, n - 1) \union OnPage(p, n, text[row[p].id][n])
         /\ \A h \in HitsTo(p, n - 1) : h[1] = p /\ h[2] \in 1..n - 1 /\ h[2] < n
<1>1. \A m : m \in 1..n <=> m \in 1..n - 1 \/ m = n
  OBVIOUS
<1>2. ASSUME NEW h
      PROVE  h \in HitsTo(p, n) <=> h \in HitsTo(p, n - 1) \/ h \in OnPage(p, n, text[row[p].id][n])
  <2>1. h \in HitsTo(p, n) <=> \E m \in 1..n : h \in OnPage(p, m, text[row[p].id][m])
    BY DEF HitsTo, OnPage
  <2>2. h \in HitsTo(p, n - 1) <=> \E m \in 1..n - 1 : h \in OnPage(p, m, text[row[p].id][m])
    BY DEF HitsTo, OnPage
  <2>3. QED BY <1>1, <2>1, <2>2
<1>3. \A m \in 1..n - 1 : m < n
  OBVIOUS
<1>4. \A h \in HitsTo(p, n - 1) : h[1] = p /\ h[2] \in 1..n - 1
  BY DEF HitsTo
<1>5. QED BY <1>2, <1>3, <1>4

(* Matches of the page at hand are added behind those found before.        *)
LEMMA TakenFacts ==
  ASSUME call.hits \in Seq(Hit), call.doc.path \in Paths, call.page \in Pages, NEW k \in Nat
  PROVE  LET hits == call.hits \o FirstHits(k)
             len == Len(call.hits)
         IN  /\ ToSet(hits) = ToSet(call.hits) \union OnPage(call.doc.path, call.page, k)
             /\ len \in Nat /\ Len(hits) = len + k /\ DOMAIN hits = 1..len + k
             /\ \A i \in 1..len : hits[i] = call.hits[i] /\ hits[i] \in ToSet(call.hits)
             /\ \A i \in len + 1..len + k : hits[i] = <<call.doc.path, call.page, i - len>>
<1> DEFINE hits == call.hits \o FirstHits(k)
           len == Len(call.hits)
           page == OnPage(call.doc.path, call.page, k)
<1>1. FirstHits(k) \in Seq(Hit) /\ Len(FirstHits(k)) = k
  BY FirstHitsType
<1>2. /\ len \in Nat /\ hits \in Seq(Hit) /\ Len(hits) = len + k
      /\ \A i \in 1..len + k : hits[i] = IF i <= len THEN call.hits[i] ELSE FirstHits(k)[i - len]
  BY <1>1, ConcatProperties, LenProperties
<1>3. DOMAIN call.hits = 1..len /\ DOMAIN hits = 1..len + k
  BY <1>2, LenProperties
<1> HIDE DEF hits
<1>4. \A i \in 1..len : hits[i] = call.hits[i] /\ hits[i] \in ToSet(call.hits)
  BY <1>2, <1>3 DEF ToSet
<1>5. \A i \in len + 1..len + k : hits[i] = <<call.doc.path, call.page, i - len>>
  <2>1. \A i \in len + 1..len + k : i \in 1..len + k /\ ~(i <= len) /\ i - len \in 1..k
    BY <1>2
  <2>2. \A j \in 1..k : FirstHits(k)[j] = <<call.doc.path, call.page, j>>
    BY DEF FirstHits
  <2>3. QED BY <1>2, <2>1, <2>2
<1>6. ToSet(hits) \subseteq ToSet(call.hits) \union page
  <2>1. ASSUME NEW i \in 1..len + k
        PROVE  hits[i] \in ToSet(call.hits) \union page
    <3>1. CASE i \in 1..len
      BY <1>4, <3>1
    <3>2. CASE i \in len + 1..len + k
      <4>1. i - len \in 1..k
        BY <1>2, <3>2
      <4>2. QED BY <1>5, <3>2, <4>1 DEF OnPage
    <3>3. QED BY <1>2, <3>1, <3>2
  <2>2. QED BY <1>3, <2>1 DEF ToSet
<1>7. ToSet(call.hits) \subseteq ToSet(hits)
  <2>1. \A i \in 1..len : hits[i] \in ToSet(hits)
    BY <1>2, <1>3 DEF ToSet
  <2>2. QED BY <1>3, <1>4, <2>1 DEF ToSet
<1>8. page \subseteq ToSet(hits)
  <2>1. ASSUME NEW i \in 1..k
        PROVE  <<call.doc.path, call.page, i>> \in ToSet(hits)
    <3>1. len + i \in len + 1..len + k /\ len + i \in 1..len + k /\ len + i - len = i
      BY <1>2
    <3>2. hits[len + i] = <<call.doc.path, call.page, i>>
      BY <1>5, <3>1
    <3>3. QED BY <1>3, <3>1, <3>2 DEF ToSet
  <2>2. QED BY <2>1 DEF OnPage
<1>9. QED BY <1>2, <1>3, <1>4, <1>5, <1>6, <1>7, <1>8 DEF hits

-----------------------------------------------------------------------------
(* An outline: its headings so far are all there are, in order.            *)
LEMMA OutlineAnswers ==
  ASSUME IInv, AnswerInv, OutlinePage
  PROVE  AnswerInv'
<1>1. /\ call \in CallState /\ call.pc = "page" /\ call.kind = "outline"
      /\ call.page \in Nat \ {0} /\ call.end \in Nat /\ call.doc.pages \in Nat
      /\ call.hits \in Seq(Hit) /\ call.end <= call.doc.pages /\ Len(call.hits) \in Nat
  <2>1. call \in CallState /\ call.pc = "page" /\ call.kind = "outline"
    BY DEF IInv, TypeOK, OutlinePage
  <2>2. call.end <= call.doc.pages
    BY <2>1 DEF IInv, CallInv, Scans
  <2>3. QED BY <2>1, <2>2, LimitFacts, LenProperties DEF CallState, Doc
<1> DEFINE p == call.doc.path
           r == row[p]
           Ordered(hits) == \A i, j \in DOMAIN hits : i < j => Before(hits[i], hits[j])
<1>2. ASSUME p \in steady
      PROVE  call.doc.id = r.id /\ call.page <= call.end + 1
  BY <1>1, <1>2 DEF AnswerInv, Scanned, Scans
<1>3. ASSUME p \in steady, ~call.truncated
      PROVE  /\ r.live /\ ToSet(call.hits) = HitsTo(p, call.page - 1)
             /\ Ordered(call.hits) /\ Len(call.hits) < MaxItems /\ call.end = r.pages
  BY <1>1, <1>3 DEF AnswerInv, OutlineInv
<1>4. ASSUME NEW c, ReaderMoves(c), c.kind = call.kind, c.want = call.want, c.doc = call.doc,
             c.end = call.end, c.pc = "page" => c.page <= call.end + 1 \/ p \notin steady,
             c.pc \in {"page", "done", "failed"},
             p \in steady /\ c.pc # "failed" /\ ~c.truncated =>
               /\ ~call.truncated
               /\ ToSet(c.hits) = HitsTo(p, c.page - 1)
               /\ Ordered(c.hits) /\ Len(c.hits) < MaxItems
               /\ c.pc = "done" => c.page = r.pages + 1
      PROVE  AnswerInv'
  <2>1. call' = c /\ UNCHANGED <<row, text, writer, steady>> /\ Untouched'
    BY <1>4, MovesSteady
  <2>2. (call.kind \in Scans)'
    BY <1>1, <1>4, <2>1 DEF Scans
  <2>3. (FoundInv /\ WalkInv /\ GrepInv)'
    BY <2>2, ScanApart, PTL
  <2>4. WantInv' /\ ReadInv'
    BY <1>1, <1>4, <2>1 DEF AnswerInv, WantInv, ReadInv
  <2>5. Scanned'
    BY <1>1, <1>4, <2>1 DEF AnswerInv, Scanned, Scans
  <2>6. OutlineInv'
    <3> SUFFICES ASSUME p \in steady, c.pc # "failed", ~c.truncated
                 PROVE  OutlineInv'
      BY <1>4, <2>1 DEF OutlineInv
    <3>1. HitsTo(p, c.page - 1)' = HitsTo(p, c.page - 1)
      BY <1>4, <2>1 DEF HitsTo
    <3>2. row' = row /\ call'.doc.path = p
      BY <1>4, <2>1
    <3>3. /\ r.live /\ ToSet(c.hits) = HitsTo(p, c.page - 1)
          /\ Ordered(c.hits) /\ Len(c.hits) < MaxItems /\ c.end = r.pages
          /\ c.pc = "done" => c.page = r.pages + 1
      BY <1>3, <1>4
    <3>4. ToSet(c.hits) = HitsTo(call.doc.path, call.page - 1)'
      BY <2>1, <3>1, <3>2, <3>3 DEF HitsTo
    <3>5. QED BY <1>4, <2>1, <3>2, <3>3, <3>4 DEF OutlineInv
  <2>7. QED BY <2>1, <2>3, <2>4, <2>5, <2>6 DEF AnswerInv
<1>5. CASE call.page > call.end
  <2> DEFINE c == [call EXCEPT !.pc = "done"]
  <2>1. ReaderMoves(c)
    BY <1>1, <1>5 DEF OutlinePage
  <2>2. /\ c.kind = call.kind /\ c.want = call.want /\ c.doc = call.doc /\ c.page = call.page
        /\ c.hits = call.hits /\ c.pc = "done" /\ c.end = call.end
        /\ c.truncated = call.truncated
    BY <1>1 DEF CallState
  <2> HIDE DEF c
  <2>3. ASSUME p \in steady, ~call.truncated
        PROVE  call.page = r.pages + 1
    BY <1>1, <1>2, <1>3, <1>5, <2>3
  <2>4. QED BY <1>3, <1>4, <2>1, <2>2, <2>3
<1>6. CASE ~(call.page > call.end) /\ Len(call.hits) >= MaxItems
  <2> DEFINE c == [call EXCEPT !.pc = "done", !.truncated = TRUE]
  <2>1. ReaderMoves(c)
    BY <1>1, <1>6 DEF OutlinePage
  <2>2. /\ c.kind = call.kind /\ c.want = call.want /\ c.doc = call.doc
        /\ c.pc = "done" /\ c.end = call.end /\ c.truncated
    BY <1>1 DEF CallState
  <2> HIDE DEF c
  <2>3. QED BY <1>4, <2>1, <2>2
<1>7. CASE ~(call.page > call.end) /\ ~(Len(call.hits) >= MaxItems) /\ FetchedPage = NoPage
  <2> DEFINE c == [call EXCEPT !.pc = "failed"]
  <2>1. ReaderMoves(c)
    BY <1>1, <1>7 DEF OutlinePage
  <2>2. /\ c.kind = call.kind /\ c.want = call.want /\ c.doc = call.doc
        /\ c.pc = "failed" /\ c.end = call.end
    BY <1>1 DEF CallState
  <2> HIDE DEF c
  <2>3. QED BY <1>4, <2>1, <2>2
<1>8. CASE ~(call.page > call.end) /\ ~(Len(call.hits) >= MaxItems) /\ FetchedPage # NoPage
  <2> DEFINE room == MaxItems - Len(call.hits)
             taken == Smaller(FetchedPage, room)
             hits == call.hits \o FirstHits(taken)
             c == [call EXCEPT !.hits = hits, !.truncated = @ \/ FetchedPage >= room,
                               !.page = @ + 1]
  <2>1. ReaderMoves(c)
    BY <1>1, <1>8 DEF OutlinePage
  <2>2. /\ c.kind = call.kind /\ c.want = call.want /\ c.doc = call.doc
        /\ c.page = call.page + 1 /\ c.hits = hits /\ c.pc = "page" /\ c.end = call.end
        /\ c.truncated = (call.truncated \/ FetchedPage >= room)
    BY <1>1 DEF CallState
  <2>3. call.page <= call.doc.pages
    BY <1>1, <1>8
  <2>4. p \in Paths /\ call.page \in Pages /\ FetchedPage \in Nat
    BY <1>1, <1>8, <2>3, FetchFacts
  <2>5. room \in Nat /\ taken \in Nat
    BY <1>1, <1>8, <2>4, LimitFacts DEF Smaller
  <2>6. c.page <= call.end + 1
    BY <1>1, <1>8, <2>2
  <2> HIDE DEF c, hits, taken
  <2>7. ASSUME p \in steady, ~c.truncated
        PROVE  /\ ~call.truncated /\ ToSet(hits) = HitsTo(p, call.page)
               /\ Ordered(hits) /\ Len(hits) < MaxItems
    <3>1. ~call.truncated /\ ~(FetchedPage >= room)
      BY <2>2, <2>7, Zenon
    <3>2. taken = FetchedPage /\ taken < room
      BY <2>4, <2>5, <3>1 DEF taken, Smaller
    <3>3. /\ ToSet(call.hits) = HitsTo(p, call.page - 1)
          /\ Ordered(call.hits) /\ call.doc.id = r.id
      BY <1>2, <1>3, <2>7, <3>1
    <3> DEFINE len == Len(call.hits)
    <3>4. /\ ToSet(hits) = ToSet(call.hits) \union OnPage(p, call.page, taken)
          /\ len \in Nat /\ Len(hits) = len + taken /\ DOMAIN hits = 1..len + taken
          /\ \A i \in 1..len : hits[i] = call.hits[i] /\ hits[i] \in ToSet(call.hits)
          /\ \A i \in len + 1..len + taken : hits[i] = <<p, call.page, i - len>>
      BY <1>1, <2>4, <2>5, TakenFacts DEF hits
    <3>5. ToSet(hits) = HitsTo(p, call.page)
      <4>1. text[r.id][call.page] = taken
        BY <3>2, <3>3 DEF FetchedPage
      <4>2. HitsTo(p, call.page)
              = HitsTo(p, call.page - 1) \union OnPage(p, call.page, text[r.id][call.page])
        BY <1>1, HitsToNext
      <4>3. QED BY <3>3, <3>4, <4>1, <4>2
    <3>6. ASSUME NEW i \in 1..len + taken, NEW j \in 1..len + taken, i < j
          PROVE  Before(hits[i], hits[j])
      <4>1. CASE j <= len
        <5>1. i \in 1..len /\ j \in 1..len /\ DOMAIN call.hits = 1..len
          BY <1>1, <3>4, <3>6, <4>1, LenProperties
        <5>2. QED BY <3>3, <3>4, <3>6, <5>1
      <4>2. CASE i <= len /\ ~(j <= len)
        <5>1. i \in 1..len /\ j \in len + 1..len + taken
          BY <3>4, <4>2
        <5>2. hits[i] \in HitsTo(p, call.page - 1) /\ hits[j][2] = call.page
          BY <3>3, <3>4, <5>1
        <5>3. hits[i][2] < call.page
          BY <1>1, <5>2, HitsToNext
        <5>4. QED BY <5>2, <5>3 DEF Before
      <4>3. CASE ~(i <= len) /\ ~(j <= len)
        <5>1. i \in len + 1..len + taken /\ j \in len + 1..len + taken
          BY <3>4, <4>3
        <5>2. hits[i] = <<p, call.page, i - len>> /\ hits[j] = <<p, call.page, j - len>>
          BY <3>4, <5>1
        <5>3. i - len < j - len
          BY <3>4, <3>6
        <5>4. QED BY <5>2, <5>3 DEF Before
      <4>4. QED BY <3>4, <3>6, <4>1, <4>2, <4>3
    <3>7. Len(hits) < MaxItems
      BY <2>5, <3>2, <3>4, LimitFacts
    <3>8. QED BY <3>1, <3>4, <3>5, <3>6, <3>7
  <2>8. c.page - 1 = call.page
    BY <1>1, <2>2
  <2> HIDE DEF room
  <2>9. QED BY <1>4, <2>1, <2>2, <2>6, <2>7, <2>8
<1>9. QED BY <1>5, <1>6, <1>7, <1>8

-----------------------------------------------------------------------------
(* Counting matches.                                                       *)

(* The first k matches of a page are k.                                    *)
LEMMA PageCount ==
  ASSUME NEW p, NEW n, NEW k \in Int
  PROVE  IsFiniteSet(OnPage(p, n, k)) /\ (k \in Nat => Cardinality(OnPage(p, n, k)) = k)
<1> DEFINE f == [i \in 1..k |-> <<p, n, i>>]
<1>1. IsFiniteSet(1..k) /\ (k \in Nat => Cardinality(1..k) = k)
  BY FS_Interval
<1>2. {f[i] : i \in 1..k} = OnPage(p, n, k)
  BY DEF OnPage
<1>3. f \in [1..k -> {f[i] : i \in 1..k}]
  OBVIOUS
<1>4. \A i, j \in 1..k : f[i] = f[j] => i = j
  OBVIOUS
<1> HIDE DEF f
<1>5. QED BY <1>1, <1>2, <1>3, <1>4, ImageFacts

(* A document has finitely many matches.                                   *)
LEMMA HitsToFinite ==
  ASSUME IInv, NEW p \in Paths, row[p].live, NEW k \in 0..MaxPage
  PROVE  IsFiniteSet(HitsTo(p, k))
<1> DEFINE f == [n \in 1..k |-> OnPage(p, n, text[row[p].id][n])]
<1>1. \A n \in 1..k : IsFiniteSet(f[n])
  <2> SUFFICES ASSUME NEW n \in 1..k PROVE IsFiniteSet(f[n])
    OBVIOUS
  <2>1. row[p].id \in Ids /\ n \in Pages
    BY LimitFacts DEF IInv, RowsHaveText, Pages
  <2>2. text[row[p].id][n] \in Hits
    BY <2>1 DEF IInv, TypeOK
  <2>3. text[row[p].id][n] \in Int
    BY <2>2, HitFacts DEF NoPage
  <2>4. QED BY <2>3, PageCount
<1>2. HitsTo(p, k) = UNION {f[n] : n \in 1..k}
  BY DEF HitsTo, OnPage
<1>3. f \in [1..k -> {f[n] : n \in 1..k}] /\ IsFiniteSet(1..k)
  <2>1. k \in Int
    BY LimitFacts
  <2>2. IsFiniteSet(1..k)
    BY <2>1, FS_Interval
  <2>3. QED BY <2>2
<1> HIDE DEF f
<1>4. IsFiniteSet({f[n] : n \in 1..k})
  BY <1>3, ImageFacts
<1>5. QED BY <1>1, <1>2, <1>4, FS_UNION

(* A call has reported finitely many.                                      *)
LEMMA ReportedFinite ==
  ASSUME call.hits \in Seq(Hit), NEW p
  PROVE  /\ IsFiniteSet(ToSet(call.hits)) /\ Cardinality(ToSet(call.hits)) \in Nat
         /\ Cardinality(ToSet(call.hits)) <= Len(call.hits)
         /\ IsFiniteSet(Reported(p)) /\ Cardinality(Reported(p)) \in Nat
<1> DEFINE f == call.hits
           D == 1..Len(f)
<1>1. IsFiniteSet(D) /\ Cardinality(D) = Len(f)
  BY LenProperties, FS_Interval
<1>2. f \in [D -> {f[i] : i \in D}] /\ ToSet(f) = {f[i] : i \in D}
  BY LenProperties DEF ToSet
<1> HIDE DEF D
<1>3. IsFiniteSet(ToSet(f)) /\ Cardinality(ToSet(f)) \in Nat /\ Cardinality(ToSet(f)) <= Len(f)
  BY <1>1, <1>2, ImageFacts
<1>4. Reported(p) \in SUBSET ToSet(f)
  BY DEF Reported
<1>5. QED BY <1>3, <1>4, FS_Subset, FS_CardinalityType

-----------------------------------------------------------------------------
(* A grep: GrepEnds, GrepOpen and GrepPage.                                *)

(* What a step of a grep has to show.                                      *)
LEMMA GrepFrame ==
  ASSUME IInv, AnswerInv, call.kind \in {"grep", "files"}, NEW c, ReaderMoves(c),
         c.kind = call.kind, c.want = call.want, c.filled = call.filled,
         c.found \subseteq call.found, c.pc # "walk", GrepInv'
  PROVE  AnswerInv'
<1>1. call' = c /\ UNCHANGED <<row, text, writer, steady>> /\ Untouched'
  BY MovesSteady
<1>2. Searching /\ Searching' /\ call.kind \in Walks
  BY <1>1 DEF Searching, Walks
<1>3. \A d : IsCurrent(d)' = IsCurrent(d)
  BY <1>1 DEF IsCurrent, Answers
<1>4. FoundInv'
  BY <1>1, <1>2, <1>3 DEF AnswerInv, FoundInv
<1>5. WalkInv' /\ WantInv'
  BY <1>1, <1>2 DEF AnswerInv, WantInv, WalkInv
<1>6. Scanned' /\ ReadInv' /\ OutlineInv'
  BY <1>1 DEF Scanned, ReadInv, OutlineInv, Scans
<1>7. QED BY <1>1, <1>4, <1>5, <1>6 DEF AnswerInv

(* What such a step leaves as it was.                                      *)
LEMMA GrepSame ==
  ASSUME IInv, AnswerInv, call.kind \in {"grep", "files"}, NEW c, ReaderMoves(c),
         c.kind = call.kind, c.want = call.want
  PROVE  /\ call' = c /\ UNCHANGED <<row, text, writer, steady>>
         /\ Expected' = Expected /\ PerFile' = PerFile /\ Searching /\ Searching'
         /\ \A d : IsCurrent(d)' = IsCurrent(d)
         /\ \A p, k : HitsTo(p, k)' = HitsTo(p, k)
         /\ \A p : HitsIn(p)' = HitsIn(p)
         /\ \A p, k : Reported(p)' = Reported(p) => ReportsFirst(p, k)' = ReportsFirst(p, k)
<1>1. call' = c /\ UNCHANGED <<row, text, writer, steady>>
  BY MovesSteady
<1>2. Expected' = Expected /\ PerFile' = PerFile /\ Searching /\ Searching'
  BY <1>1 DEF Expected, PerFile, Searching
<1>3. \A d : IsCurrent(d)' = IsCurrent(d)
  BY <1>1 DEF IsCurrent, Answers
<1>4. \A p, k : HitsTo(p, k)' = HitsTo(p, k)
  BY <1>1 DEF HitsTo
<1>5. \A p : HitsIn(p)' = HitsIn(p)
  BY <1>1 DEF HitsIn
<1>6. ASSUME NEW p, NEW k, Reported(p)' = Reported(p)
      PROVE  ReportsFirst(p, k)' = ReportsFirst(p, k)
  BY <1>5, <1>6 DEF ReportsFirst, Before
<1>7. QED BY <1>1, <1>2, <1>3, <1>4, <1>5, <1>6

(* It ends: truncated, or with no candidate left.                          *)
LEMMA GrepEndsAnswers ==
  ASSUME IInv, AnswerInv, GrepEnds
  PROVE  AnswerInv'
<1>1. call \in CallState /\ call.pc = "scan" /\ call.kind \in {"grep", "files"}
  BY DEF IInv, TypeOK, CallInv, GrepEnds
<1> DEFINE c == [call EXCEPT !.pc = "done", !.truncated = @ \/ call.found # {}]
<1>2. ReaderMoves(c)
  BY DEF GrepEnds
<1>3. /\ c.kind = call.kind /\ c.want = call.want /\ c.filled = call.filled
      /\ c.found = call.found /\ c.pc = "done" /\ c.hits = call.hits
      /\ c.truncated = (call.truncated \/ call.found # {})
  BY <1>1 DEF CallState
<1> HIDE DEF c
<1>4. /\ call' = c /\ Expected' = Expected /\ PerFile' = PerFile /\ Searching /\ Searching'
      /\ \A p, k : Reported(p)' = Reported(p) => ReportsFirst(p, k)' = ReportsFirst(p, k)
  BY <1>1, <1>2, <1>3, GrepSame
<1>5. \A p : Reported(p)' = Reported(p)
  BY <1>3, <1>4 DEF Reported
<1>6. HeldPaths' = HeldPaths
  BY <1>1, <1>3, <1>4 DEF HeldPaths, Held
<1>7. ~Excused' => ~Excused
  BY <1>3, <1>4 DEF Excused
<1>8. GrepInv'
  <2>1. ASSUME ~Excused', NEW p \in Expected', p \notin HeldPaths'
        PROVE  ReportsFirst(p, PerFile)'
    <3>1. ReportsFirst(p, PerFile)
      BY <1>1, <1>4, <1>6, <1>7, <2>1 DEF AnswerInv, GrepInv
    <3>2. QED BY <1>4, <1>5, <3>1
  <2>2. ~call'.truncated => call'.found = {}
    BY <1>3, <1>4
  <2>3. QED BY <1>3, <1>4, <2>1, <2>2 DEF GrepInv
<1>9. QED BY <1>1, <1>2, <1>3, <1>8, GrepFrame

(* It opens a candidate, of which nothing was reported yet.                *)
LEMMA GrepOpenAnswers ==
  ASSUME IInv, AnswerInv, GrepOpen
  PROVE  AnswerInv'
<1>1. call \in CallState /\ call.pc = "scan" /\ call.kind \in {"grep", "files"}
  BY DEF IInv, TypeOK, CallInv, GrepOpen
<1>2. PICK d \in call.found :
        ReaderMoves([call EXCEPT !.pc = "page", !.found = @ \ {d}, !.doc = d, !.page = 1,
                                 !.perFile = 0])
  BY DEF GrepOpen
<1> DEFINE c == [call EXCEPT !.pc = "page", !.found = @ \ {d}, !.doc = d, !.page = 1,
                             !.perFile = 0]
<1>3. /\ c.kind = call.kind /\ c.want = call.want /\ c.filled = call.filled
      /\ c.found = call.found \ {d} /\ c.pc = "page" /\ c.hits = call.hits
      /\ c.truncated = call.truncated /\ c.doc = d /\ c.page = 1 /\ c.perFile = 0
  BY <1>1 DEF CallState
<1>4. ReaderMoves(c)
  BY <1>2
<1> HIDE DEF c
<1>5. /\ call' = c /\ UNCHANGED steady /\ Expected' = Expected /\ PerFile' = PerFile
      /\ Searching /\ Searching'
      /\ \A e : IsCurrent(e)' = IsCurrent(e)
      /\ \A p, k : HitsTo(p, k)' = HitsTo(p, k)
      /\ \A p, k : Reported(p)' = Reported(p) => ReportsFirst(p, k)' = ReportsFirst(p, k)
  BY <1>1, <1>3, <1>4, GrepSame
<1>6. \A p : Reported(p)' = Reported(p)
  BY <1>3, <1>5 DEF Reported
<1>7. HeldPaths' = HeldPaths
  <2>1. Held = call.found
    BY <1>1 DEF Held
  <2>2. Held' = (call.found \ {d}) \union {d}
    BY <1>3, <1>5 DEF Held
  <2>3. Held' = Held
    BY <1>2, <2>1, <2>2
  <2>4. QED BY <2>3 DEF HeldPaths
<1>8. Excused' = Excused
  BY <1>3, <1>5 DEF Excused
<1>9. /\ \A e \in call.found : e.path = d.path => e = d
      /\ d.path \in steady => IsCurrent(d)
      /\ \A e \in call.found : Reported(e.path) = {}
  BY <1>1, <1>2, <1>5 DEF AnswerInv, FoundInv, GrepInv, Walks
<1>10. GrepInv'
  <2>1. ASSUME ~Excused', NEW p \in Expected', p \notin HeldPaths'
        PROVE  ReportsFirst(p, PerFile)'
    <3>1. ReportsFirst(p, PerFile)
      BY <1>1, <1>5, <1>7, <1>8, <2>1 DEF AnswerInv, GrepInv
    <3>2. QED BY <1>5, <1>6, <3>1
  <2>2. \A e \in call'.found : Reported(e.path)' = {}
    BY <1>3, <1>5, <1>6, <1>9
  <2>3. call'.doc.path \notin FoundPaths'
    BY <1>3, <1>5, <1>9 DEF FoundPaths
  <2>4. call'.page <= call'.doc.pages + 1 /\ call'.perFile < PerFile'
    <3>1. d.pages \in Nat
      BY <1>1, <1>2, LimitFacts DEF CallState, Doc
    <3>2. QED BY <1>3, <1>5, <3>1, LimitFacts DEF PerFile
  <2>5. ASSUME call'.doc.path \in steady'
        PROVE  /\ IsCurrent(call.doc)'
               /\ Reported(call.doc.path)' = HitsTo(call.doc.path, call.page - 1)'
               /\ Cardinality(Reported(call.doc.path))' = call'.perFile
    <3>1. IsCurrent(d) /\ UNCHANGED row
      BY <1>1, <1>3, <1>4, <1>5, <1>9, <2>5, GrepSame
    <3>2. IsCurrent(call.doc)'
      BY <1>3, <1>5, <3>1 DEF IsCurrent, Answers
    <3>3. HitsTo(call.doc.path, call.page - 1)' = {}
      BY <1>3, <1>5 DEF HitsTo
    <3>4. Reported(call.doc.path)' = {}
      BY <1>2, <1>3, <1>5, <1>9 DEF Reported
    <3>5. QED BY <1>3, <1>5, <3>2, <3>3, <3>4, FS_EmptySet
  <2>6. QED BY <1>3, <1>5, <2>1, <2>2, <2>3, <2>4, <2>5 DEF GrepInv
<1>11. QED BY <1>1, <1>3, <1>4, <1>10, GrepFrame

(* What GrepInv says of the page at hand.                                  *)
LEMMA PageFactsOfGrep ==
  ASSUME IInv, AnswerInv, call.pc = "page", call.kind \in {"grep", "files"}
  PROVE  /\ call \in CallState /\ call.hits \in Seq(Hit) /\ Len(call.hits) \in Nat
         /\ call.doc.path \in Paths /\ call.doc.pages \in 0..MaxPage
         /\ call.page \in Nat \ {0} /\ call.perFile \in Nat
         /\ call.page <= call.doc.pages + 1
         /\ PerFile \in Nat /\ call.perFile < PerFile
         /\ call.doc.path \notin FoundPaths
         /\ \A d \in call.found : Reported(d.path) = {}
         /\ call.doc.path \in steady =>
              /\ IsCurrent(call.doc)
              /\ Reported(call.doc.path) = HitsTo(call.doc.path, call.page - 1)
              /\ Cardinality(Reported(call.doc.path)) = call.perFile
<1>1. call \in CallState /\ call.doc \in Held
  BY DEF IInv, TypeOK, Held
<1>2. call.doc.path \in Paths
  BY <1>1 DEF IInv, HeldInv
<1>3. /\ call.hits \in Seq(Hit) /\ Len(call.hits) \in Nat /\ call.doc.pages \in 0..MaxPage
      /\ call.page \in Nat \ {0} /\ call.perFile \in Nat
  BY <1>1, LimitFacts, LenProperties DEF CallState, Doc
<1>4. PerFile \in Nat
  BY LimitFacts DEF PerFile
<1>5. QED BY <1>1, <1>2, <1>3, <1>4 DEF AnswerInv, GrepInv, Searching

(* It leaves a document, all of whose pages it read; or gives up.          *)
LEMMA GrepLeaves ==
  ASSUME IInv, AnswerInv, call.pc = "page", call.kind \in {"grep", "files"},
         NEW cut \in BOOLEAN, ReaderMoves([call EXCEPT !.pc = "scan", !.truncated = cut]),
         cut \/ (call.page > call.doc.pages /\ cut = call.truncated)
  PROVE  AnswerInv'
<1> DEFINE c == [call EXCEPT !.pc = "scan", !.truncated = cut]
           p == call.doc.path
<1>1. /\ call \in CallState /\ p \in Paths /\ call.doc.pages \in 0..MaxPage
      /\ call.page \in Nat \ {0} /\ call.perFile \in Nat /\ call.page <= call.doc.pages + 1
      /\ PerFile \in Nat /\ call.perFile < PerFile
      /\ \A d \in call.found : Reported(d.path) = {}
      /\ p \in steady => /\ IsCurrent(call.doc) /\ Reported(p) = HitsTo(p, call.page - 1)
                         /\ Cardinality(Reported(p)) = call.perFile
  BY PageFactsOfGrep
<1>2. /\ c.kind = call.kind /\ c.want = call.want /\ c.filled = call.filled
      /\ c.found = call.found /\ c.pc = "scan" /\ c.hits = call.hits /\ c.truncated = cut
  BY <1>1 DEF CallState
<1>3. ReaderMoves(c)
  OBVIOUS
<1> HIDE DEF c
<1>4. /\ call' = c /\ Expected' = Expected /\ PerFile' = PerFile /\ Searching /\ Searching'
      /\ \A q, k : Reported(q)' = Reported(q) => ReportsFirst(q, k)' = ReportsFirst(q, k)
  BY <1>2, <1>3, GrepSame
<1>5. \A q : Reported(q)' = Reported(q)
  BY <1>2, <1>4 DEF Reported
<1>6. ASSUME ~Excused', NEW q \in Expected', q \notin HeldPaths'
      PROVE  ReportsFirst(q, PerFile)'
  <2>1. ~cut /\ ~Excused /\ call.page = call.doc.pages + 1
    <3>1. ~cut /\ ~Excused
      BY <1>2, <1>4, <1>6 DEF Excused
    <3>2. QED BY <1>1, <3>1
  <2>2. CASE q = p
    <3>1. p \in steady
      BY <1>4, <1>6, <2>2 DEF Expected
    <3>2. call.doc.pages = row[p].pages /\ call.page - 1 = row[p].pages
      BY <1>1, <2>1, <3>1 DEF IsCurrent
    <3>3. Reported(p) = HitsIn(p)
      BY <1>1, <3>1, <3>2 DEF HitsIn, HitsTo
    <3>4. Cardinality(HitsIn(p)) = call.perFile
      BY <1>1, <3>1, <3>3
    <3>5. Smaller(PerFile, call.perFile) = call.perFile
      BY <1>1 DEF Smaller
    <3>6. ReportsFirst(p, PerFile)
      BY <3>3, <3>4, <3>5 DEF ReportsFirst
    <3>7. QED BY <1>4, <1>5, <2>2, <3>6
  <2>3. CASE q # p
    <3>1. q \notin HeldPaths
      <4>1. Held \subseteq Held' \union {call.doc}
        BY <1>2, <1>4 DEF Held
      <4>2. QED BY <1>6, <2>3, <4>1 DEF HeldPaths
    <3>2. ReportsFirst(q, PerFile)
      BY <1>4, <1>6, <2>1, <3>1 DEF AnswerInv, GrepInv
    <3>3. QED BY <1>4, <1>5, <3>2
  <2>4. QED BY <2>2, <2>3
<1>7. \A d \in call'.found : Reported(d.path)' = {}
  BY <1>1, <1>2, <1>4, <1>5
<1>8. GrepInv'
  BY <1>2, <1>4, <1>6, <1>7 DEF GrepInv
<1>9. QED BY <1>2, <1>3, <1>8, GrepFrame

(* It reports the matches on a page, as many as there is room for.         *)
LEMMA GrepTakes ==
  ASSUME IInv, AnswerInv, call.pc = "page", call.kind \in {"grep", "files"},
         call.page <= call.doc.pages, FetchedPage # NoPage,
         NEW room \in Nat \ {0},
         call.kind = "files" => room = 1,
         call.kind = "grep" =>
           room = Smaller(MaxPerFile - call.perFile, MaxMatches - Len(call.hits)),
         NEW taken, taken = Smaller(FetchedPage, room),
         ReaderMoves([call EXCEPT
                !.scanned = @ + 1,
                !.hits = @ \o FirstHits(taken),
                !.perFile = @ + taken,
                !.page = @ + 1,
                !.pc = IF taken = room THEN "scan" ELSE "page"])
  PROVE  AnswerInv'
<1> DEFINE hits == call.hits \o FirstHits(taken)
           c == [call EXCEPT
                !.scanned = @ + 1,
                !.hits = hits,
                !.perFile = @ + taken,
                !.page = @ + 1,
                !.pc = IF taken = room THEN "scan" ELSE "page"]
           len == Len(call.hits)
<1> PICK p \in Paths : p = call.doc.path
  BY PageFactsOfGrep
<1>1. /\ call \in CallState /\ p \in Paths /\ call.doc.pages \in 0..MaxPage
      /\ call.hits \in Seq(Hit) /\ len \in Nat
      /\ call.page \in Nat \ {0} /\ call.perFile \in Nat
      /\ PerFile \in Nat /\ call.perFile < PerFile
      /\ p \notin FoundPaths
      /\ \A d \in call.found : Reported(d.path) = {}
      /\ p \in steady => /\ IsCurrent(call.doc) /\ Reported(p) = HitsTo(p, call.page - 1)
                         /\ Cardinality(Reported(p)) = call.perFile
  BY PageFactsOfGrep
<1>2. /\ c.kind = call.kind /\ c.want = call.want /\ c.filled = call.filled
      /\ c.found = call.found /\ c.truncated = call.truncated /\ c.doc = call.doc
      /\ c.hits = hits /\ c.page = call.page + 1 /\ c.perFile = call.perFile + taken
      /\ c.pc = IF taken = room THEN "scan" ELSE "page"
  BY <1>1 DEF CallState
<1>3. ReaderMoves(c)
  OBVIOUS
<1>4. call.page \in Pages /\ FetchedPage \in Nat
  BY FetchFacts
<1>5. taken \in Nat /\ taken <= room /\ taken <= FetchedPage /\ (taken # room => taken = FetchedPage)
  BY <1>4 DEF Smaller
<1>6. /\ ToSet(hits) = ToSet(call.hits) \union OnPage(p, call.page, taken)
      /\ Len(hits) = len + taken
  BY <1>1, <1>4, <1>5, TakenFacts
<1>7. /\ room <= PerFile - call.perFile
      /\ call.kind = "grep" => room <= MaxMatches - len
      /\ call.kind = "files" \/ len + room < MaxMatches => room = PerFile - call.perFile
  <2>1. CASE call.kind = "files"
    BY <1>1, <2>1 DEF PerFile
  <2>2. CASE call.kind = "grep"
    <3>1. PerFile = MaxPerFile /\ MaxPerFile \in Nat /\ MaxMatches \in Nat
      BY <2>2, LimitFacts DEF PerFile
    <3>2. room = IF MaxPerFile - call.perFile <= MaxMatches - len
                 THEN MaxPerFile - call.perFile ELSE MaxMatches - len
      BY <2>2 DEF Smaller
    <3> HIDE DEF c, hits, len
    <3>3. /\ room <= MaxPerFile - call.perFile /\ room <= MaxMatches - len
          /\ len + room < MaxMatches => room = MaxPerFile - call.perFile
      BY <1>1, <3>1, <3>2
    <3>4. QED BY <2>2, <3>1, <3>3
  <2>3. QED BY <2>1, <2>2
<1> HIDE DEF c, hits
<1>8. /\ call' = c /\ UNCHANGED <<row, text, steady>>
      /\ Expected' = Expected /\ PerFile' = PerFile /\ Searching /\ Searching'
      /\ \A q : HitsIn(q)' = HitsIn(q)
      /\ \A q, k : Reported(q)' = Reported(q) => ReportsFirst(q, k)' = ReportsFirst(q, k)
  BY <1>2, <1>3, GrepSame
<1>9. /\ \A q : q # p => Reported(q)' = Reported(q)
      /\ Reported(p)' = Reported(p) \union OnPage(p, call.page, taken)
  <2>1. \A h \in OnPage(p, call.page, taken) : h[1] = p
    BY DEF OnPage
  <2>2. \A q : Reported(q)' = {h \in ToSet(hits) : h[1] = q}
    BY <1>2, <1>8 DEF Reported
  <2>3. \A q : Reported(q) = {h \in ToSet(call.hits) : h[1] = q}
    BY DEF Reported
  <2>4. ASSUME NEW q, q # p
        PROVE  Reported(q)' = Reported(q)
    BY <1>6, <2>1, <2>2, <2>3, <2>4
  <2>5. Reported(p)' = Reported(p) \union OnPage(p, call.page, taken)
    BY <1>6, <2>1, <2>2, <2>3
  <2>6. QED BY <2>4, <2>5
<1>10. ASSUME ~Excused'
       PROVE  ~Excused /\ (call.kind = "files" \/ len + taken < MaxMatches)
  <2>1. /\ ~call.truncated /\ ~call.filled
        /\ call.kind = "grep" => ~(len + taken >= MaxMatches)
    BY <1>2, <1>6, <1>8, <1>10 DEF Excused
  <2>2. call.kind = "grep" => len + taken < MaxMatches /\ ~(len >= MaxMatches)
    <3>1. MaxMatches \in Nat
      BY LimitFacts
    <3> HIDE DEF len
    <3>2. QED BY <1>1, <1>5, <2>1, <3>1
  <2>3. QED BY <2>1, <2>2 DEF Excused
<1>11. \A d \in call'.found : Reported(d.path)' = {}
  BY <1>1, <1>2, <1>8, <1>9 DEF FoundPaths
<1>12. ASSUME ~Excused', NEW q \in Expected', q # p, q \notin HeldPaths'
       PROVE  ReportsFirst(q, PerFile)'
  <2>1. q \notin HeldPaths
    <3>1. Held \subseteq Held' \union {call.doc}
      BY <1>2, <1>8 DEF Held
    <3>2. QED BY <1>12, <3>1 DEF HeldPaths
  <2>2. ReportsFirst(q, PerFile)
    BY <1>8, <1>10, <1>12, <2>1 DEF AnswerInv, GrepInv
  <2>3. QED BY <1>8, <1>9, <1>12, <2>2
<1>13. ASSUME p \in steady
       PROVE  /\ row[p].live /\ call.doc.pages = row[p].pages
              /\ FetchedPage = text[row[p].id][call.page]
              /\ HitsTo(p, call.page) = HitsTo(p, call.page - 1) \union OnPage(p, call.page, FetchedPage)
              /\ Cardinality(Reported(p)') = call.perFile + taken
  <2>1. /\ row[p].live /\ call.doc.pages = row[p].pages
        /\ FetchedPage = text[row[p].id][call.page]
    BY <1>1, <1>13 DEF IsCurrent, Answers, FetchedPage
  <2>2. /\ HitsTo(p, call.page) = HitsTo(p, call.page - 1) \union OnPage(p, call.page, FetchedPage)
        /\ \A h \in HitsTo(p, call.page - 1) : h[2] < call.page
    <3>1. /\ HitsTo(p, call.page) = HitsTo(p, call.page - 1)
                                      \union OnPage(p, call.page, text[row[p].id][call.page])
          /\ \A h \in HitsTo(p, call.page - 1) : h[2] < call.page
      BY <1>1, HitsToNext
    <3>2. QED BY <2>1, <3>1
  <2>3. Reported(p) \cap OnPage(p, call.page, taken) = {}
    <3>1. \A h \in OnPage(p, call.page, taken) : h[2] = call.page
      BY DEF OnPage
    <3>2. \A h \in Reported(p) : h[2] # call.page
      BY <1>1, <1>13, <2>2
    <3>3. QED BY <3>1, <3>2
  <2>4. /\ IsFiniteSet(Reported(p)) /\ Cardinality(Reported(p)) = call.perFile
        /\ IsFiniteSet(OnPage(p, call.page, taken))
        /\ Cardinality(OnPage(p, call.page, taken)) = taken
    BY <1>1, <1>5, <1>13, ReportedFinite, PageCount
  <2>5. Cardinality(Reported(p) \union OnPage(p, call.page, taken)) = call.perFile + taken - 0
    BY <2>3, <2>4, FS_Union, FS_EmptySet
  <2>6. Cardinality(Reported(p)') = call.perFile + taken
    BY <1>1, <1>5, <1>9, <2>5
  <2>7. QED BY <2>1, <2>2, <2>6
<1>14. CASE taken # room
  <2>1. call'.pc = "page" /\ call'.doc = call.doc /\ call'.page = call.page + 1
    BY <1>2, <1>8, <1>14
  <2>2. p \in HeldPaths'
    BY <2>1 DEF HeldPaths, Held
  <2>3. call'.doc.path \notin FoundPaths' /\ call'.page <= call'.doc.pages + 1
    BY <1>1, <1>2, <1>8, <2>1 DEF FoundPaths
  <2>4. call'.perFile < PerFile'
    <3>1. taken < room
      BY <1>5, <1>14
    <3>2. QED BY <1>1, <1>2, <1>5, <1>7, <1>8, <3>1
  <2>5. ASSUME p \in steady
        PROVE  /\ IsCurrent(call.doc)'
               /\ Reported(call.doc.path)' = HitsTo(call.doc.path, call.page - 1)'
               /\ Cardinality(Reported(call.doc.path))' = call'.perFile
    <3>1. IsCurrent(call.doc)'
      BY <1>1, <1>2, <1>8, <2>1, <2>5 DEF IsCurrent, Answers
    <3>2. call'.page - 1 = call.page
      BY <1>1, <2>1
    <3>3. HitsTo(call.doc.path, call.page - 1)' = HitsTo(p, call.page)
      BY <1>8, <2>1, <3>2 DEF HitsTo
    <3>4. Reported(call.doc.path)' = Reported(p)'
      BY <2>1 DEF Reported
    <3>5. Reported(p)' = HitsTo(p, call.page)
      BY <1>1, <1>5, <1>9, <1>13, <1>14, <2>5
    <3>6. QED BY <1>2, <1>8, <1>13, <2>5, <3>1, <3>3, <3>4, <3>5
  <2>6. GrepInv'
    BY <1>8, <1>11, <1>12, <2>1, <2>2, <2>3, <2>4, <2>5 DEF GrepInv
  <2>7. QED BY <1>2, <1>3, <1>14, <2>6, GrepFrame
<1>15. CASE taken = room
  <2>1. call'.pc = "scan"
    BY <1>2, <1>8, <1>15
  <2>2. ASSUME ~Excused', p \in Expected
        PROVE  ReportsFirst(p, PerFile)'
    <3>1. p \in steady
      BY <2>2 DEF Expected
    <3>2. call.perFile + taken = PerFile
      BY <1>1, <1>5, <1>7, <1>10, <1>15, <2>2
    <3>3. Cardinality(Reported(p)') = PerFile
      BY <1>13, <3>1, <3>2
    <3>4. /\ OnPage(p, call.page, taken) \subseteq OnPage(p, call.page, FetchedPage)
          /\ \A h \in OnPage(p, call.page, taken) : h[2] = call.page /\ h[3] \in 1..taken
          /\ \A g \in OnPage(p, call.page, FetchedPage) :
               g[3] <= taken => g \in OnPage(p, call.page, taken)
      BY <1>4, <1>5 DEF OnPage
    <3> DEFINE all == HitsIn(p)
    <3>5. HitsTo(p, call.page) \subseteq all
      <4>1. \A n \in 1..call.page : n \in 1..row[p].pages
        BY <1>1, <1>13, <3>1
      <4>2. QED BY <4>1 DEF HitsTo, HitsIn
    <3>6. Reported(p)' \subseteq all
      BY <1>1, <1>9, <1>13, <3>1, <3>4, <3>5
    <3>7. IsFiniteSet(all)
      <4>1. row[p].pages \in 0..MaxPage /\ all = HitsTo(p, row[p].pages)
        BY <1>1, <1>13, <3>1 DEF HitsIn, HitsTo
      <4>2. QED BY <1>1, <1>13, <3>1, <4>1, HitsToFinite
    <3>8. PerFile <= Cardinality(all) /\ Cardinality(all) \in Nat
      BY <3>3, <3>6, <3>7, FS_Subset, FS_CardinalityType
    <3>9. Cardinality(Reported(p)') = Smaller(PerFile, Cardinality(all))
      BY <1>1, <3>3, <3>8 DEF Smaller
    <3>10. ASSUME NEW h \in Reported(p)', NEW g \in all, Before(g, h)
           PROVE  g \in Reported(p)'
      <4>1. PICK n \in 1..row[p].pages : g \in OnPage(p, n, text[row[p].id][n])
        BY <3>10 DEF HitsIn, OnPage
      <4>2. g[2] = n /\ n \in Nat /\ g[3] \in Int
        BY <4>1 DEF OnPage
      <4>3. CASE n < call.page
        <5>1. n \in 1..call.page - 1
          BY <1>1, <4>1, <4>3
        <5>2. g \in HitsTo(p, call.page - 1)
          BY <4>1, <5>1 DEF HitsTo, OnPage
        <5>3. QED BY <1>1, <1>9, <3>1, <5>2
      <4>4. CASE ~(n < call.page)
        <5>1. h \notin Reported(p)
          <6>1. h \in Reported(p) => h[2] \in 1..call.page - 1 /\ h[2] < call.page
            BY <1>1, <3>1, HitsToNext
          <6>2. ASSUME h \in Reported(p)
                PROVE  FALSE
            BY <1>1, <3>10, <4>2, <4>4, <6>1, <6>2 DEF Before
          <6>3. QED BY <6>2
        <5>2. h \in OnPage(p, call.page, taken)
          BY <1>9, <3>10, <5>1
        <5>3. h[2] = call.page /\ h[3] \in 1..taken
          BY <3>4, <5>2
        <5>4. n = call.page /\ g[3] < h[3]
          BY <1>1, <3>10, <4>2, <4>4, <5>3 DEF Before
        <5>5. g \in OnPage(p, call.page, FetchedPage) /\ g[3] <= taken
          BY <1>5, <1>13, <3>1, <4>1, <4>2, <5>3, <5>4
        <5>6. QED BY <1>9, <3>4, <5>5
      <4>5. QED BY <4>3, <4>4
    <3>11. HitsIn(p)' = all
      BY <1>8
    <3>12. QED BY <1>8, <3>6, <3>9, <3>10, <3>11 DEF ReportsFirst, Before
  <2>3. ASSUME ~Excused', NEW q \in Expected', q \notin HeldPaths'
        PROVE  ReportsFirst(q, PerFile)'
    BY <1>8, <1>12, <2>2, <2>3
  <2>4. GrepInv'
    BY <1>8, <1>11, <2>1, <2>3 DEF GrepInv
  <2>5. QED BY <1>2, <1>3, <1>15, <2>4, GrepFrame
<1>16. QED BY <1>14, <1>15

(* One round of the loop over the pages of a candidate.                    *)
LEMMA GrepPageAnswers ==
  ASSUME IInv, AnswerInv, GrepPage
  PROVE  AnswerInv'
<1>1. call.pc = "page" /\ call.kind \in {"grep", "files"}
  BY DEF GrepPage
<1>2. /\ call \in CallState /\ call.truncated \in BOOLEAN /\ call.perFile \in Nat
      /\ Len(call.hits) \in Nat /\ call.page \in Int /\ call.doc.pages \in Int
  BY <1>1, PageFactsOfGrep, LimitFacts DEF CallState
<1>3. CASE call.page > call.doc.pages
  <2>1. ReaderMoves([call EXCEPT !.pc = "scan"])
    BY <1>3 DEF GrepPage
  <2>2. [call EXCEPT !.pc = "scan"] = [call EXCEPT !.pc = "scan", !.truncated = call.truncated]
    BY <1>2 DEF CallState
  <2>3. QED BY <1>1, <1>2, <1>3, <2>1, <2>2, GrepLeaves
<1>4. CASE ~(call.page > call.doc.pages) /\ call.scanned >= PageBudget
  <2>1. ReaderMoves([call EXCEPT !.pc = "scan", !.truncated = TRUE])
    BY <1>4 DEF GrepPage
  <2>2. QED BY <1>1, <2>1, GrepLeaves
<1>5. CASE /\ ~(call.page > call.doc.pages) /\ ~(call.scanned >= PageBudget)
           /\ FetchedPage = NoPage
  <2> DEFINE c == [call EXCEPT !.pc = "failed"]
  <2>1. ReaderMoves(c)
    BY <1>5 DEF GrepPage
  <2>2. /\ c.kind = call.kind /\ c.want = call.want /\ c.filled = call.filled
        /\ c.found = call.found /\ c.pc = "failed"
    BY <1>2 DEF CallState
  <2> HIDE DEF c
  <2>3. GrepInv'
    BY <2>1, <2>2, MovesSteady DEF GrepInv
  <2>4. QED BY <1>1, <2>1, <2>2, <2>3, GrepFrame
<1>6. CASE /\ ~(call.page > call.doc.pages) /\ ~(call.scanned >= PageBudget)
           /\ FetchedPage # NoPage
  <2> DEFINE room == IF call.kind = "files" THEN 1
                     ELSE Smaller(MaxPerFile - call.perFile, MaxMatches - Len(call.hits))
             taken == Smaller(FetchedPage, room)
  <2>1. ReaderMoves([call EXCEPT
                !.scanned = @ + 1,
                !.hits = @ \o FirstHits(taken),
                !.perFile = @ + taken,
                !.page = @ + 1,
                !.pc = IF taken = room THEN "scan" ELSE "page"])
    BY <1>6 DEF GrepPage
  <2>2. call.kind = "grep" => call.perFile < MaxPerFile /\ Len(call.hits) < MaxMatches
    BY <1>1 DEF IInv, CallInv
  <2>3. room \in Nat \ {0}
    BY <1>1, <1>2, <2>2, LimitFacts DEF Smaller
  <2>4. /\ call.kind = "files" => room = 1
        /\ call.kind = "grep" =>
             room = Smaller(MaxPerFile - call.perFile, MaxMatches - Len(call.hits))
        /\ call.page <= call.doc.pages /\ FetchedPage # NoPage
    BY <1>2, <1>6
  <2> HIDE DEF room
  <2>5. QED BY <1>1, <2>1, <2>3, <2>4, GrepTakes
<1>7. QED BY <1>3, <1>4, <1>5, <1>6

(* Every step keeps the invariant.                                         *)
LEMMA StepAnswers == IInv /\ AnswerInv /\ [Next]_vars => AnswerInv'
<1> SUFFICES ASSUME IInv, AnswerInv, [Next]_vars PROVE AnswerInv'
  OBVIOUS
<1>1. IInv'
  BY StepIInv
<1>2. CASE BeginCall
  BY <1>1, <1>2, BeginAnswers
<1>3. CASE CallStep
  BY <1>3, WalkAnswers, GrepEndsAnswers, GrepOpenAnswers, GrepPageAnswers, StatAnswers,
     ReadAnswers, OutlineAnswers DEF CallStep
<1>4. CASE WriterStep
  <2>1. /\ UNCHANGED call /\ steady' \subseteq steady /\ Untouched'
        /\ \A p \in steady' : Same(p)
    BY <1>4, WriterSteady DEF AnswerInv
  <2>2. QED BY <2>1, AnswersFrame
<1>5. CASE UNCHANGED vars
  <2>1. /\ UNCHANGED call /\ steady' \subseteq steady /\ Untouched'
        /\ \A p \in steady' : Same(p)
    BY <1>5 DEF vars, AnswerInv, Untouched, Same
  <2>2. QED BY <2>1, AnswersFrame
<1>6. QED BY <1>2, <1>3, <1>4, <1>5 DEF Next

(* The invariant about what stayed as it was: at every step of a call, all *)
(* that lies behind its cursor, or before the page at hand, is in its      *)
(* answer.                                                                 *)
THEOREM AnswersInvariance == Spec => [](IInv /\ AnswerInv)
<1>1. Init => IInv /\ AnswerInv
  BY InitIInv, InitAnswers
<1>2. IInv /\ AnswerInv /\ [Next]_vars => (IInv /\ AnswerInv)'
  BY StepIInv, StepAnswers
<1>3. QED BY <1>1, <1>2, PTL DEF Spec

(* ListingComplete: whatever writers do between two pages of a list, tree, *)
(* find or glob, the documents that stayed as they were and match are in   *)
(* the answer unless a limit was reached, only such ones are, and each     *)
(* once; for any number of documents and any limits.                       *)
THEOREM ReadListingComplete == Spec => []ListingComplete
<1>1. IInv /\ AnswerInv => ListingComplete
  <2> SUFFICES ASSUME IInv, AnswerInv, call.pc = "done",
                      call.kind \in {"list", "tree", "find", "glob"}
               PROVE  /\ ~call.filled => Expected \subseteq FoundPaths
                      /\ FoundPaths \intersect steady \subseteq Expected
                      /\ Cardinality(FoundPaths) = call.count
    BY DEF ListingComplete, FoundPaths
  <2>1. call.kind \in Walks /\ ~Searching
    BY DEF Walks, Searching
  <2>2. Expected = {p \in steady : Answers(p)}
    BY DEF Expected, Answers
  <2>3. \A p \in FoundPaths : p \in steady => Answers(p)
    BY <2>1 DEF AnswerInv, FoundInv, FoundPaths, IsCurrent
  <2>4. ~call.filled => \A p \in steady : Answers(p) => p \in FoundPaths
    BY <2>1 DEF AnswerInv, WalkInv
  <2>5. Cardinality(FoundPaths) = call.count
    BY <2>1 DEF AnswerInv, FoundInv
  <2>6. QED BY <2>2, <2>3, <2>4, <2>5
<1>2. QED BY <1>1, AnswersInvariance, PTL

(* GrepComplete: a grep that was cut by nothing reports of each matching   *)
(* document that stayed as it was its first matches, up to the limit per   *)
(* file, for any budgets and any number of matches.                        *)
THEOREM ReadGrepComplete == Spec => []GrepComplete
<1>1. IInv /\ AnswerInv => GrepComplete
  <2> SUFFICES ASSUME IInv, AnswerInv, call.pc = "done", Searching,
                      ~call.truncated, ~call.filled,
                      call.kind = "files" \/ Len(call.hits) < MaxMatches,
                      NEW p \in Expected
               PROVE  ReportsFirst(p, PerFile)
    BY DEF GrepComplete, EveryMatchReported, Searching
  <2>1. Len(call.hits) \in Nat
    BY LenProperties DEF IInv, TypeOK, CallState
  <2>2. ~Excused
    BY <2>1, LimitFacts DEF Excused
  <2>3. HeldPaths = {}
    BY DEF AnswerInv, GrepInv, HeldPaths, Held
  <2>4. QED BY <2>2, <2>3 DEF AnswerInv, GrepInv
<1>2. QED BY <1>1, AnswersInvariance, PTL

(* ReadComplete: who asks for the next window as long as the last one was  *)
(* truncated has each page of a document that stayed as it was, once and   *)
(* in order, for any window and any number of pages.                       *)
THEOREM ReadReadComplete == Spec => []ReadComplete
<1>1. IInv /\ AnswerInv => ReadComplete
  <2> SUFFICES ASSUME IInv, AnswerInv, call.pc = "done", call.kind = "read",
                      call.doc.path \in steady
               PROVE  LET r == row[call.doc.path]
                      IN  call.hits = [n \in 1..r.pages |-> <<call.doc.path, n, text[r.id][n]>>]
    BY DEF ReadComplete
  <2> DEFINE r == row[call.doc.path]
  <2>1. /\ call.hits = [n \in 1..call.page - 1 |-> <<call.doc.path, n, text[r.id][n]>>]
        /\ call.page = r.pages + 1
    BY DEF AnswerInv, ReadInv
  <2>2. r.pages \in Nat
    BY LimitFacts DEF IInv, TypeOK, Row
  <2>3. call.page - 1 = r.pages
    BY <2>1, <2>2
  <2>4. QED BY <2>1, <2>3
<1>2. QED BY <1>1, AnswersInvariance, PTL

(* OutlineTold: an outline that does not say it was truncated has every    *)
(* heading of a document that stayed as it was, in order.                  *)
THEOREM ReadOutlineTold == Spec => []OutlineTold
<1>1. IInv /\ AnswerInv => OutlineTold
  <2> DEFINE p == call.doc.path
  <2> SUFFICES ASSUME IInv, AnswerInv, call.pc = "done", call.kind = "outline",
                      ~call.truncated, p \in steady
               PROVE  /\ ReportsFirst(p, MaxItems + 1)
                      /\ \A i, j \in DOMAIN call.hits : i < j => Before(call.hits[i], call.hits[j])
    BY DEF OutlineTold
  <2>1. /\ ToSet(call.hits) = HitsTo(p, call.page - 1)
        /\ \A i, j \in DOMAIN call.hits : i < j => Before(call.hits[i], call.hits[j])
        /\ Len(call.hits) < MaxItems /\ call.page = row[p].pages + 1
    BY DEF AnswerInv, OutlineInv
  <2>2. call.hits \in Seq(Hit) /\ Len(call.hits) \in Nat /\ row[p].pages \in Nat
    BY LimitFacts, LenProperties DEF IInv, TypeOK, CallState, Row
  <2>3. ToSet(call.hits) = HitsIn(p)
    <3>1. call.page - 1 = row[p].pages
      BY <2>1, <2>2
    <3>2. QED BY <2>1, <3>1 DEF HitsTo, HitsIn
  <2>4. Reported(p) = HitsIn(p)
    <3>1. \A h \in HitsIn(p) : h[1] = p
      BY DEF HitsIn
    <3>2. QED BY <2>3, <3>1 DEF Reported
  <2>5. /\ Cardinality(HitsIn(p)) \in Nat
        /\ Cardinality(HitsIn(p)) <= Len(call.hits)
    BY <2>2, <2>3, ReportedFinite
  <2>6. Cardinality(HitsIn(p)) = Smaller(MaxItems + 1, Cardinality(HitsIn(p)))
    BY <2>1, <2>2, <2>5, LimitFacts DEF Smaller
  <2>7. ReportsFirst(p, MaxItems + 1)
    BY <2>4, <2>6 DEF ReportsFirst
  <2>8. QED BY <2>1, <2>7
<1>2. QED BY <1>1, AnswersInvariance, PTL
=============================================================================
