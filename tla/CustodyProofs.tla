---------------------------- MODULE CustodyProofs ----------------------------
(***************************************************************************)
(* Proofs about the custody of XLM.  First the refund queue, for every     *)
(* number of tips, every time to live, and every order of requests,        *)
(* answers, sweeps and ledgers: the index is exact, a tip is paid back     *)
(* once, and each step is one that RefundLifecycle allows.  Then the pool. *)
(***************************************************************************)
EXTENDS MCCustody, SumsProofs, SequenceTheorems

-----------------------------------------------------------------------------
(* The index.                                                              *)

Listing == {s \in Seq(TipIds) : IsInjective(s)}

\* The last entry in the place of a removed one: the others are left, each once.
LEMMA SwapRemoved ==
    ASSUME NEW s \in Listing, NEW t
    PROVE  SwapRemove(s, t) \in Listing /\ ToSet(SwapRemove(s, t)) = ToSet(s) \ {t}
<1> DEFINE n == Len(s)
<1>0. n \in Nat
  BY LenProperties DEF Listing
<1>1. /\ s \in Seq(TipIds) /\ IsInjective(s) /\ n \in Nat /\ DOMAIN s = 1 .. n
      /\ \A i \in 1 .. n : s[i] \in TipIds
  BY ElementOfSeq, LenProperties DEF Listing
<1>2. CASE \A i \in DOMAIN s : s[i] # t
  BY <1>2 DEF SwapRemove, ToSet
<1>3. CASE \E i \in DOMAIN s : s[i] = t
  <2>1. PICK p \in 1 .. n : s[p] = t
    BY <1>1, <1>3
  <2>0. n >= 1
    BY <1>0
  <2>2. \A k \in 1 .. n : s[k] = t => k = p
    BY <1>1, <2>1 DEF IsInjective
  <2>3. (CHOOSE j \in DOMAIN s : s[j] = t /\ \A k \in 1 .. j - 1 : s[k] # t) = p
    <3>1. p \in DOMAIN s /\ s[p] = t /\ \A k \in 1 .. p - 1 : s[k] # t
      BY <1>1, <2>1, <2>2
    <3>2. \A j \in DOMAIN s : s[j] = t => j = p
      BY <1>1, <2>2
    <3> QED BY <3>1, <3>2
  <2> DEFINE e == [s EXCEPT ![p] = s[n]]
             r == SubSeq(e, 1, n - 1)
  <2>4. SwapRemove(s, t) = Front([s EXCEPT ![p] = Last(s)])
    BY <1>3, <2>3 DEF SwapRemove
  <2>5. /\ e \in Seq(TipIds) /\ Len(e) = n /\ n \in 1 .. n
        /\ \A j \in 1 .. n : e[j] = IF j = p THEN s[n] ELSE s[j]
    <3>1. n \in 1 .. n /\ s[n] \in TipIds
      BY <1>1, <2>1
    <3> QED BY <1>1, <2>1, <3>1, ExceptSeq
  <2>6. SwapRemove(s, t) = r
    BY <2>4, <2>5 DEF Front, Last
  <2> HIDE DEF e
  <2>7. r \in Seq(TipIds) /\ Len(r) = n - 1 /\ \A j \in 1 .. n - 1 : r[j] = e[j]
    <3>1. \A j \in 1 .. n - 1 : e[j] \in TipIds
      BY <1>1, <2>5
    <3>2. 1 \in Int /\ n - 1 \in Int /\ n - 1 - 1 + 1 = n - 1 /\ \A j \in 1 .. n - 1 : 1 + j - 1 = j
      BY <1>1
    <3>3. /\ r \in Seq(TipIds) /\ Len(r) = IF 1 <= n - 1 THEN n - 1 - 1 + 1 ELSE 0
          /\ \A j \in 1 .. n - 1 - 1 + 1 : r[j] = e[1 + j - 1]
      BY <3>1, <3>2, SubSeqProperties
    <3> QED BY <1>1, <2>5, <3>2, <3>3
  <2> HIDE DEF r
  <2>8. DOMAIN r = 1 .. n - 1
    BY <2>7, LenProperties
  <2>9. \A j \in 1 .. n - 1 : r[j] = IF j = p THEN s[n] ELSE s[j]
    BY <1>1, <2>5, <2>7
  <2>10. IsInjective(r)
    BY <1>1, <2>1, <2>8, <2>9 DEF IsInjective
  <2>11. ToSet(r) = ToSet(s) \ {t}
    <3>1. ASSUME NEW x \in ToSet(r) PROVE x \in ToSet(s) \ {t}
      <4>1. PICK j \in 1 .. n - 1 : x = r[j]
        BY SMTT(20), <2>8 DEF ToSet
      <4>2. j \in 1 .. n /\ j # n /\ n \in 1 .. n
        BY SMTT(20), <1>0, <2>0
      <4>3. CASE j = p
        BY <1>1, <2>2, <2>9, <4>1, <4>2, <4>3 DEF ToSet
      <4>4. CASE j # p
        BY <1>1, <2>2, <2>9, <4>1, <4>2, <4>4 DEF ToSet
      <4> QED BY <4>3, <4>4
    <3>2. ASSUME NEW x \in ToSet(s) \ {t} PROVE x \in ToSet(r)
      <4>1. PICK j \in 1 .. n : x = s[j] /\ j # p
        BY <1>1, <2>1 DEF ToSet
      <4>2. CASE j = n
        <5>1. p \in 1 .. n - 1
          BY <1>0, <4>1, <4>2
        <5>2. r[p] = s[n]
          BY <2>9, <5>1
        <5> QED BY <2>8, <4>1, <4>2, <5>1, <5>2 DEF ToSet
      <4>3. CASE j # n
        <5>1. j \in 1 .. n - 1
          BY <1>0, <4>3
        <5>2. r[j] = s[j]
          BY <2>9, <4>1, <5>1
        <5> QED BY <2>8, <4>1, <5>1, <5>2 DEF ToSet
      <4> QED BY <4>2, <4>3
    <3> QED BY <3>1, <3>2
  <2> QED BY <2>6, <2>7, <2>10, <2>11 DEF Listing
<1> QED BY <1>2, <1>3

\* One more request at the end.
LEMMA Appended ==
    ASSUME NEW s \in Listing, NEW t \in TipIds, t \notin ToSet(s)
    PROVE  Append(s, t) \in Listing /\ ToSet(Append(s, t)) = ToSet(s) \cup {t}
<1> DEFINE r == Append(s, t)
           n == Len(s)
<1>1. n \in Nat /\ DOMAIN s = 1 .. n /\ r \in Seq(TipIds) /\ DOMAIN r = 1 .. n + 1
      /\ r[n + 1] = t /\ (\A i \in 1 .. n : r[i] = s[i]) /\ IsInjective(s)
  BY DEF Listing
<1> HIDE DEF r, n
<1>2. \A i \in 1 .. n : s[i] # t
  BY <1>1 DEF ToSet
<1>3. \A i \in 1 .. n + 1 : i = n + 1 \/ i \in 1 .. n
  BY <1>1
<1>4. IsInjective(r)
  BY <1>1, <1>2, <1>3 DEF IsInjective
<1>5. ToSet(r) = ToSet(s) \cup {t}
  BY <1>1, <1>3 DEF ToSet
<1> QED BY <1>1, <1>4, <1>5 DEF r, Listing

\* A list without repetition is no longer than the number of tips.
LEMMA ListingIsShort == ASSUME NEW s \in Listing PROVE Len(s) <= MaxTips
<1>1. s \in Injection(1 .. Len(s), TipIds) /\ Len(s) \in Nat /\ MaxTips \in Nat
  BY LenProperties, QueueAssumption DEF Listing, Injection
<1>2. IsFiniteSet(TipIds) /\ Cardinality(TipIds) = MaxTips
  <2>1. /\ IsFiniteSet(1 .. MaxTips)
        /\ Cardinality(1 .. MaxTips) = IF 1 > MaxTips THEN 0 ELSE MaxTips - 1 + 1
    BY <1>1, FS_Interval
  <2> QED BY <1>1, <2>1 DEF TipIds
<1>3. Cardinality(1 .. Len(s)) = Len(s)
  <2>1. Cardinality(1 .. Len(s)) = IF 1 > Len(s) THEN 0 ELSE Len(s) - 1 + 1
    BY <1>1, FS_Interval
  <2> QED BY <1>1, <2>1
<1> QED BY <1>1, <1>2, <1>3, FS_Injection

-----------------------------------------------------------------------------
(* The inductive invariant.  The entry of a request is written no earlier   *)
(* than the entry of its tip, and so outlives it: where a request has gone  *)
(* the tip has gone too, and neither can be asked for or paid again.        *)

Statuses == {"none", "pending", "approved", "auto_approved", "rejected"}
RequestRecords == [status : Statuses, at : Nat, written : 0 .. MaxLedger]
Tip == [to : Creators, written : 0 .. MaxLedger]

\* A list of pending requests, each once ...
ListSound(reqs, list) == list \in Listing /\ \A t \in ToSet(list) : reqs[t].status = "pending"

\* ... and with each tip's request, that it is listed while it can be read and unanswered.
TipSound(reqs, list, count, t) ==
  /\ reqs[t].status = "pending" /\ RequestedLive(reqs, t) => t \in ToSet(list)
  /\ reqs[t].status # "none" => t \in DOMAIN tips /\ tips[t].written <= reqs[t].written
  /\ reqs[t].written <= ledger
  /\ count[t] = IF reqs[t].status \in {"approved", "auto_approved"} THEN 1 ELSE 0

MoneyTypes == paused \in BOOLEAN /\ held \in [Creators -> Int] /\ pool \in Nat

QueueTypes ==
  /\ ledger \in 0 .. MaxLedger
  /\ registered \subseteq Creators
  /\ tips \in Seq(Tip) /\ Len(tips) <= MaxTips
  /\ requests \in [TipIds -> RequestRecords]
  /\ cursor \in 0 .. MaxTips
  /\ paid \in [TipIds -> Nat]
  /\ MoneyTypes

QueueInv ==
  /\ QueueTypes
  /\ \A t \in DOMAIN tips : tips[t].written <= ledger
  /\ ListSound(requests, pending)
  /\ \A t \in TipIds : TipSound(requests, pending, paid, t)

LEMMA LiveHasStatus ==
    ASSUME NEW reqs, NEW t PROVE RequestedLive(reqs, t) => reqs[t].status # "none"
BY DEF RequestedLive

LEMMA InvIsSafe == QueueInv => Safe
<1> SUFFICES ASSUME QueueInv PROVE Safe
  OBVIOUS
<1>1. TypeOK
  BY DEF QueueInv, QueueTypes, MoneyTypes, TypeOK, ListSound, Listing, RequestRecords, Statuses, Tip
<1>2. IndexListsPending
  BY DEF QueueInv, ListSound, Listing, TipSound, IndexListsPending, Pending, Requested
<1>3. PaidAtMostOnce
  BY DEF QueueInv, TipSound, PaidAtMostOnce
<1> QED BY <1>1, <1>2, <1>3 DEF Safe

LEMMA TipsArePlaced ==
    ASSUME QueueTypes
    PROVE  /\ DOMAIN tips = 1 .. Len(tips) /\ Len(tips) \in Nat
           /\ \A t \in DOMAIN tips : t \in TipIds /\ tips[t] \in Tip
<1>1. DOMAIN tips = 1 .. Len(tips) /\ Len(tips) \in Nat /\ Len(tips) <= MaxTips /\ MaxTips \in Nat
  BY LenProperties, QueueAssumption DEF QueueTypes
<1>2. \A t \in 1 .. Len(tips) : tips[t] \in Tip
  BY ElementOfSeq DEF QueueTypes
<1> QED BY <1>1, <1>2 DEF TipIds

-----------------------------------------------------------------------------
(* What a call makes of the books, turn by turn: the books stay sound, and  *)
(* a tip's request is as it was or was pending and is now paid.             *)

Bookings == [requests : [TipIds -> RequestRecords], pending : Listing,
             paid : [TipIds -> Nat], held : [Creators -> Int], pool : Nat,
             failed : BOOLEAN]

TipMoved(b, t) ==
  \/ b.requests[t] = requests[t] /\ b.paid[t] = paid[t]
  \/ Pending(t) /\ b.paid[t] = 1

SoundBooks ==
  {b \in Bookings :
     /\ ListSound(b.requests, b.pending)
     /\ \A t \in TipIds : TipSound(b.requests, b.pending, b.paid, t) /\ TipMoved(b, t)}

LEMMA BooksAreSound == ASSUME QueueInv PROVE Books \in SoundBooks
<1>1. Books \in Bookings
  BY DEF QueueInv, QueueTypes, MoneyTypes, ListSound, Books, Bookings
<1>2. ListSound(Books.requests, Books.pending)
  BY DEF QueueInv, Books
<1>3. ASSUME NEW t \in TipIds PROVE TipSound(Books.requests, Books.pending, Books.paid, t) /\ TipMoved(Books, t)
  BY DEF QueueInv, Books, TipMoved
<1> QED BY <1>1, <1>2, <1>3 DEF SoundBooks

LEMMA SettleStays ==
    ASSUME QueueTypes, NEW b \in SoundBooks, NEW t \in TipIds,
           RequestedLive(b.requests, t), b.requests[t].status = "pending",
           NEW status \in {"approved", "auto_approved"}
    PROVE  Settle(b, t, status) \in SoundBooks
<1>1. /\ b \in Bookings /\ ListSound(b.requests, b.pending) /\ ledger \in 0 .. MaxLedger
      /\ \A u \in TipIds : TipSound(b.requests, b.pending, b.paid, u) /\ TipMoved(b, u)
  BY DEF SoundBooks, QueueTypes
<1>2. CASE tips[t].to \notin registered \/ b.pool < 1
  <2> DEFINE n == [b EXCEPT !.failed = TRUE]
  <2>1. n \in Bookings /\ n.requests = b.requests /\ n.pending = b.pending /\ n.paid = b.paid
    BY <1>1 DEF Bookings
  <2>2. Settle(b, t, status) = n
    BY <1>2 DEF Settle
  <2> HIDE DEF n
  <2>3. n \in SoundBooks
    BY <1>1, <2>1 DEF SoundBooks, TipMoved
  <2> QED BY <2>2, <2>3
<1>3. CASE ~ (tips[t].to \notin registered \/ b.pool < 1)
  <2> DEFINE q == [b.requests[t] EXCEPT !.status = status, !.written = ledger]
             c == b.paid[t] + 1
             l == SwapRemove(b.pending, t)
  <2>1. /\ b.requests \in [TipIds -> RequestRecords] /\ b.pending \in Listing /\ b.paid \in [TipIds -> Nat]
        /\ b.requests[t] \in RequestRecords
    BY <1>1 DEF Bookings
  <2>2. q \in RequestRecords /\ c \in Nat /\ b.paid[t] = 0 /\ c = 1
    <3>1. q \in RequestRecords
      <4>1. status \in Statuses
        BY DEF Statuses
      <4> QED BY <1>1, <2>1, <4>1 DEF RequestRecords
    <3>2. b.paid[t] = 0
      BY <1>1 DEF TipSound
    <3> QED BY <3>1, <3>2
  <2>12. q.status = status /\ q.written = ledger
    BY <2>1 DEF RequestRecords
  <2>3. l \in Listing /\ ToSet(l) = ToSet(b.pending) \ {t}
    BY <2>1, SwapRemoved
  <2>4. PICK reqs \in [TipIds -> RequestRecords] : reqs = [b.requests EXCEPT ![t] = q]
    BY <2>1, <2>2
  <2>5. PICK count \in [TipIds -> Nat] : count = [b.paid EXCEPT ![t] = c]
    BY <2>1, <2>2
  <2>13. PICK left \in [Creators -> Int] : left = [b.held EXCEPT ![tips[t].to] = @ - 1]
    <3>1. b.held \in [Creators -> Int] /\ tips[t].to \in Creators
      BY <1>1, <1>3 DEF Bookings, QueueTypes
    <3>2. b.held[tips[t].to] - 1 \in Int
      BY <3>1
    <3> QED BY <3>1, <3>2
  <2>14. PICK rest \in Nat : rest = b.pool - 1
    BY <1>1, <1>3 DEF Bookings
  <2>6. Settle(b, t, status) = [b EXCEPT !.requests = reqs, !.paid = count, !.held = left,
                                         !.pool = rest, !.pending = l]
    <3>1. [b EXCEPT !.requests[t].status = status, !.requests[t].written = ledger,
                    !.paid[t] = @ + 1, !.held[tips[t].to] = @ - 1, !.pool = @ - 1,
                    !.pending = SwapRemove(@, t)]
            = [b EXCEPT !.requests = [b.requests EXCEPT
                                        ![t] = [b.requests[t] EXCEPT !.status = status, !.written = ledger]],
                        !.paid = [b.paid EXCEPT ![t] = b.paid[t] + 1],
                        !.held = [b.held EXCEPT ![tips[t].to] = @ - 1], !.pool = b.pool - 1,
                        !.pending = SwapRemove(b.pending, t)]
      <4>1. [b EXCEPT !.requests[t].status = status, !.requests[t].written = ledger]
              = [b EXCEPT !.requests = [b.requests EXCEPT
                                        ![t] = [b.requests[t] EXCEPT !.status = status, !.written = ledger]]]
        BY <1>1, <2>1 DEF Bookings, RequestRecords
      <4> QED BY <4>1, <1>1 DEF Bookings
    <3> QED BY <1>3, <2>4, <2>5, <2>13, <2>14, <3>1 DEF Settle
  <2> DEFINE n == [b EXCEPT !.requests = reqs, !.paid = count, !.held = left, !.pool = rest,
                            !.pending = l]
  <2>7. n \in Bookings /\ n.requests = reqs /\ n.paid = count /\ n.pending = l
    BY <1>1, <2>3 DEF Bookings
  <2>8. \A u \in TipIds : /\ reqs[u] = IF u = t THEN q ELSE b.requests[u]
                          /\ count[u] = IF u = t THEN c ELSE b.paid[u]
    BY <2>1, <2>4, <2>5
  <2> HIDE DEF n, l, q
  <2>9. ListSound(reqs, l)
    <3>1. ASSUME NEW u \in ToSet(l) PROVE reqs[u].status = "pending"
      <4>1. u # t /\ u \in ToSet(b.pending) /\ u \in TipIds
        <5>1. u \in TipIds
          BY <2>3, ElementOfSeq, LenProperties DEF ToSet, Listing
        <5> QED BY <2>3, <5>1
      <4> QED BY <1>1, <2>8, <4>1 DEF ListSound
    <3> QED BY <2>3, <3>1 DEF ListSound
  <2>10. ASSUME NEW u \in TipIds PROVE TipSound(reqs, l, count, u) /\ TipMoved(n, u)
    <3>1. TipSound(b.requests, b.pending, b.paid, u) /\ TipMoved(b, u)
      BY <1>1
    <3>2. CASE u = t
      <4>1. reqs[u] = q /\ count[u] = 1 /\ q.status = status /\ q.written = ledger
        BY <2>2, <2>8, <2>12, <3>2
      <4>2. t \in DOMAIN tips /\ tips[t].written <= b.requests[t].written /\ b.requests[t].written <= ledger
        BY <3>1, <3>2 DEF TipSound
      <4>3. tips[t].written <= ledger
        <5>1. tips[t].written \in Nat /\ b.requests[t].written \in Nat /\ ledger \in Nat
          BY <1>1, <2>1, <4>2, TipsArePlaced DEF Tip, RequestRecords
        <5> QED BY <4>2, <5>1
      <4>4. TipSound(reqs, l, count, u)
        BY <1>1, <3>2, <4>1, <4>2, <4>3 DEF TipSound
      <4>5. Pending(t)
        <5>1. b.requests[t] = requests[t]
          BY <2>2, <3>1, <3>2 DEF TipMoved
        <5> QED BY <5>1 DEF Pending, Requested, RequestedLive
      <4> QED BY <2>7, <3>2, <4>1, <4>4, <4>5 DEF TipMoved
    <3>3. CASE u # t
      <4>1. reqs[u] = b.requests[u] /\ count[u] = b.paid[u] /\ (u \in ToSet(l) <=> u \in ToSet(b.pending))
        BY <2>3, <2>8, <3>3
      <4> QED BY <2>7, <3>1, <4>1 DEF TipSound, TipMoved, RequestedLive
    <3> QED BY <3>2, <3>3
  <2>11. n \in SoundBooks
    BY <2>7, <2>9, <2>10 DEF SoundBooks
  <2> QED BY <2>6, <2>11 DEF n
<1> QED BY <1>2, <1>3

-----------------------------------------------------------------------------
(* The two kinds of sweep, as folds of turns.                               *)

LEMMA ProcessStays ==
    ASSUME QueueTypes, NEW b \in SoundBooks, NEW t \in TipIds
    PROVE  ProcessListed(b, t) \in SoundBooks
<1>1. CASE ~ b.failed /\ Due(b, t)
  <2>1. RequestedLive(b.requests, t) /\ b.requests[t].status = "pending"
    BY <1>1 DEF Due
  <2>2. Settle(b, t, "auto_approved") \in SoundBooks
    BY <2>1, SettleStays
  <2> QED BY <1>1, <2>2 DEF ProcessListed
<1>2. CASE ~ (~ b.failed /\ Due(b, t))
  BY <1>2 DEF ProcessListed
<1> QED BY <1>1, <1>2

\* A listed request whose entry has disappeared goes from the index, and nothing else.
LEMMA DropStays ==
    ASSUME QueueTypes, NEW b \in SoundBooks, NEW t \in TipIds, ~ RequestedLive(b.requests, t)
    PROVE  [b EXCEPT !.pending = SwapRemove(@, t)] \in SoundBooks
<1> DEFINE l == SwapRemove(b.pending, t)
           n == [b EXCEPT !.pending = l]
<1>1. /\ b \in Bookings /\ ListSound(b.requests, b.pending) /\ b.pending \in Listing
      /\ \A u \in TipIds : TipSound(b.requests, b.pending, b.paid, u) /\ TipMoved(b, u)
  BY DEF SoundBooks, Bookings
<1>2. l \in Listing /\ ToSet(l) = ToSet(b.pending) \ {t}
  BY <1>1, SwapRemoved
<1> HIDE DEF l
<1>3. n \in Bookings /\ n.requests = b.requests /\ n.pending = l /\ n.paid = b.paid
  BY <1>1, <1>2 DEF Bookings
<1> HIDE DEF n
<1>4. ListSound(n.requests, n.pending)
  BY <1>1, <1>2, <1>3 DEF ListSound
<1>5. ASSUME NEW u \in TipIds PROVE TipSound(n.requests, n.pending, n.paid, u) /\ TipMoved(n, u)
  BY <1>1, <1>2, <1>3 DEF TipSound, TipMoved
<1> QED BY <1>3, <1>4, <1>5 DEF n, l, SoundBooks

Walks == [books : SoundBooks, index : Nat, processed : Nat]

LEMMA SweepStays ==
    ASSUME QueueTypes, NEW w \in Walks, NEW count, NEW limit
    PROVE  SweepEntry(w, count, limit) \in Walks
<1>1. w.books \in SoundBooks /\ w.index \in Nat /\ w.processed \in Nat
      /\ w.books \in Bookings /\ w.books.pending \in Seq(TipIds)
  BY DEF Walks, SoundBooks, Bookings, Listing
<1>2. CASE w.books.failed \/ w.index >= count \/ w.processed >= limit
  BY <1>2 DEF SweepEntry
<1>3. CASE ~ (w.books.failed \/ w.index >= count \/ w.processed >= limit)
  <2>1. [w EXCEPT !.index = @ + 1] \in Walks
    BY <1>1 DEF Walks
  <2>2. CASE w.index >= Len(w.books.pending)
    BY <1>3, <2>1, <2>2 DEF SweepEntry
  <2>3. CASE ~ (w.index >= Len(w.books.pending))
    <3> DEFINE t == w.books.pending[w.index + 1]
    <3>1. t \in TipIds
      <4>1. w.index + 1 \in 1 .. Len(w.books.pending)
        BY <1>1, <2>3, LenProperties
      <4> QED BY <1>1, <4>1, ElementOfSeq
    <3>2. SweepEntry(w, count, limit)
            = IF ~ RequestedLive(w.books.requests, t) THEN [w EXCEPT !.books.pending = SwapRemove(@, t)]
              ELSE IF Due(w.books, t)
                THEN [w EXCEPT !.books = Settle(@, t, "auto_approved"), !.processed = @ + 1]
              ELSE [w EXCEPT !.index = @ + 1]
      BY <1>3, <2>3 DEF SweepEntry
    <3> HIDE DEF t
    <3>3. CASE ~ RequestedLive(w.books.requests, t)
      <4>1. PICK n \in SoundBooks : n = [w.books EXCEPT !.pending = SwapRemove(@, t)]
        BY <1>1, <3>1, <3>3, DropStays
      <4>2. [w EXCEPT !.books.pending = SwapRemove(@, t)] = [w EXCEPT !.books = n]
        BY <1>1, <4>1 DEF Walks
      <4>3. [w EXCEPT !.books = n] \in Walks
        BY DEF Walks
      <4> QED BY <3>2, <3>3, <4>2, <4>3
    <3>4. CASE RequestedLive(w.books.requests, t) /\ Due(w.books, t)
      <4>1. w.books.requests[t].status = "pending"
        BY <3>4 DEF Due
      <4>2. PICK n \in SoundBooks : n = Settle(w.books, t, "auto_approved")
        BY <1>1, <3>1, <3>4, <4>1, SettleStays
      <4>3. [w EXCEPT !.books = n, !.processed = @ + 1] \in Walks
        <5>1. PICK x \in Nat : x = w.processed + 1
          BY <1>1
        <5>2. [w EXCEPT !.books = n, !.processed = x] \in Walks
          BY DEF Walks
        <5> QED BY <5>1, <5>2
      <4>4. SweepEntry(w, count, limit) = [w EXCEPT !.books = n, !.processed = @ + 1]
        BY <3>2, <3>4, <4>2
      <4> QED BY <4>3, <4>4
    <3>5. CASE RequestedLive(w.books.requests, t) /\ ~ Due(w.books, t)
      BY <2>1, <3>2, <3>5
    <3> QED BY <3>3, <3>4, <3>5
  <2> QED BY <2>2, <2>3
<1> QED BY <1>2, <1>3

-----------------------------------------------------------------------------
Largest(n) == [s \in SUBSET (1 .. n) |-> Max(s)]

LEMMA LargestPlace ==
    ASSUME NEW n \in Nat
    PROVE  /\ IsFiniteSet(1 .. n)
           /\ \A s \in SUBSET (1 .. n) :
                s # {} => Largest(n)[s] \in s /\ Largest(n)[s] = Max(s) /\ Max(s) \in 1 .. n
<1>1. IsFiniteSet(1 .. n)
  BY FS_Interval
<1>2. ASSUME NEW s \in SUBSET (1 .. n), s # {} PROVE Max(s) \in s
  <2>1. s \in SUBSET (0 .. n)
    OBVIOUS
  <2>2. \E x \in s : \A y \in s : x >= y
    BY <1>2, <2>1, LargestExists
  <2> QED BY <2>2 DEF Max
<1> QED BY <1>1, <1>2 DEF Largest

\* process_pending_refunds over a list of tips.
IdsFold(ids, f) ==
  f = [s \in SUBSET DOMAIN ids |->
         IF s = {} THEN Books ELSE ProcessListed(f[s \ {Max(s)}], ids[Max(s)])]

LEMMA IdsAreFolded ==
    ASSUME NEW ids
    PROVE  FoldLeft(ProcessListed, Books, ids) = (CHOOSE f : IdsFold(ids, f))[DOMAIN ids]
BY Zenon DEF FoldLeft, MapThenFoldSet, IdsFold

\* process_pending_refunds_from, turn by turn.
WalkFold(start, turns, count, limit, f) ==
  f = [s \in SUBSET DOMAIN turns |->
         IF s = {} THEN start
         ELSE CHOOSE next \in {SweepEntry(w, count, limit) : w \in {f[s \ {Max(s)}]}} : TRUE]

LEMMA WalkIsFolded ==
    ASSUME NEW from, NEW limit
    PROVE  Walk(from, limit)
             = (CHOOSE f : WalkFold([books |-> Books, index |-> from, processed |-> 0],
                                    [turn \in 1 .. 2 * Len(pending) |-> turn],
                                    Len(pending), limit, f))
                 [DOMAIN [turn \in 1 .. 2 * Len(pending) |-> turn]]
BY Zenon DEF Walk, FoldLeft, MapThenFoldSet, WalkFold

LEMMA IdsStay ==
    ASSUME QueueInv, NEW ids \in Seq(TipIds)
    PROVE  FoldLeft(ProcessListed, Books, ids) \in SoundBooks
<1> DEFINE n == Len(ids)
           D == 1 .. n
           step == [x \in SoundBooks \X D |-> ProcessListed(x[1], ids[x[2]])]
<1>1. n \in Nat /\ DOMAIN ids = D /\ (\A i \in D : ids[i] \in TipIds) /\ QueueTypes
  BY LenProperties, ElementOfSeq DEF QueueInv
<1>2. /\ IsFiniteSet(D)
      /\ \A s \in SUBSET D : s # {} => Largest(n)[s] \in s /\ Largest(n)[s] = Max(s) /\ Max(s) \in D
  BY <1>1, LargestPlace
<1> HIDE DEF n, D
<1>3. Books \in SoundBooks
  BY BooksAreSound
<1>4. ASSUME NEW b \in SoundBooks, NEW i \in D PROVE step[<<b, i>>] \in SoundBooks
  <2>1. ids[i] \in TipIds
    BY <1>1
  <2>2. ProcessListed(b, ids[i]) \in SoundBooks
    BY <1>1, <2>1, ProcessStays
  <2> QED BY <2>2
<1>5. \A b \in SoundBooks, i \in D : step[<<b, i>>] = ProcessListed(b, ids[i])
  OBVIOUS
<1> HIDE DEF step
<1>6. PICK g : /\ g = [s \in SUBSET D |-> g[s]]
               /\ \A s \in SUBSET D : g[s] \in SoundBooks
               /\ Folding(D, Largest(n), g, Books, step)
  BY <1>2, <1>3, <1>4, FoldIs
<1>7. \A s \in SUBSET D :
        g[s] = IF s = {} THEN Books ELSE ProcessListed(g[s \ {Max(s)}], ids[Max(s)])
  <2>1. ASSUME NEW s \in SUBSET D, s # {} PROVE g[s] = ProcessListed(g[s \ {Max(s)}], ids[Max(s)])
    <3>1. Max(s) \in D /\ g[s \ {Max(s)}] \in SoundBooks
      BY <1>2, <1>6, <2>1
    <3>2. g[s] = step[<<g[s \ {Max(s)}], Max(s)>>]
      BY <1>2, <1>6, <2>1 DEF Folding, Without
    <3> QED BY <1>5, <3>1, <3>2
  <2>2. g[{}] = Books
    BY <1>6 DEF Folding
  <2> QED BY <2>1, <2>2
<1>8. IdsFold(ids, g)
  <2> DEFINE e(s) == IF s = {} THEN Books ELSE ProcessListed(g[s \ {Max(s)}], ids[Max(s)])
  <2>1. \A s \in SUBSET D : g[s] = e(s)
    BY <1>7
  <2>2. g = [s \in SUBSET D |-> e(s)]
    <3> HIDE DEF e
    <3> QED BY <1>6, <2>1
  <2> QED BY <1>1, <2>2, Zenon DEF IdsFold
<1> DEFINE f == CHOOSE h : IdsFold(ids, h)
<1>9. IdsFold(ids, f)
  BY <1>8
<1>10. FoldLeft(ProcessListed, Books, ids) = f[D]
  BY <1>1, IdsAreFolded
<1> HIDE DEF f
<1>11. \A s \in SUBSET D :
         f[s] = IF s = {} THEN Books ELSE ProcessListed(f[s \ {Max(s)}], ids[Max(s)])
  BY <1>1, <1>9 DEF IdsFold
<1> DEFINE T == [s \in SUBSET D |-> SoundBooks]
<1>12. f[{}] \in T[{}]
  <2>1. {} \in SUBSET D /\ f[{}] = Books
    BY <1>11
  <2>2. T[{}] = SoundBooks
    OBVIOUS
  <2> QED BY <1>3, <2>1, <2>2
<1>13. ASSUME NEW s \in SUBSET D, s # {}, f[Without(s, Largest(n)[s])] \in T[Without(s, Largest(n)[s])]
       PROVE  f[s] \in T[s]
  <2>1. /\ Max(s) \in D /\ s \ {Max(s)} \in SUBSET D
        /\ Without(s, Largest(n)[s]) = s \ {Max(s)}
    BY <1>2, <1>13 DEF Without
  <2>2. f[s \ {Max(s)}] \in SoundBooks
    BY <1>13, <2>1
  <2>3. f[s] = ProcessListed(f[s \ {Max(s)}], ids[Max(s)])
    BY <1>11, <1>13
  <2>4. ids[Max(s)] \in TipIds
    BY <1>1, <2>1
  <2>5. f[s] \in SoundBooks
    BY <1>1, <2>2, <2>3, <2>4, ProcessStays
  <2> QED BY <2>5
<1>14. D \in SUBSET D /\ f[D] \in T[D]
  <2> HIDE DEF T
  <2> QED BY <1>2, <1>12, <1>13, FoldStays
<1> QED BY <1>10, <1>14

LEMMA WalkStays ==
    ASSUME QueueInv, NEW from \in Nat, NEW limit
    PROVE  Walk(from, limit) \in Walks
<1> DEFINE n == 2 * Len(pending)
           D == 1 .. n
           count == Len(pending)
           start == [books |-> Books, index |-> from, processed |-> 0]
           turns == [turn \in D |-> turn]
           Turned(w) == CHOOSE next \in {SweepEntry(x, count, limit) : x \in {w}} : TRUE
           step == [x \in Walks \X D |-> Turned(x[1])]
<1>1. n \in Nat /\ DOMAIN turns = D /\ QueueTypes
  BY LenProperties DEF QueueInv, ListSound, Listing
<1>2. /\ IsFiniteSet(D)
      /\ \A s \in SUBSET D : s # {} => Largest(n)[s] \in s /\ Largest(n)[s] = Max(s) /\ Max(s) \in D
  BY <1>1, LargestPlace
<1>3. start \in Walks
  BY BooksAreSound DEF Walks
<1>4. Walk(from, limit) = (CHOOSE f : WalkFold(start, turns, count, limit, f))[DOMAIN turns]
  BY WalkIsFolded
<1>5. \A w : Turned(w) = SweepEntry(w, count, limit)
  <2>1. ASSUME NEW w PROVE Turned(w) = SweepEntry(w, count, limit)
    <3>1. {SweepEntry(x, count, limit) : x \in {w}} = {SweepEntry(w, count, limit)}
      OBVIOUS
    <3> QED BY <3>1
  <2> QED BY <2>1
<1>6. \A w \in Walks : Turned(w) \in Walks
  BY <1>1, <1>5, SweepStays
<1>7. \A f : WalkFold(start, turns, count, limit, f) <=>
               f = [s \in SUBSET DOMAIN turns |-> IF s = {} THEN start ELSE Turned(f[s \ {Max(s)}])]
  BY Zenon DEF WalkFold
<1>8. \A w \in Walks, i \in D : step[<<w, i>>] = Turned(w)
  OBVIOUS
<1> HIDE DEF n, D, count, start, turns, Turned, step
<1>9. \A w \in Walks, i \in D : step[<<w, i>>] \in Walks
  BY <1>6, <1>8
<1>10. PICK g : /\ g = [s \in SUBSET D |-> g[s]]
                /\ \A s \in SUBSET D : g[s] \in Walks
                /\ Folding(D, Largest(n), g, start, step)
  BY <1>2, <1>3, <1>9, FoldIs
<1>11. \A s \in SUBSET D : g[s] = IF s = {} THEN start ELSE Turned(g[s \ {Max(s)}])
  <2>1. ASSUME NEW s \in SUBSET D, s # {} PROVE g[s] = Turned(g[s \ {Max(s)}])
    <3>1. Max(s) \in D /\ g[s \ {Max(s)}] \in Walks
      BY <1>2, <1>10, <2>1
    <3>2. g[s] = step[<<g[s \ {Max(s)}], Max(s)>>]
      BY <1>2, <1>10, <2>1 DEF Folding, Without
    <3> QED BY <1>8, <3>1, <3>2
  <2>2. g[{}] = start
    BY <1>10 DEF Folding
  <2> QED BY <2>1, <2>2
<1>12. WalkFold(start, turns, count, limit, g)
  BY <1>1, <1>7, <1>10, <1>11
<1> DEFINE f == CHOOSE h : WalkFold(start, turns, count, limit, h)
<1>13. WalkFold(start, turns, count, limit, f)
  BY <1>12
<1> HIDE DEF f
<1>14. \A s \in SUBSET D : f[s] = IF s = {} THEN start ELSE Turned(f[s \ {Max(s)}])
  BY <1>1, <1>7, <1>13
<1> DEFINE T == [s \in SUBSET D |-> Walks]
<1>15. f[{}] \in T[{}]
  <2>1. {} \in SUBSET D /\ f[{}] = start
    BY <1>14
  <2>2. T[{}] = Walks
    OBVIOUS
  <2> QED BY <1>3, <2>1, <2>2
<1>16. ASSUME NEW s \in SUBSET D, s # {}, f[Without(s, Largest(n)[s])] \in T[Without(s, Largest(n)[s])]
       PROVE  f[s] \in T[s]
  <2>1. s \ {Max(s)} \in SUBSET D /\ Without(s, Largest(n)[s]) = s \ {Max(s)}
    BY <1>2, <1>16 DEF Without
  <2>2. f[s \ {Max(s)}] \in Walks
    BY <1>16, <2>1
  <2>3. f[s] = Turned(f[s \ {Max(s)}])
    BY <1>14, <1>16
  <2>4. f[s] \in Walks
    BY <1>6, <2>2, <2>3
  <2> QED BY <2>4
<1>17. D \in SUBSET D /\ f[D] \in T[D]
  <2> HIDE DEF T
  <2> QED BY <1>2, <1>15, <1>16, FoldStays
<1>18. Walk(from, limit) = f[D]
  BY <1>1, <1>4 DEF f
<1> QED BY <1>17, <1>18

-----------------------------------------------------------------------------
(* The stage of a tip's refund, case by case.                               *)

LEMMA StageIs ==
    ASSUME NEW t
    PROVE  /\ paid[t] = 1 => Stage(t) = "paid"
           /\ paid[t] = 0 /\ t \notin DOMAIN tips /\ ~ Requested(t) => Stage(t) = "unsent"
           /\ paid[t] = 0 /\ t \in DOMAIN tips /\ Pending(t) => Stage(t) = "pending"
           /\ paid[t] = 0 /\ t \in DOMAIN tips /\ Requested(t) /\ ~ Pending(t) => Stage(t) = "rejected"
           /\ paid[t] = 0 /\ t \in DOMAIN tips /\ ~ Requested(t) /\ Stored(t) => Stage(t) = "open"
           /\ paid[t] = 0 /\ t \in DOMAIN tips /\ ~ Requested(t) /\ ~ Stored(t) => Stage(t) = "closed"
<1>1. ASSUME paid[t] = 1 PROVE Stage(t) = "paid"
  BY <1>1 DEF Stage, Pending
<1>2. ASSUME paid[t] = 0, t \notin DOMAIN tips, ~ Requested(t) PROVE Stage(t) = "unsent"
  BY <1>2 DEF Stage, Pending
<1>3. ASSUME paid[t] = 0, t \in DOMAIN tips, Pending(t) PROVE Stage(t) = "pending"
  BY <1>3 DEF Stage, Pending
<1>4. ASSUME paid[t] = 0, t \in DOMAIN tips, Requested(t), ~ Pending(t) PROVE Stage(t) = "rejected"
  BY <1>4 DEF Stage, Pending
<1>5. ASSUME paid[t] = 0, t \in DOMAIN tips, ~ Requested(t), Stored(t) PROVE Stage(t) = "open"
  BY <1>5 DEF Stage, Pending
<1>6. ASSUME paid[t] = 0, t \in DOMAIN tips, ~ Requested(t), ~ Stored(t) PROVE Stage(t) = "closed"
  BY <1>6 DEF Stage, Pending
<1> QED BY <1>1, <1>2, <1>3, <1>4, <1>5, <1>6

LEMMA StageIsNext ==
    ASSUME NEW t
    PROVE  /\ paid'[t] = 1 => Stage(t)' = "paid"
           /\ paid'[t] = 0 /\ t \notin DOMAIN tips' /\ ~ Requested(t)' => Stage(t)' = "unsent"
           /\ paid'[t] = 0 /\ t \in DOMAIN tips' /\ Pending(t)' => Stage(t)' = "pending"
           /\ paid'[t] = 0 /\ t \in DOMAIN tips' /\ Requested(t)' /\ ~ Pending(t)' => Stage(t)' = "rejected"
           /\ paid'[t] = 0 /\ t \in DOMAIN tips' /\ ~ Requested(t)' /\ Stored(t)' => Stage(t)' = "open"
           /\ paid'[t] = 0 /\ t \in DOMAIN tips' /\ ~ Requested(t)' /\ ~ Stored(t)' => Stage(t)' = "closed"
<1>1. ASSUME paid'[t] = 1 PROVE Stage(t)' = "paid"
  BY <1>1 DEF Stage, Pending
<1>2. ASSUME paid'[t] = 0, t \notin DOMAIN tips', ~ Requested(t)' PROVE Stage(t)' = "unsent"
  BY <1>2 DEF Stage, Pending
<1>3. ASSUME paid'[t] = 0, t \in DOMAIN tips', Pending(t)' PROVE Stage(t)' = "pending"
  BY <1>3 DEF Stage, Pending
<1>4. ASSUME paid'[t] = 0, t \in DOMAIN tips', Requested(t)', ~ Pending(t)' PROVE Stage(t)' = "rejected"
  BY <1>4 DEF Stage, Pending
<1>5. ASSUME paid'[t] = 0, t \in DOMAIN tips', ~ Requested(t)', Stored(t)' PROVE Stage(t)' = "open"
  BY <1>5 DEF Stage, Pending
<1>6. ASSUME paid'[t] = 0, t \in DOMAIN tips', ~ Requested(t)', ~ Stored(t)' PROVE Stage(t)' = "closed"
  BY <1>6 DEF Stage, Pending
<1> QED BY <1>1, <1>2, <1>3, <1>4, <1>5, <1>6

\* The facts the stage rests on stay as they are, and so does the stage.
LEMMA SameStage ==
    ASSUME NEW t, paid'[t] = paid[t], t \in DOMAIN tips' <=> t \in DOMAIN tips,
           Pending(t)' <=> Pending(t), Requested(t)' <=> Requested(t), Stored(t)' <=> Stored(t)
    PROVE  Stage(t)' = Stage(t)
BY DEF Stage

Moved(t) == Stage(t)' = Stage(t) \/ <<Stage(t), Stage(t)'>> \in Lifecycle!Moves
Kept == QueueInv' /\ \A t \in TipIds : Moved(t)

LEMMA StageCases ==
    ASSUME QueueInv, NEW t \in TipIds
    PROVE  paid[t] = 1 \/ paid[t] = 0
BY DEF QueueInv, TipSound

\* While a tip can be read, so can what became of its request.
LEMMA RequestOutlivesTip ==
    ASSUME QueueInv, NEW t \in TipIds
    PROVE  requests[t].status # "none" /\ Stored(t) => Requested(t)
<1> SUFFICES ASSUME requests[t].status # "none", Stored(t) PROVE Requested(t)
  OBVIOUS
<1>1. t \in DOMAIN tips /\ tips[t].written <= requests[t].written
      /\ ledger <= tips[t].written + EntryTtl
  BY DEF QueueInv, TipSound, Stored, EntryLive
<1>2. tips[t].written \in Nat /\ requests[t].written \in Nat /\ ledger \in Nat /\ EntryTtl \in Nat
  BY <1>1, TipsArePlaced, QueueAssumption DEF QueueInv, QueueTypes, Tip, RequestRecords
<1> QED BY <1>1, <1>2 DEF Requested, RequestedLive, EntryLive

\* What is committed from sound books keeps the invariant and pays pending requests only.
LEMMA CommitKeeps ==
    ASSUME QueueInv, NEW b \in SoundBooks, Commit(b), cursor' \in 0 .. MaxTips
    PROVE  Kept
<1>1. /\ requests' = b.requests /\ pending' = b.pending /\ paid' = b.paid
      /\ ledger' = ledger /\ registered' = registered /\ tips' = tips
      /\ held' = b.held /\ pool' = b.pool /\ paused' = paused
  BY DEF Commit
<1>2. /\ b \in Bookings /\ ListSound(b.requests, b.pending)
      /\ \A t \in TipIds : TipSound(b.requests, b.pending, b.paid, t) /\ TipMoved(b, t)
  BY DEF SoundBooks
<1>3. QueueTypes'
  BY <1>1, <1>2 DEF QueueInv, QueueTypes, MoneyTypes, Bookings
<1>4. QueueInv'
  BY <1>1, <1>2, <1>3 DEF QueueInv, ListSound, TipSound, RequestedLive, EntryLive
<1>5. ASSUME NEW t \in TipIds PROVE Moved(t)
  <2>1. CASE requests'[t] = requests[t] /\ paid'[t] = paid[t]
    <3>1. /\ Requested(t)' <=> Requested(t)
          /\ Pending(t)' <=> Pending(t)
          /\ Stored(t)' <=> Stored(t)
      BY <1>1, <2>1 DEF Requested, RequestedLive, Pending, Stored, EntryLive
    <3> QED BY <1>1, <2>1, <3>1, SameStage DEF Moved
  <2>2. CASE Pending(t) /\ paid'[t] = 1
    <3>1. Stage(t)' = "paid"
      BY <2>2, StageIsNext
    <3>2. Stage(t) = "pending" \/ Stage(t) = "paid"
      <4>1. t \in DOMAIN tips
        BY <2>2 DEF QueueInv, TipSound, Pending
      <4> QED BY <2>2, <4>1, StageCases, StageIs
    <3> QED BY <3>1, <3>2 DEF Moved, Lifecycle!Moves
  <2> QED BY <1>1, <1>2, <2>1, <2>2 DEF TipMoved
<1> QED BY <1>4, <1>5 DEF Kept

LEMMA CloseKeeps == ASSUME QueueInv, CloseLedger PROVE Kept
<1>1. /\ ledger' = ledger + 1 /\ ledger \in Nat /\ ledger' \in 0 .. MaxLedger
      /\ UNCHANGED <<registered, tips, requests, pending, cursor, paid>> /\ MoneyTypes'
  BY QueueAssumption DEF CloseLedger, QueueInv, QueueTypes, MoneyTypes, moneyVars
<1>2. /\ \A t \in TipIds : requests[t].written \in Nat
      /\ \A t \in DOMAIN tips : tips[t].written \in Nat
      /\ EntryTtl \in Nat
  BY TipsArePlaced, QueueAssumption DEF QueueInv, QueueTypes, Tip, RequestRecords
<1>3. \A t \in TipIds : Requested(t)' => Requested(t)
  BY <1>1, <1>2 DEF Requested, RequestedLive, EntryLive
<1>4. \A t \in TipIds : Stored(t)' => Stored(t)
  BY <1>1, <1>2 DEF Stored, EntryLive
<1>5. QueueInv'
  <2>1. QueueTypes'
    BY <1>1 DEF QueueInv, QueueTypes
  <2>2. \A t \in DOMAIN tips' : tips'[t].written <= ledger'
    BY <1>1, <1>2 DEF QueueInv
  <2>3. ListSound(requests, pending)'
    BY <1>1 DEF QueueInv, ListSound
  <2>4. ASSUME NEW t \in TipIds PROVE TipSound(requests, pending, paid, t)'
    <3>1. TipSound(requests, pending, paid, t)
      BY DEF QueueInv
    <3>2. requests[t].written <= ledger'
      BY <1>1, <1>2, <3>1 DEF TipSound
    <3>3. requests[t].status = "pending" /\ RequestedLive(requests, t)' => t \in ToSet(pending)
      BY <1>1, <1>3, <3>1 DEF TipSound, Requested
    <3> QED BY <1>1, <3>1, <3>2, <3>3 DEF TipSound
  <2> QED BY <2>1, <2>2, <2>3, <2>4 DEF QueueInv
<1>6. ASSUME NEW t \in TipIds PROVE Moved(t)
  <2>1. /\ paid'[t] = paid[t] /\ (t \in DOMAIN tips' <=> t \in DOMAIN tips)
        /\ Pending(t)' <=> (Requested(t)' /\ Pending(t))
    BY <1>1, <1>3 DEF Pending
  <2>2. CASE Requested(t)' \/ ~ Requested(t)
    <3>1. Requested(t)' <=> Requested(t)
      BY <1>3, <2>2
    <3>2. Pending(t)' <=> Pending(t)
      BY <2>1, <3>1 DEF Pending
    <3>3. CASE Stored(t)' <=> Stored(t)
      BY <2>1, <3>1, <3>2, <3>3, SameStage DEF Moved
    <3>4. CASE ~ (Stored(t)' <=> Stored(t))
      <4>1. Stored(t) /\ ~ Stored(t)'
        BY <1>4, <3>4
      <4>2. CASE paid[t] = 1
        BY <2>1, <4>2, StageIs, StageIsNext DEF Moved
      <4>3. CASE paid[t] = 0 /\ Requested(t)
        <5>1. t \in DOMAIN tips
          BY <4>1 DEF Stored
        <5>2. Stage(t)' = Stage(t)
          <6>1. CASE Pending(t)
            BY <2>1, <3>1, <3>2, <4>3, <5>1, <6>1, StageIs, StageIsNext
          <6>2. CASE ~ Pending(t)
            BY <2>1, <3>1, <3>2, <4>3, <5>1, <6>2, StageIs, StageIsNext
          <6> QED BY <6>1, <6>2
        <5> QED BY <5>2 DEF Moved
      <4>4. CASE paid[t] = 0 /\ ~ Requested(t)
        <5>1. t \in DOMAIN tips
          BY <4>1 DEF Stored
        <5>2. Stage(t) = "open" /\ Stage(t)' = "closed"
          BY <2>1, <3>1, <4>1, <4>4, <5>1, StageIs, StageIsNext
        <5> QED BY <5>2 DEF Moved, Lifecycle!Moves
      <4> QED BY <4>2, <4>3, <4>4, StageCases
    <3> QED BY <3>3, <3>4
  <2>3. CASE ~ Requested(t)' /\ Requested(t)
    <3>1. requests[t].status # "none" /\ t \in DOMAIN tips
      BY <2>3 DEF QueueInv, TipSound, Requested, RequestedLive
    <3>2. ~ Stored(t)'
      <4>1. Stored(t)' => Requested(t)'
        <5>1. tips[t].written <= requests[t].written /\ tips[t].written \in Nat /\ requests[t].written \in Nat
          BY <1>2, <3>1 DEF QueueInv, TipSound
        <5> QED BY <1>1, <1>2, <3>1, <5>1 DEF Stored, EntryLive, Requested, RequestedLive
      <4> QED BY <2>3, <4>1
    <3>3. CASE paid[t] = 1
      BY <2>1, <3>3, StageIs, StageIsNext DEF Moved
    <3>4. CASE paid[t] = 0
      <4>1. Stage(t)' = "closed"
        BY <2>1, <2>3, <3>1, <3>2, <3>4, StageIsNext
      <4>2. Stage(t) = "pending" \/ Stage(t) = "rejected"
        BY <2>3, <3>1, <3>4, StageIs
      <4> QED BY <4>1, <4>2 DEF Moved, Lifecycle!Moves
    <3> QED BY <3>3, <3>4, StageCases
  <2> QED BY <2>2, <2>3
<1> QED BY <1>5, <1>6 DEF Kept

\* A step that leaves the tips, the requests and the index alone.
LEMMA RestKeeps ==
    ASSUME QueueInv, UNCHANGED <<ledger, tips, requests, pending, paid>>, MoneyTypes',
           registered' \subseteq Creators, cursor' \in 0 .. MaxTips
    PROVE  Kept
<1>2. QueueInv'
  BY DEF QueueInv, QueueTypes, ListSound, TipSound, RequestedLive, EntryLive
<1>3. \A t \in TipIds : Stage(t)' = Stage(t)
  BY DEF Stage, Requested, RequestedLive, Pending, Stored, EntryLive
<1> QED BY <1>2, <1>3 DEF Kept, Moved

LEMMA ProfilesKeep ==
    ASSUME QueueInv, NEW c \in Creators,
           RegisterProfile(c) \/ DeregisterProfile(c) \/ CleanupInactiveProfile(c)
    PROVE  Kept
<1>1. MoneyTypes /\ registered \subseteq Creators /\ cursor \in 0 .. MaxTips
  BY DEF QueueInv, QueueTypes
<1>2. registered' \subseteq Creators /\ UNCHANGED <<ledger, tips, requests, pending, cursor, paid>>
  BY <1>1 DEF RegisterProfile, DeregisterProfile, CleanupInactiveProfile, RemoveProfile
<1>3. MoneyTypes'
  BY <1>1 DEF MoneyTypes, moneyVars, RegisterProfile, DeregisterProfile, CleanupInactiveProfile,
              RemoveProfile
<1> QED BY <1>1, <1>2, <1>3, RestKeeps

LEMMA WithdrawKeeps == ASSUME QueueInv, NEW c \in Creators, WithdrawTips(c) PROVE Kept
<1>1. MoneyTypes /\ registered \subseteq Creators /\ cursor \in 0 .. MaxTips
  BY DEF QueueInv, QueueTypes
<1>2. MoneyTypes' /\ UNCHANGED <<ledger, registered, tips, requests, pending, cursor, paid>>
  BY <1>1 DEF MoneyTypes, WithdrawTips
<1> QED BY <1>1, <1>2, RestKeeps

LEMMA PauseKeeps == ASSUME QueueInv, SetPaused PROVE Kept
<1>1. MoneyTypes /\ registered \subseteq Creators /\ cursor \in 0 .. MaxTips
  BY DEF QueueInv, QueueTypes
<1>2. MoneyTypes' /\ UNCHANGED <<ledger, registered, tips, requests, pending, cursor, paid>>
  BY <1>1 DEF MoneyTypes, moneyVars, SetPaused
<1> QED BY <1>1, <1>2, RestKeeps

\* Nothing of a tip that has not been sent.
LEMMA Unasked ==
    ASSUME QueueInv, NEW t \in TipIds, requests[t].status = "none"
    PROVE  ~ Requested(t) /\ ~ Pending(t) /\ paid[t] = 0 /\ t \notin ToSet(pending)
<1>1. paid[t] = 0
  BY DEF QueueInv, TipSound
<1>2. t \notin ToSet(pending)
  BY DEF QueueInv, ListSound
<1> QED BY <1>1, <1>2 DEF Requested, RequestedLive, Pending

LEMMA SendKeeps == ASSUME QueueInv, NEW c \in Creators, SendTip(c) PROVE Kept
<1> DEFINE n == Len(tips)
           new == [to |-> c, written |-> ledger]
<1>1. /\ n < MaxTips /\ tips' = Append(tips, new)
      /\ UNCHANGED <<ledger, registered, requests, pending, cursor, paid>> /\ MoneyTypes'
      /\ ledger \in 0 .. MaxLedger /\ MaxTips \in Nat /\ EntryTtl \in Nat
  BY QueueAssumption DEF SendTip, QueueInv, QueueTypes, MoneyTypes
<1>2. /\ n \in Nat /\ DOMAIN tips = 1 .. n /\ tips \in Seq(Tip) /\ new \in Tip
      /\ new.written = ledger
  BY <1>1, TipsArePlaced DEF QueueInv, QueueTypes, Tip
<1> HIDE DEF new
<1>3. /\ tips' \in Seq(Tip) /\ Len(tips') = n + 1 /\ DOMAIN tips' = 1 .. n + 1
      /\ tips'[n + 1] = new /\ \A t \in 1 .. n : tips'[t] = tips[t]
  <2> HIDE DEF n
  <2>1. Len(tips) = n
    BY DEF n
  <2> QED BY <1>1, <1>2, <2>1, AppendProperties, LenProperties
<1> HIDE DEF n
<1>4. QueueTypes'
  BY <1>1, <1>2, <1>3 DEF QueueInv, QueueTypes
<1>5. \A t \in DOMAIN tips' : tips'[t].written <= ledger'
  BY <1>1, <1>2, <1>3 DEF QueueInv
<1>6. ListSound(requests, pending)'
  BY <1>1 DEF QueueInv, ListSound
<1>7. ASSUME NEW t \in TipIds PROVE TipSound(requests, pending, paid, t)'
  <2>1. TipSound(requests, pending, paid, t)
    BY DEF QueueInv
  <2>2. requests'[t].status # "none" => t \in DOMAIN tips' /\ tips'[t].written <= requests'[t].written
    BY <1>1, <1>2, <1>3, <2>1 DEF TipSound
  <2> QED BY <1>1, <2>1, <2>2 DEF TipSound, RequestedLive, EntryLive
<1>8. QueueInv'
  BY <1>4, <1>5, <1>6, <1>7 DEF QueueInv
<1>9. ASSUME NEW t \in TipIds PROVE Moved(t)
  <2>1. /\ paid'[t] = paid[t] /\ (Requested(t)' <=> Requested(t)) /\ (Pending(t)' <=> Pending(t))
    BY <1>1 DEF Requested, RequestedLive, Pending, EntryLive
  <2>2. CASE t = n + 1
    <3>1. t \notin DOMAIN tips /\ t \in DOMAIN tips' /\ tips'[t] = new
      BY <1>2, <1>3, <2>2
    <3>2. requests[t].status = "none"
      BY <3>1 DEF QueueInv, TipSound
    <3>3. ~ Requested(t) /\ ~ Pending(t) /\ paid[t] = 0
      BY <3>2, Unasked
    <3>4. Stored(t)'
      BY <1>1, <1>2, <3>1 DEF Stored, EntryLive
    <3>5. Stage(t) = "unsent" /\ Stage(t)' = "open"
      BY <2>1, <3>1, <3>3, <3>4, StageIs, StageIsNext
    <3> QED BY <3>5 DEF Moved, Lifecycle!Moves
  <2>3. CASE t # n + 1
    <3>1. t \in DOMAIN tips' <=> t \in DOMAIN tips
      BY <1>2, <1>3, <2>3
    <3>2. Stored(t)' <=> Stored(t)
      BY <1>1, <1>2, <1>3, <3>1 DEF Stored, EntryLive
    <3> QED BY <2>1, <3>1, <3>2, SameStage DEF Moved
  <2> QED BY <2>2, <2>3
<1> QED BY <1>8, <1>9 DEF Kept

\* A step that writes one request, and keeps the invariant and the stage of that tip.
LEMMA OneWritten ==
    ASSUME QueueInv, NEW t \in TipIds, NEW r \in RequestRecords, NEW l \in Listing,
           requests' = [requests EXCEPT ![t] = r], pending' = l,
           UNCHANGED <<ledger, registered, tips, cursor, paid, paused, moneyVars>>,
           ToSet(l) \ {t} = ToSet(pending) \ {t},
           t \in ToSet(l) <=> r.status = "pending",
           r.status # "none" => t \in DOMAIN tips /\ tips[t].written <= r.written,
           r.written <= ledger, r.status \notin {"approved", "auto_approved"}, paid[t] = 0
    PROVE  QueueInv' /\ \A u \in TipIds : u # t => Moved(u)
<1>1. QueueTypes'
  <2>1. MoneyTypes'
    BY DEF QueueInv, QueueTypes, MoneyTypes, moneyVars
  <2> QED BY <2>1 DEF QueueInv, QueueTypes
<1>2. \A u \in TipIds : requests'[u] = IF u = t THEN r ELSE requests[u]
  BY DEF QueueInv, QueueTypes
<1>3. ListSound(requests, pending)'
  <2>1. ASSUME NEW u \in ToSet(l) PROVE requests'[u].status = "pending"
    <3>1. u \in TipIds
      BY ElementOfSeq, LenProperties DEF ToSet, Listing
    <3>2. CASE u = t
      BY <1>2, <3>2
    <3>3. CASE u # t
      BY <1>2, <3>1, <3>3 DEF QueueInv, ListSound
    <3> QED BY <3>2, <3>3
  <2> QED BY <2>1 DEF ListSound
<1>4. ASSUME NEW u \in TipIds PROVE TipSound(requests, pending, paid, u)'
  <2>1. TipSound(requests, pending, paid, u)
    BY DEF QueueInv
  <2>2. CASE u = t
    BY <1>2, <2>2 DEF TipSound
  <2>3. CASE u # t
    BY <1>2, <2>1, <2>3 DEF TipSound, RequestedLive, EntryLive
  <2> QED BY <2>2, <2>3
<1>5. QueueInv'
  BY <1>1, <1>3, <1>4 DEF QueueInv
<1>6. ASSUME NEW u \in TipIds, u # t PROVE Moved(u)
  <2>1. Stage(u)' = Stage(u)
    BY <1>2, <1>6 DEF Stage, Requested, RequestedLive, Pending, Stored, EntryLive
  <2> QED BY <2>1 DEF Moved
<1> QED BY <1>5, <1>6

LEMMA RequestKeeps == ASSUME QueueInv, NEW t \in TipIds, RequestRefund(t) PROVE Kept
<1> DEFINE r == [status |-> "pending", at |-> Timestamp, written |-> ledger]
<1>1. /\ Stored(t) /\ ~ Requested(t)
      /\ requests' = [requests EXCEPT ![t] = r] /\ pending' = Append(pending, t)
      /\ UNCHANGED <<ledger, registered, tips, cursor, paid, paused, moneyVars>>
  BY DEF RequestRefund
<1>2. requests[t].status = "none"
  BY <1>1, RequestOutlivesTip
<1>3. paid[t] = 0 /\ t \notin ToSet(pending)
  BY <1>2, Unasked
<1>4. r \in RequestRecords /\ r.status = "pending" /\ r.written = ledger
  <2>1. ledger \in 0 .. MaxLedger /\ Timestamp \in Nat
    BY QueueAssumption DEF QueueInv, QueueTypes, Timestamp
  <2> QED BY <2>1 DEF RequestRecords, Statuses
<1>5. PICK l \in Listing : l = Append(pending, t) /\ ToSet(l) = ToSet(pending) \cup {t}
  BY <1>3, Appended DEF QueueInv, ListSound
<1>6. t \in DOMAIN tips /\ tips[t].written <= ledger /\ ledger <= ledger
  BY <1>1 DEF QueueInv, QueueTypes, Stored
<1> HIDE DEF r
<1>7. QueueInv' /\ \A u \in TipIds : u # t => Moved(u)
  <2>1. ToSet(l) \ {t} = ToSet(pending) \ {t} /\ t \in ToSet(l) /\ pending' = l
    BY <1>1, <1>5
  <2>2. r.written <= ledger /\ r.status \notin {"approved", "auto_approved"}
    BY <1>4, <1>6
  <2> QED BY <1>1, <1>3, <1>4, <1>6, <2>1, <2>2, OneWritten
<1>8. Stage(t) = "open"
  BY <1>1, <1>3, <1>6, StageIs
<1>9. Stage(t)' = "pending"
  <2>1. requests'[t] = r
    BY <1>1 DEF QueueInv, QueueTypes
  <2>2. ledger <= ledger + EntryTtl
    BY QueueAssumption DEF QueueInv, QueueTypes
  <2>3. Pending(t)'
    BY <1>1, <1>4, <2>1, <2>2 DEF Pending, Requested, RequestedLive, EntryLive
  <2> QED BY <1>1, <1>3, <1>6, <2>3, StageIsNext
<1>10. Moved(t)
  BY <1>8, <1>9 DEF Moved, Lifecycle!Moves
<1> QED BY <1>7, <1>10 DEF Kept

\* What holds of a pending request.
LEMMA PendingFacts ==
    ASSUME QueueInv, NEW t \in TipIds, Pending(t)
    PROVE  /\ paid[t] = 0 /\ t \in DOMAIN tips /\ t \in ToSet(pending) /\ Stage(t) = "pending"
           /\ tips[t].written <= ledger /\ pending \in Listing /\ requests[t] \in RequestRecords
           /\ requests[t].status = "pending" /\ RequestedLive(requests, t)
           /\ ledger \in 0 .. MaxLedger /\ EntryTtl \in Nat
<1>1. /\ paid[t] = 0 /\ t \in DOMAIN tips /\ t \in ToSet(pending)
      /\ requests[t].status = "pending" /\ RequestedLive(requests, t)
  BY DEF QueueInv, TipSound, Pending, Requested
<1>2. Stage(t) = "pending"
  BY <1>1, StageIs
<1> QED BY <1>1, <1>2, QueueAssumption DEF QueueInv, QueueTypes, ListSound

LEMMA RejectKeeps == ASSUME QueueInv, NEW t \in TipIds, RejectRefund(t) PROVE Kept
<1> DEFINE r == [requests[t] EXCEPT !.status = "rejected", !.written = ledger]
<1>1. /\ Pending(t) /\ pending' = SwapRemove(pending, t)
      /\ requests' = [requests EXCEPT ![t].status = "rejected", ![t].written = ledger]
      /\ UNCHANGED <<ledger, registered, tips, cursor, paid, paused, moneyVars>>
  BY DEF RejectRefund
<1>2. /\ paid[t] = 0 /\ t \in DOMAIN tips /\ t \in ToSet(pending) /\ Stage(t) = "pending"
      /\ tips[t].written <= ledger /\ pending \in Listing /\ requests[t] \in RequestRecords
      /\ ledger \in 0 .. MaxLedger /\ EntryTtl \in Nat
  BY <1>1, PendingFacts
<1>3. requests' = [requests EXCEPT ![t] = r]
  BY <1>1, <1>2 DEF QueueInv, QueueTypes
<1>4. r \in RequestRecords /\ r.status = "rejected" /\ r.written = ledger
  <2>1. "rejected" \in Statuses
    BY DEF Statuses
  <2> QED BY <1>2, <2>1 DEF RequestRecords
<1> HIDE DEF r
<1>5. PICK l \in Listing : l = SwapRemove(pending, t) /\ ToSet(l) = ToSet(pending) \ {t}
  BY <1>2, SwapRemoved
<1>6. QueueInv' /\ \A u \in TipIds : u # t => Moved(u)
  <2>1. ToSet(l) \ {t} = ToSet(pending) \ {t} /\ t \notin ToSet(l) /\ pending' = l
    BY <1>1, <1>5
  <2>2. r.written <= ledger /\ r.status \notin {"approved", "auto_approved"} /\ r.status # "pending"
    BY <1>2, <1>4
  <2> QED BY <1>1, <1>2, <1>3, <1>4, <2>1, <2>2, OneWritten
<1>7. Stage(t)' = "rejected"
  <2>1. requests'[t] = r
    BY <1>3 DEF QueueInv, QueueTypes
  <2>2. ledger <= ledger + EntryTtl
    BY <1>2
  <2>3. Requested(t)' /\ ~ Pending(t)'
    BY <1>1, <1>4, <2>1, <2>2 DEF Pending, Requested, RequestedLive, EntryLive
  <2> QED BY <1>1, <1>2, <2>3, StageIsNext
<1>8. Moved(t)
  BY <1>2, <1>7 DEF Moved, Lifecycle!Moves
<1> QED BY <1>6, <1>8 DEF Kept

LEMMA ExpireKeeps == ASSUME QueueInv, NEW t \in TipIds, ExpireRefund(t) PROVE Kept
<1>1. /\ Pending(t) /\ pending' = SwapRemove(pending, t)
      /\ requests' = [requests EXCEPT ![t] = NoRequest]
      /\ UNCHANGED <<ledger, registered, tips, cursor, paid, paused, moneyVars>>
  BY DEF ExpireRefund
<1>2. /\ paid[t] = 0 /\ t \in DOMAIN tips /\ t \in ToSet(pending) /\ Stage(t) = "pending"
      /\ pending \in Listing /\ ledger \in 0 .. MaxLedger
  BY <1>1, PendingFacts
<1>3. NoRequest \in RequestRecords /\ NoRequest.status = "none" /\ NoRequest.written = 0
  BY <1>2, QueueAssumption DEF NoRequest, RequestRecords, Statuses
<1>4. PICK l \in Listing : l = SwapRemove(pending, t) /\ ToSet(l) = ToSet(pending) \ {t}
  BY <1>2, SwapRemoved
<1>5. QueueInv' /\ \A u \in TipIds : u # t => Moved(u)
  <2>1. ToSet(l) \ {t} = ToSet(pending) \ {t} /\ t \notin ToSet(l) /\ pending' = l
    BY <1>1, <1>4
  <2>2. /\ NoRequest.written <= ledger /\ NoRequest.status \notin {"approved", "auto_approved"}
        /\ NoRequest.status # "pending"
    BY <1>2, <1>3
  <2> QED BY <1>1, <1>2, <1>3, <2>1, <2>2, OneWritten
<1>6. Stage(t)' = "open" \/ Stage(t)' = "closed"
  <2>1. requests'[t] = NoRequest
    BY <1>1 DEF QueueInv, QueueTypes
  <2>2. ~ Requested(t)'
    BY <1>3, <2>1 DEF Requested, RequestedLive
  <2> QED BY <1>1, <1>2, <2>2, StageIsNext
<1>7. Moved(t)
  BY <1>2, <1>6 DEF Moved, Lifecycle!Moves
<1> QED BY <1>5, <1>7 DEF Kept

LEMMA ApproveKeeps == ASSUME QueueInv, NEW t \in TipIds, ApproveRefund(t) PROVE Kept
<1>1. Pending(t) /\ Commit(Settle(Books, t, "approved")) /\ cursor' = cursor /\ QueueTypes
  BY DEF ApproveRefund, QueueInv
<1>2. PICK b \in SoundBooks : b = Books
  BY BooksAreSound
<1>3. RequestedLive(b.requests, t) /\ b.requests[t].status = "pending"
  BY <1>1, <1>2, PendingFacts DEF Books
<1>4. PICK n \in SoundBooks : n = Settle(b, t, "approved")
  BY <1>1, <1>3, SettleStays
<1>5. Commit(n) /\ cursor' \in 0 .. MaxTips
  BY <1>1, <1>2, <1>4 DEF QueueTypes
<1> QED BY <1>5, CommitKeeps

LEMMA ProcessKeeps ==
    ASSUME QueueInv, NEW ids \in Seq(TipIds), ProcessPendingRefunds(ids) PROVE Kept
<1>1. PICK b \in SoundBooks : b = FoldLeft(ProcessListed, Books, ids)
  BY IdsStay
<1>2. Commit(b) /\ cursor' \in 0 .. MaxTips
  BY <1>1 DEF ProcessPendingRefunds, QueueInv, QueueTypes
<1> QED BY <1>2, CommitKeeps

LEMMA ProcessFromKeeps ==
    ASSUME QueueInv, NEW from \in Nat, NEW limit, ProcessPendingRefundsFrom(from, limit) PROVE Kept
<1>1. PICK walk \in Walks : walk = Walk(from, limit)
  BY WalkStays
<1>2. walk.books \in SoundBooks /\ Commit(walk.books) /\ cursor' \in 0 .. MaxTips
  BY <1>1 DEF ProcessPendingRefundsFrom, Walks, QueueInv, QueueTypes
<1> QED BY <1>2, CommitKeeps

\* The cursor a sweep returns is a place in the list it leaves, or the start.
LEMMA SweepKeeps == ASSUME QueueInv, NEW limit, KeeperSweep(limit) PROVE Kept
<1>1. cursor \in Nat /\ MaxTips \in Nat
  BY QueueAssumption DEF QueueInv, QueueTypes
<1>2. CASE cursor >= Len(pending)
  <2>1. cursor' = 0 /\ UNCHANGED <<ledger, registered, tips, requests, pending, paid>> /\ MoneyTypes'
    BY <1>2 DEF KeeperSweep, QueueInv, QueueTypes, MoneyTypes, moneyVars
  <2>2. registered' \subseteq Creators /\ cursor' \in 0 .. MaxTips
    BY <1>1, <2>1 DEF QueueInv, QueueTypes
  <2> QED BY <2>1, <2>2, RestKeeps
<1>3. CASE ~ (cursor >= Len(pending))
  <2>1. PICK walk \in Walks : walk = Walk(cursor, limit)
    BY <1>1, WalkStays
  <2>2. Commit(walk.books) /\ cursor' = NextCursor(walk)
    BY <1>3, <2>1 DEF KeeperSweep
  <2>3. walk.books \in SoundBooks /\ walk.index \in Nat /\ walk.books.pending \in Listing
    BY DEF Walks, SoundBooks, Bookings
  <2>4. Len(walk.books.pending) <= MaxTips /\ Len(walk.books.pending) \in Nat
    BY <2>3, ListingIsShort, LenProperties DEF Listing
  <2>5. cursor' \in 0 .. MaxTips
    BY <1>1, <2>2, <2>3, <2>4 DEF NextCursor
  <2> QED BY <2>2, <2>3, <2>5, CommitKeeps
<1> QED BY <1>2, <1>3

-----------------------------------------------------------------------------
(* The queue.                                                              *)

LEMMA QueueStarts == Init => QueueInv
<1> SUFFICES ASSUME Init PROVE QueueInv
  OBVIOUS
<1>1. /\ ledger = 0 /\ registered = Creators /\ tips = <<>> /\ pending = <<>> /\ cursor = 0
      /\ requests = [t \in TipIds |-> NoRequest] /\ paid = [t \in TipIds |-> 0]
  BY DEF Init
<1>2. MaxTips \in Nat /\ MaxLedger \in Nat
  BY QueueAssumption
<1>3. NoRequest \in RequestRecords /\ NoRequest.status = "none" /\ NoRequest.written = 0
  BY <1>2 DEF NoRequest, RequestRecords, Statuses
<1>4. tips \in Seq(Tip) /\ Len(tips) = 0 /\ DOMAIN tips = {}
  BY <1>1
<1>5. pending \in Seq(TipIds) /\ DOMAIN pending = {}
  BY <1>1
<1>9. MoneyTypes
  <2>1. paused = FALSE /\ held = [c \in Creators |-> 0] /\ pool = 0
    BY DEF Init
  <2>2. [c \in Creators |-> 0] \in [Creators -> Int]
    OBVIOUS
  <2> QED BY <2>1, <2>2 DEF MoneyTypes
<1>6. QueueTypes
  BY <1>1, <1>2, <1>3, <1>4, <1>9 DEF QueueTypes
<1>7. ListSound(requests, pending)
  BY <1>5 DEF ListSound, Listing, IsInjective, ToSet
<1>8. ASSUME NEW t \in TipIds PROVE TipSound(requests, pending, paid, t)
  BY <1>1, <1>2, <1>3 DEF TipSound
<1> QED BY <1>4, <1>6, <1>7, <1>8 DEF QueueInv

LEMMA QueueKeeps == QueueInv /\ [Next]_vars => Kept
<1> SUFFICES ASSUME QueueInv, [Next]_vars PROVE Kept
  OBVIOUS
<1>1. CASE CloseLedger
  BY <1>1, CloseKeeps
<1>2. CASE \E c \in Leavers : \/ RegisterProfile(c) \/ DeregisterProfile(c)
                              \/ CleanupInactiveProfile(c)
  BY <1>2, ProfilesKeep, QueueAssumption
<1>3. CASE \E c \in Creators : SendTip(c) \/ WithdrawTips(c)
  BY <1>3, SendKeeps, WithdrawKeeps
<1>12. CASE SetPaused
  BY <1>12, PauseKeeps
<1>4. CASE \E t \in TipIds : RequestRefund(t)
  BY <1>4, RequestKeeps
<1>5. CASE \E t \in TipIds : ApproveRefund(t)
  BY <1>5, ApproveKeeps
<1>6. CASE \E t \in TipIds : RejectRefund(t)
  BY <1>6, RejectKeeps
<1>7. CASE \E t \in TipIds : ExpireRefund(t)
  BY <1>7, ExpireKeeps
<1>8. CASE \E t, u \in TipIds : ProcessPendingRefunds(<<t, u>>)
  <2>1. PICK t \in TipIds, u \in TipIds : ProcessPendingRefunds(<<t, u>>)
    BY <1>8
  <2>2. <<t, u>> \in Seq(TipIds)
    OBVIOUS
  <2> QED BY <2>1, <2>2, ProcessKeeps
<1>9. CASE \E from \in 0 .. MaxTips, limit \in BatchLimits : ProcessPendingRefundsFrom(from, limit)
  <2>1. PICK from \in 0 .. MaxTips, limit \in BatchLimits : ProcessPendingRefundsFrom(from, limit)
    BY <1>9
  <2>2. from \in Nat
    OBVIOUS
  <2> QED BY <2>1, <2>2, ProcessFromKeeps
<1>10. CASE \E limit \in BatchLimits : KeeperSweep(limit)
  BY <1>10, SweepKeeps
<1>11. CASE UNCHANGED vars
  <2>1. UNCHANGED <<ledger, registered, tips, requests, pending, cursor, paid, paused, held, pool>>
    BY <1>11 DEF vars, moneyVars
  <2>2. MoneyTypes' /\ registered' \subseteq Creators /\ cursor' \in 0 .. MaxTips
    BY <2>1 DEF QueueInv, QueueTypes, MoneyTypes
  <2> QED BY <2>1, <2>2, RestKeeps
<1> QED BY <1>1, <1>2, <1>3, <1>4, <1>5, <1>6, <1>7, <1>8, <1>9, <1>10, <1>11,
              <1>12 DEF Next

\* The index is exact and no tip is paid back twice: requests, answers, batches of
\* any tips in any order, sweeps from anywhere, ledgers that end the life of entries,
\* and creators who come and go, in every order (refunds.rs, storage.rs).
THEOREM QueueIsSafe == Spec => []Safe
<1>1. QueueInv /\ [Next]_vars => QueueInv'
  BY QueueKeeps DEF Kept
<1> QED BY <1>1, QueueStarts, InvIsSafe, PTL DEF Spec

LEMMA StagesAre == QueueInv => \A t \in TipIds : Stage(t) \in Lifecycle!Stages
<1> SUFFICES ASSUME QueueInv, NEW t \in TipIds PROVE Stage(t) \in Lifecycle!Stages
  OBVIOUS
<1>1. paid[t] = 1 \/ paid[t] = 0
  BY StageCases
<1>2. Requested(t) => t \in DOMAIN tips
  BY DEF QueueInv, TipSound, Requested, RequestedLive
<1>3. CASE paid[t] = 1 \/ t \notin DOMAIN tips
  BY <1>1, <1>2, <1>3, StageIs DEF Lifecycle!Stages
<1>4. CASE paid[t] = 0 /\ t \in DOMAIN tips
  BY <1>4, StageIs DEF Lifecycle!Stages
<1> QED BY <1>1, <1>3, <1>4

\* Each tip's refund moves as RefundLifecycle allows: the queue implements it.
THEOREM LifecycleIsFollowed == Spec => FollowsLifecycle
<1>1. Init => Lifecycle!Init
  <2> SUFFICES ASSUME Init PROVE [t \in TipIds |-> Stage(t)] = [t \in TipIds |-> "unsent"]
    BY DEF Lifecycle!Init
  <2>1. ASSUME NEW t \in TipIds PROVE Stage(t) = "unsent"
    <3>1. requests[t].status = "none" /\ t \notin DOMAIN tips /\ QueueInv
      BY QueueStarts DEF Init, NoRequest
    <3>2. ~ Requested(t) /\ paid[t] = 0
      BY <3>1, Unasked
    <3> QED BY <3>1, <3>2, StageIs
  <2> QED BY <2>1
<1>2. (QueueInv => \A t \in TipIds : Stage(t) \in Lifecycle!Stages)'
  BY StagesAre, PTL
<1>3. QueueInv /\ [Next]_vars => QueueInv' /\ [Lifecycle!Next]_([t \in TipIds |-> Stage(t)])
  <2> SUFFICES ASSUME QueueInv, [Next]_vars
               PROVE  QueueInv' /\ [Lifecycle!Next]_([t \in TipIds |-> Stage(t)])
    OBVIOUS
  <2>1. QueueInv' /\ \A t \in TipIds : Moved(t)
    BY QueueKeeps DEF Kept
  <2>2. \A t \in TipIds : Stage(t)' \in Lifecycle!Stages
    BY <1>2, <2>1
  <2>3. Lifecycle!Next
    BY <2>1, <2>2 DEF Lifecycle!Next, Moved
  <2> QED BY <2>1, <2>3
<1> QED BY <1>1, <1>3, QueueStarts, PTL DEF Spec, FollowsLifecycle, Lifecycle!Spec

-----------------------------------------------------------------------------
(***************************************************************************)
(* The pool: for any number of creators, fans, tips and scheduled tips,    *)
(* any amounts, fee rates and windows.  The records are used in order      *)
(* (RecordsInUse), so that a new tip or a new scheduled tip never          *)
(* overwrites one that still counts; the pause clock runs exactly while a  *)
(* flag is set (PauseClock); and then each entry point moves the two sides *)
(* of the books by the same amount.                                        *)
(***************************************************************************)

LEMMA CountsAre ==
  NumCreators \in Nat /\ MaxRecords \in Nat /\ MaxScheduled \in Nat /\ MaxTime \in Nat
BY Zenon, CustodyAssumption DEF F!CountsAssumption

LEMMA AmountsAre ==
  /\ \A amount \in TipAmounts : amount \in Nat /\ amount # 0
  /\ \A amount \in WithdrawAmounts : amount \in Nat
  /\ \A bps \in FeeRates : bps \in Nat
  /\ \A bps \in RefundFeeRates : bps \in Nat
<1>1. ASSUME NEW amount \in TipAmounts PROVE amount \in Nat /\ amount # 0
  BY SMTT(30), CustodyAssumption DEF F!AmountsAssumption
<1>2. ASSUME NEW amount \in WithdrawAmounts PROVE amount \in Nat
  BY SMTT(30), CustodyAssumption DEF F!AmountsAssumption
<1>3. ASSUME NEW bps \in FeeRates PROVE bps \in Nat
  BY SMTT(30), CustodyAssumption DEF F!AmountsAssumption
<1>4. ASSUME NEW bps \in RefundFeeRates PROVE bps \in Nat
  BY SMTT(30), CustodyAssumption DEF F!AmountsAssumption
<1> QED BY <1>1, <1>2, <1>3, <1>4

LEMMA SumsAgree == ASSUME NEW f, NEW n PROVE F!SumTo(f, n) = SumTo(f, n)
BY Zenon DEF F!SumTo, F!PrefixSums, F!Padded, SumTo, PrefixSums, Padded

\* A behaviour of the custody about the pool is a behaviour of the pool, and about the index
\* the pool rests.
LEMMA FocusKept == ASSUME [CustodyNext]_custodyVars PROVE focus' = focus
BY DEF CustodyNext, QueueNext, FundsNext, InQueue, InFunds, custodyVars

LEMMA FundsSteps ==
  ASSUME focus = "funds", [CustodyNext]_custodyVars
  PROVE  [F!Next]_(F!vars)
BY DEF CustodyNext, QueueNext, FundsNext, InQueue, InFunds, custodyVars, fundsVars,
       F!vars, F!clockVars, F!profileVars, F!tipVars, F!refundVars, F!scheduledVars

LEMMA FundsMove ==
  ASSUME [CustodyNext]_custodyVars
  PROVE  UNCHANGED F!vars \/ (focus = "funds" /\ F!Next)
BY DEF CustodyNext, QueueNext, FundsNext, InQueue, InFunds, custodyVars, fundsVars,
       F!vars, F!clockVars, F!profileVars, F!tipVars, F!refundVars, F!scheduledVars

\* Slots are filled in order; a used one names a creator; only a stored tip has
\* a refund request.
RecordsInUse ==
  /\ \A s \in F!ScheduledIds :
       IF s <= scheduledCount
       THEN scheduled[s].to \in F!CreatorIds /\ scheduled[s].status # "unused"
       ELSE scheduled[s].status = "unused"
  /\ \A t \in F!TipIds : t <= tipCount => records[t].to \in F!CreatorIds
  /\ \A t \in F!TipIds : refunds[t].status # "none" => t <= tipCount

\* PausedAt is present exactly while some flag is set.
PauseClock == pausedAt = F!Unpaused <=> pauseFlags = {}

Support == F!TypeOK /\ RecordsInUse /\ PauseClock

-----------------------------------------------------------------------------
LEMMA WithdrawalFee ==
  ASSUME NEW amount \in Int, NEW bps \in FeeRates
  PROVE  F!CalculateFee(amount, bps) \in Nat
<1>1. bps \in Int
  BY AmountsAre
<1>2. (amount * bps) \div 10000 \in Int
  BY <1>1
<1> QED
  BY <1>2 DEF F!CalculateFee, F!AtLeast

LEMMA CancelFee == \A amount \in Nat : F!CancellationFee(amount) \in Nat
BY DEF F!CancellationFee

LEMMA KeptFee ==
  ASSUME NEW amount \in Nat, NEW bps \in RefundFeeRates
  PROVE  F!NonRefundableFee(amount, bps) \in Nat
<1> DEFINE product == amount * bps
<1>1. bps \in Nat
  BY AmountsAre
<1>2. product \in Nat
  BY <1>1
<1> HIDE DEF product
<1>3. product \div 10000 \in Nat
  BY <1>2
<1> QED
  BY <1>3 DEF product, F!NonRefundableFee

LEMMA InitSupport == F!Init => Support
BY CountsAre DEF F!CreatorIds, F!TipIds, F!ScheduledIds, F!Unpaused, F!Init, Support, F!TypeOK,
       RecordsInUse, PauseClock, F!NoTip, F!NoRefund, F!NoScheduled, F!Statuses, F!Addresses

-----------------------------------------------------------------------------
(* Support is inductive on its own: one lemma for each group of actions.   *)

LEMMA PauseSupport ==
  ASSUME Support, NEW mask \in F!PauseMasks, F!Pause(mask) \/ F!Unpause(mask)
  PROVE  Support'
<1> USE DEF Support, F!clockVars, F!profileVars, F!tipVars, F!refundVars, F!scheduledVars
<1>1. PICK flags : flags \subseteq PauseBits /\ F!SetPauseFlags(flags)
  BY DEF F!Pause, F!Unpause, F!PauseMasks, F!TypeOK
<1>2. now \in 0 .. MaxTime /\ MaxTime \in Nat /\ pausedAt \in (0 .. MaxTime) \cup {F!Unpaused}
  BY CountsAre DEF F!TypeOK
<1>3. F!TypeOK'
  BY <1>1, <1>2 DEF F!TypeOK, F!SetPauseFlags
<1>4. RecordsInUse'
  BY <1>1 DEF RecordsInUse, F!SetPauseFlags
<1>5. PauseClock'
  BY <1>1, <1>2 DEF PauseClock, F!SetPauseFlags, F!IsSet, F!Unpaused
<1> QED
  BY <1>3, <1>4, <1>5

LEMMA TickSupport == Support /\ F!Tick => Support'
<1> SUFFICES ASSUME Support, F!Tick PROVE Support'
  OBVIOUS
<1> USE DEF Support, F!Tick, F!clockVars, F!profileVars, F!tipVars, F!refundVars, F!scheduledVars
<1>1. F!TypeOK'
  BY CountsAre DEF F!TypeOK
<1>2. RecordsInUse' /\ PauseClock'
  BY DEF RecordsInUse, PauseClock
<1> QED
  BY <1>1, <1>2

LEMMA ProfileSupport ==
  ASSUME Support, NEW c \in F!CreatorIds, F!ProfileStep(c)
  PROVE  Support'
<1> USE DEF Support, F!clockVars, F!profileVars, F!tipVars, F!refundVars, F!scheduledVars
<1>1. RecordsInUse' /\ PauseClock'
  BY DEF F!ProfileStep, F!RegisterProfile, F!DeactivateProfile, F!ReactivateProfile, F!DeregisterProfile,
         F!CleanupInactiveProfile, F!RemoveProfile, RecordsInUse, PauseClock
<1>2. CASE F!RegisterProfile(c) \/ F!DeactivateProfile(c) \/ F!ReactivateProfile(c)
  <2>1. F!TypeOK'
    BY <1>2 DEF F!TypeOK, F!RegisterProfile, F!DeactivateProfile, F!ReactivateProfile
  <2> QED
    BY <1>1, <2>1
<1>3. CASE balance[c] <= 0 /\ F!RemoveProfile(c)
  <2>1. writtenOff' \in Nat
    BY <1>3 DEF F!TypeOK, F!RemoveProfile
  <2>2. F!TypeOK'
    BY <1>3, <2>1 DEF F!TypeOK, F!RemoveProfile
  <2> QED
    BY <1>1, <2>2
<1> QED
  BY <1>2, <1>3 DEF F!ProfileStep, F!DeregisterProfile, F!CleanupInactiveProfile, F!TypeOK

LEMMA PayoutSupport ==
  ASSUME Support, NEW c \in F!CreatorIds, NEW amount \in WithdrawAmounts, F!PayoutStep(c, amount)
  PROVE  Support'
<1> USE DEF Support, F!clockVars, F!profileVars, F!tipVars, F!refundVars, F!scheduledVars
<1>1. RecordsInUse' /\ PauseClock'
  BY DEF F!PayoutStep, F!WithdrawTips, F!EmergencyWithdrawTips, RecordsInUse, PauseClock
<1>2. amount \in Nat /\ balance[c] \in Int
  <2>1. amount \in Nat
    BY AmountsAre
  <2> QED
    BY <2>1 DEF F!TypeOK
<1>3. ASSUME NEW bps \in FeeRates, F!WithdrawTips(c, amount, bps) PROVE F!TypeOK'
  <2> DEFINE gross == F!GrossWithdrawal(c, amount)
             fee == F!CalculateFee(gross, bps)
  <2>1. gross \in Int
    BY <1>2 DEF F!GrossWithdrawal
  <2> HIDE DEF gross
  <2>2. fee \in Nat
    BY <2>1, WithdrawalFee
  <2> HIDE DEF fee
  <2>3. xlm' \in Nat /\ feesCollected' \in Nat
    BY <1>3, <2>1, <2>2 DEF F!TypeOK, F!WithdrawTips, F!PoolCovers, gross, fee
  <2>4. balance' \in [F!CreatorIds -> Int]
    BY <1>3, <2>1 DEF F!TypeOK, F!WithdrawTips, gross, fee
  <2> QED
    BY <1>3, <2>3, <2>4 DEF F!TypeOK, F!WithdrawTips
<1>4. CASE F!EmergencyWithdrawTips(c, amount)
  BY <1>1, <1>2, <1>4 DEF F!TypeOK, F!EmergencyWithdrawTips, F!PoolCovers
<1> QED
  BY <1>1, <1>3, <1>4 DEF F!PayoutStep

\* Crediting a tip fills the next slot, which no refund request names.
LEMMA CreditSupport ==
  ASSUME F!TypeOK, RecordsInUse,
         NEW a \in F!Addresses \cup {0}, NEW c \in F!CreatorIds, NEW amount \in Nat,
         F!CreditTip(a, c, amount)
  PROVE  /\ balance' \in [F!CreatorIds -> Int] /\ received' \in [F!CreatorIds -> Int]
         /\ records' \in [F!TipIds -> [from : F!Addresses \cup {0}, to : F!CreatorIds \cup {0},
                                  amount : Nat, at : 0 .. MaxTime]]
         /\ tipCount' \in 0 .. MaxRecords /\ tipsVolume' \in Nat
         /\ \A t \in F!TipIds : t <= tipCount' => records'[t].to \in F!CreatorIds
         /\ \A t \in F!TipIds : refunds'[t].status # "none" => t <= tipCount'
<1>1. tipCount + 1 \in F!TipIds /\ tipCount \in Nat /\ MaxRecords \in Nat
  BY CountsAre DEF F!TypeOK, F!CreditTip, F!TipIds
<1>2. tipCount' \in 0 .. MaxRecords
  BY <1>1 DEF F!CreditTip, F!TipIds
<1>3. balance' \in [F!CreatorIds -> Int] /\ received' \in [F!CreatorIds -> Int] /\ tipsVolume' \in Nat
  BY DEF F!TypeOK, F!CreditTip
<1>4. records' \in [F!TipIds -> [from : F!Addresses \cup {0}, to : F!CreatorIds \cup {0},
                            amount : Nat, at : 0 .. MaxTime]]
  BY <1>1 DEF F!TypeOK, F!CreditTip
<1>5. \A t \in F!TipIds : t <= tipCount' => records'[t].to \in F!CreatorIds
  BY <1>1 DEF F!TypeOK, F!CreditTip, RecordsInUse, F!TipIds
<1>6. \A t \in F!TipIds : refunds'[t].status # "none" => t <= tipCount'
  BY <1>1 DEF F!CreditTip, RecordsInUse, F!refundVars, F!TipIds
<1> QED
  BY <1>2, <1>3, <1>4, <1>5, <1>6

LEMMA TipSupport ==
  ASSUME Support, NEW a \in F!Addresses, NEW c \in F!CreatorIds, NEW amount \in TipAmounts,
         F!TipStep(a, c, amount)
  PROVE  Support'
<1> USE DEF Support
<1>1. amount \in Nat
  BY AmountsAre
<1>2. CASE \/ F!SendTip(a, c, amount)
           \/ \E b \in F!Addresses : F!SendTipOnBehalf(a, b, c, amount)
  <2>1. F!CreditTip(a, c, amount) /\ xlm' = xlm + amount /\ UNCHANGED F!scheduledVars
    BY <1>2 DEF F!SendTip, F!SendTipOnBehalf
  <2>2. RecordsInUse'
    BY <1>1, <2>1, CreditSupport DEF RecordsInUse, F!scheduledVars
  <2>3. PauseClock'
    BY <2>1 DEF PauseClock, F!CreditTip, F!clockVars
  <2>4. /\ balance' \in [F!CreatorIds -> Int] /\ received' \in [F!CreatorIds -> Int]
        /\ records' \in [F!TipIds -> [from : F!Addresses \cup {0}, to : F!CreatorIds \cup {0},
                                 amount : Nat, at : 0 .. MaxTime]]
        /\ tipCount' \in 0 .. MaxRecords /\ tipsVolume' \in Nat
    BY <1>1, <2>1, CreditSupport
  <2>5. xlm' \in Nat
    BY <1>1, <2>1 DEF F!TypeOK
  <2>6. UNCHANGED <<F!clockVars, profile, F!refundVars, feesCollected, writtenOff, F!scheduledVars>>
    BY <2>1 DEF F!CreditTip
  <2>7. F!TypeOK'
    BY <2>4, <2>5, <2>6 DEF F!TypeOK, F!scheduledVars, F!clockVars, F!refundVars
  <2> QED
    BY <2>2, <2>3, <2>7
<1>3. ASSUME NEW at \in 0 .. MaxTime, F!SendScheduledTip(a, c, amount, at) PROVE Support'
  <2> USE DEF F!clockVars, F!profileVars, F!tipVars, F!refundVars, F!scheduledVars
  <2>1. scheduledCount + 1 \in F!ScheduledIds /\ scheduledCount \in Nat /\ MaxScheduled \in Nat
    BY <1>3, CountsAre DEF F!TypeOK, F!SendScheduledTip, F!ScheduledIds
  <2>2. scheduled' \in [F!ScheduledIds -> [from : F!Addresses \cup {0}, to : F!CreatorIds \cup {0},
             amount : Nat, at : 0 .. MaxTime,
             status : {"unused", "locked", "delivered", "cancelled"}]]
    BY <1>1, <1>3, <2>1 DEF F!TypeOK, F!SendScheduledTip
  <2>3. F!TypeOK'
    <3>1. xlm' \in Nat /\ scheduledCount' \in 0 .. MaxScheduled
      BY <1>1, <1>3, <2>1 DEF F!TypeOK, F!SendScheduledTip, F!ScheduledIds
    <3>2. UNCHANGED <<F!clockVars, F!profileVars, F!tipVars, F!refundVars, feesCollected, writtenOff>>
      BY <1>3 DEF F!SendScheduledTip
    <3> QED
      BY <2>2, <3>1, <3>2 DEF F!TypeOK
  <2>4. \A s \in F!ScheduledIds :
          IF s <= scheduledCount'
          THEN scheduled'[s].to \in F!CreatorIds /\ scheduled'[s].status # "unused"
          ELSE scheduled'[s].status = "unused"
    BY SMTT(20), <1>3, <2>1 DEF F!TypeOK, RecordsInUse, F!SendScheduledTip, F!ScheduledIds
  <2>5. RecordsInUse'
    BY <1>3, <2>4 DEF RecordsInUse, F!SendScheduledTip
  <2>6. PauseClock'
    BY <1>3 DEF PauseClock, F!SendScheduledTip
  <2> QED
    BY <2>3, <2>5, <2>6
<1> QED
  BY <1>2, <1>3 DEF F!TipStep

LEMMA ScheduledSupport ==
  ASSUME Support, NEW s \in F!ScheduledIds, F!ScheduledStep(s)
  PROVE  Support'
<1> USE DEF Support
<1>1. scheduled[s].amount \in Nat /\ scheduled[s].from \in F!Addresses \cup {0}
  BY DEF F!TypeOK
<1>2. scheduled[s].status = "locked" => scheduled[s].to \in F!CreatorIds
  BY DEF RecordsInUse
<1>3. ASSUME NEW status \in {"delivered", "cancelled"},
             scheduled' = [scheduled EXCEPT ![s].status = status],
             scheduled[s].status = "locked", UNCHANGED scheduledCount
      PROVE  /\ scheduled' \in [F!ScheduledIds -> [from : F!Addresses \cup {0}, to : F!CreatorIds \cup {0},
                  amount : Nat, at : 0 .. MaxTime,
                  status : {"unused", "locked", "delivered", "cancelled"}]]
             /\ \A i \in F!ScheduledIds :
                  IF i <= scheduledCount'
                  THEN scheduled'[i].to \in F!CreatorIds /\ scheduled'[i].status # "unused"
                  ELSE scheduled'[i].status = "unused"
  <2>1. scheduled \in [F!ScheduledIds -> [from : F!Addresses \cup {0}, to : F!CreatorIds \cup {0},
                  amount : Nat, at : 0 .. MaxTime,
                  status : {"unused", "locked", "delivered", "cancelled"}]]
    BY DEF F!TypeOK
  <2>2. \A i \in F!ScheduledIds :
          IF i <= scheduledCount
          THEN scheduled[i].to \in F!CreatorIds /\ scheduled[i].status # "unused"
          ELSE scheduled[i].status = "unused"
    BY Zenon DEF RecordsInUse
  <2>3. /\ scheduled'[s].to = scheduled[s].to /\ scheduled'[s].status = status
        /\ \A i \in F!ScheduledIds \ {s} : scheduled'[i] = scheduled[i]
    BY <1>3, <2>1
  <2> QED
    BY <1>3, <2>1, <2>2, <2>3
<1>4. CASE F!DeliverScheduledTip(s)
  <2>1. /\ F!CreditTip(scheduled[s].from, scheduled[s].to, scheduled[s].amount)
        /\ UNCHANGED xlm /\ scheduled[s].to \in F!CreatorIds
    BY <1>2, <1>4 DEF F!DeliverScheduledTip
  <2>2. PauseClock'
    BY <2>1 DEF PauseClock, F!CreditTip, F!clockVars
  <2>3. RecordsInUse'
    BY <1>1, <1>3, <1>4, <2>1, CreditSupport DEF RecordsInUse, F!DeliverScheduledTip
  <2>4. /\ balance' \in [F!CreatorIds -> Int] /\ received' \in [F!CreatorIds -> Int]
        /\ records' \in [F!TipIds -> [from : F!Addresses \cup {0}, to : F!CreatorIds \cup {0},
                                 amount : Nat, at : 0 .. MaxTime]]
        /\ tipCount' \in 0 .. MaxRecords /\ tipsVolume' \in Nat
    BY <1>1, <2>1, CreditSupport
  <2>5. /\ scheduled' \in [F!ScheduledIds -> [from : F!Addresses \cup {0}, to : F!CreatorIds \cup {0},
             amount : Nat, at : 0 .. MaxTime,
             status : {"unused", "locked", "delivered", "cancelled"}]]
        /\ UNCHANGED <<xlm, scheduledCount>>
    BY <1>3, <1>4 DEF F!DeliverScheduledTip
  <2>6. UNCHANGED <<F!clockVars, profile, F!refundVars, feesCollected, writtenOff>>
    BY <2>1 DEF F!CreditTip
  <2>7. F!TypeOK'
    BY <2>4, <2>5, <2>6 DEF F!TypeOK, F!clockVars, F!refundVars
  <2> QED
    BY <2>2, <2>3, <2>7
<1>5. CASE F!CancelScheduledTip(s)
  <2> USE DEF F!clockVars, F!profileVars, F!tipVars, F!refundVars
  <2>1. PauseClock' /\ RecordsInUse'
    BY <1>3, <1>5 DEF PauseClock, RecordsInUse, F!CancelScheduledTip
  <2>2. xlm' \in Nat /\ feesCollected' \in Nat
    BY <1>1, <1>5, CancelFee DEF F!TypeOK, F!CancelScheduledTip, F!PoolCovers
  <2>3. F!TypeOK'
    BY <1>3, <1>5, <2>2 DEF F!TypeOK, F!CancelScheduledTip
  <2> QED
    BY <2>1, <2>3
<1> QED
  BY <1>4, <1>5 DEF F!ScheduledStep

LEMMA RefundSupport ==
  ASSUME Support, NEW t \in F!TipIds, F!RefundStep(t)
  PROVE  Support'
<1> USE DEF Support, F!clockVars, F!profileVars, F!tipVars, F!refundVars, F!scheduledVars
<1> DEFINE Refunds == [F!TipIds -> [status : F!Statuses, at : 0 .. MaxTime, kept : Nat]]
<1>1. refunds[t].kept \in Nat /\ records[t].amount \in Nat /\ refunds \in Refunds
  BY DEF F!TypeOK
<1>2. ASSUME NEW bps \in RefundFeeRates, F!RequestRefund(t, bps) PROVE Support'
  <2>1. F!NonRefundableFee(records[t].amount, bps) \in Nat
    BY <1>1, KeptFee
  <2>2. refunds' \in Refunds
    BY <1>2, <2>1 DEF F!TypeOK, F!RequestRefund, F!Statuses
  <2>3. F!TypeOK'
    BY <1>2, <2>2 DEF F!TypeOK, F!RequestRefund
  <2>4. RecordsInUse' /\ PauseClock'
    BY <1>1, <1>2 DEF RecordsInUse, PauseClock, F!RequestRefund
  <2> QED
    BY <2>3, <2>4
<1>3. ASSUME NEW status \in F!PaidStatuses, F!ProcessRefund(t, status) PROVE Support'
  <2>1. refunds' \in Refunds /\ refunds[t].status = "pending"
    BY <1>1, <1>3 DEF F!ProcessRefund, F!RefundPending, F!Statuses, F!PaidStatuses
  <2>2. xlm' \in Nat /\ keptFees' \in Nat
    BY <1>1, <1>3 DEF F!TypeOK, F!ProcessRefund, F!RefundAmount, F!PoolCovers
  <2>3. balance' \in [F!CreatorIds -> Int] /\ received' \in [F!CreatorIds -> Int]
    <3>1. records[t].to \in F!CreatorIds
      BY <2>1 DEF RecordsInUse
    <3> QED
      BY <1>1, <1>3, <3>1 DEF F!TypeOK, F!ProcessRefund
  <2>4. refundsPaid' \in [F!TipIds -> Nat]
    BY <1>3 DEF F!TypeOK, F!ProcessRefund
  <2>5. F!TypeOK'
    BY <1>3, <2>1, <2>2, <2>3, <2>4 DEF F!TypeOK, F!ProcessRefund
  <2>6. RecordsInUse' /\ PauseClock'
    BY <1>1, <1>3, <2>1 DEF RecordsInUse, PauseClock, F!ProcessRefund
  <2> QED
    BY <2>5, <2>6
<1>4. CASE F!RejectRefund(t) \/ F!ExpireRefund(t)
  <2>1. refunds' \in Refunds
    <3>1. CASE F!RejectRefund(t)
      BY <1>1, <3>1 DEF F!RejectRefund, F!Statuses
    <3>2. CASE F!ExpireRefund(t)
      <4>1. F!NoRefund \in [status : F!Statuses, at : 0 .. MaxTime, kept : Nat]
        BY CountsAre DEF F!NoRefund, F!Statuses
      <4> QED
        BY <1>1, <3>2, <4>1 DEF F!ExpireRefund
    <3> QED
      BY <1>4, <3>1, <3>2
  <2>2. F!TypeOK'
    BY <1>4, <2>1 DEF F!TypeOK, F!RejectRefund, F!ExpireRefund
  <2>3. RecordsInUse' /\ PauseClock'
    BY <1>1, <1>4 DEF RecordsInUse, PauseClock, F!RejectRefund, F!ExpireRefund, F!NoRefund, F!RefundPending
  <2> QED
    BY <2>2, <2>3
<1> QED
  BY <1>2, <1>3, <1>4 DEF F!RefundStep, F!ApproveRefund, F!AutoApproveRefund, F!PaidStatuses

LEMMA SupportStep == Support /\ [F!Next]_(F!vars) => Support'
<1>1. CASE UNCHANGED F!vars
  BY <1>1 DEF Support, F!TypeOK, RecordsInUse, PauseClock, F!vars, F!clockVars, F!profileVars, F!tipVars,
              F!refundVars, F!scheduledVars
<1>2. CASE F!Next
  BY <1>2, TickSupport, PauseSupport, ProfileSupport, PayoutSupport, TipSupport,
     ScheduledSupport, RefundSupport DEF F!Next
<1> QED
  BY <1>1, <1>2

\* Every variable has the type of the storage entry it stands for, in every
\* reachable state and for all values of the constants.
THEOREM TypeCorrect == CustodySpec => [](focus = "funds" => F!TypeOK)
<1> DEFINE I == focus = "funds" => Support
<1>1. CustodyInit => I
  BY InitSupport DEF CustodyInit
<1>2. I /\ [CustodyNext]_custodyVars => I'
  BY FundsSteps, FocusKept, SupportStep
<1>3. I => (focus = "funds" => F!TypeOK)
  BY DEF Support
<1> HIDE DEF I
<1> QED
  BY <1>1, <1>2, <1>3, PTL DEF CustodySpec

-----------------------------------------------------------------------------
(* The books.                                                              *)

LEMMA BookTypes ==
  ASSUME F!TypeOK
  PROVE  /\ NumCreators \in Nat /\ balance \in [1 .. NumCreators -> Int]
         /\ MaxScheduled \in Nat /\ F!Held \in [1 .. MaxScheduled -> Int]
         /\ F!TotalBalance \in Int /\ F!Escrow \in Int
<1>1. NumCreators \in Nat /\ balance \in [1 .. NumCreators -> Int]
  BY CountsAre DEF F!TypeOK, F!CreatorIds
<1>2. MaxScheduled \in Nat /\ F!Held \in [1 .. MaxScheduled -> Int]
  BY CountsAre DEF F!TypeOK, F!Held, F!ScheduledIds
<1> QED
  BY <1>1, <1>2, SumToInt, SumsAgree DEF F!TotalBalance, F!Escrow

\* Moving one balance moves the total.
LEMMA BalanceMoved ==
  ASSUME F!TypeOK, NEW c \in F!CreatorIds, NEW delta \in Int,
         balance' = [balance EXCEPT ![c] = @ + delta]
  PROVE  F!TotalBalance' = F!TotalBalance + delta
<1>1. c \in 1 .. NumCreators /\ balance[c] \in Int
  BY DEF F!CreatorIds, F!TypeOK
<1>2. balance' \in [1 .. NumCreators -> Int] /\ balance'[c] = balance[c] + delta
  BY BookTypes, <1>1
<1>3. \A j \in (1 .. NumCreators) \ {c} : balance'[j] = balance[j]
  BY BookTypes, <1>1
<1>4. F!TotalBalance' = F!TotalBalance - balance[c] + balance'[c]
  <2>1. F!TotalBalance = SumTo(balance, NumCreators) /\ F!TotalBalance' = SumTo(balance', NumCreators)
    BY Zenon, SumsAgree DEF F!TotalBalance
  <2>2. NumCreators \in Nat /\ balance \in [1 .. NumCreators -> Int]
    BY BookTypes
  <2>3. SumTo(balance', NumCreators) = SumTo(balance, NumCreators) - balance[c] + balance'[c]
    BY <1>1, <1>2, <1>3, <2>2, SumToChange
  <2> QED
    BY <2>1, <2>3
<1> QED
  BY BookTypes, <1>1, <1>2, <1>4

LEMMA BalanceDebited ==
  ASSUME F!TypeOK, NEW c \in F!CreatorIds, NEW delta \in Int,
         balance' = [balance EXCEPT ![c] = @ - delta]
  PROVE  F!TotalBalance' = F!TotalBalance - delta
<1>1. c \in 1 .. NumCreators /\ balance[c] \in Int
  BY DEF F!CreatorIds, F!TypeOK
<1>2. balance' \in [1 .. NumCreators -> Int] /\ balance'[c] = balance[c] - delta
  BY BookTypes, <1>1
<1>3. \A j \in (1 .. NumCreators) \ {c} : balance'[j] = balance[j]
  BY BookTypes, <1>1
<1>4. F!TotalBalance' = F!TotalBalance - balance[c] + balance'[c]
  <2>1. F!TotalBalance = SumTo(balance, NumCreators) /\ F!TotalBalance' = SumTo(balance', NumCreators)
    BY Zenon, SumsAgree DEF F!TotalBalance
  <2>2. NumCreators \in Nat /\ balance \in [1 .. NumCreators -> Int]
    BY BookTypes
  <2>3. SumTo(balance', NumCreators) = SumTo(balance, NumCreators) - balance[c] + balance'[c]
    BY <1>1, <1>2, <1>3, <2>2, SumToChange
  <2> QED
    BY <2>1, <2>3
<1> QED
  BY BookTypes, <1>1, <1>2, <1>4

\* Changing one scheduled tip moves the escrow.
LEMMA EscrowMoved ==
  ASSUME F!TypeOK, F!TypeOK', NEW s \in F!ScheduledIds,
         \A j \in F!ScheduledIds \ {s} : scheduled'[j] = scheduled[j]
  PROVE  F!Escrow' = F!Escrow - F!Held[s] + F!Held'[s]
<1>1. F!Held \in [1 .. MaxScheduled -> Int] /\ F!Held' \in [1 .. MaxScheduled -> Int]
  <2>1. F!Held \in [1 .. MaxScheduled -> Int]
    BY BookTypes
  <2>2. \A j \in F!ScheduledIds : scheduled'[j].amount \in Int
    BY DEF F!TypeOK
  <2>3. F!Held' \in [1 .. MaxScheduled -> Int]
    BY <2>2 DEF F!Held, F!ScheduledIds
  <2> QED
    BY <2>1, <2>3
<1>2. \A j \in (1 .. MaxScheduled) \ {s} : F!Held'[j] = F!Held[j]
  BY DEF F!Held, F!ScheduledIds
<1>3. s \in 1 .. MaxScheduled
  BY DEF F!ScheduledIds
<1>4. MaxScheduled \in Nat
  BY CountsAre
<1> QED
  BY <1>1, <1>2, <1>3, <1>4, SumToChange, SumsAgree DEF F!Escrow

LEMMA InitBooks == F!Init => F!BooksBalance
<1> SUFFICES ASSUME F!Init PROVE F!BooksBalance
  OBVIOUS
<1>1. F!TypeOK
  BY InitSupport DEF Support
<1>2. F!TotalBalance = 0
  BY <1>1, BookTypes, SumToZero, SumsAgree DEF F!TotalBalance, F!Init, F!CreatorIds
<1>3. \A j \in 1 .. MaxScheduled : F!Held[j] = 0
  BY DEF F!Init, F!Held, F!ScheduledIds, F!NoScheduled
<1>4. F!Escrow = 0
  BY <1>1, <1>3, BookTypes, SumToZero, SumsAgree DEF F!Escrow
<1> QED
  BY <1>2, <1>4 DEF F!BooksBalance, F!Init

\* Steps that touch neither side of the books.
LEMMA QuietBooks ==
  ASSUME F!BooksBalance, UNCHANGED <<xlm, balance, scheduled, keptFees, writtenOff>>
  PROVE  F!BooksBalance'
BY DEF F!BooksBalance, F!TotalBalance, F!Escrow, F!Held

LEMMA ProfileBooks ==
  ASSUME Support, F!BooksBalance, NEW c \in F!CreatorIds, F!ProfileStep(c)
  PROVE  F!BooksBalance'
<1>1. CASE F!RegisterProfile(c) \/ F!DeactivateProfile(c) \/ F!ReactivateProfile(c)
  BY <1>1, QuietBooks DEF F!RegisterProfile, F!DeactivateProfile, F!ReactivateProfile, F!refundVars, F!scheduledVars
<1>2. CASE F!RemoveProfile(c)
  <2>1. F!TypeOK /\ balance[c] \in Int /\ F!Escrow \in Int /\ F!TotalBalance \in Int
    BY BookTypes DEF Support, F!TypeOK
  <2> DEFINE debt == balance[c]
  <2>2. balance' = [balance EXCEPT ![c] = @ - debt]
    <3>1. debt - debt = 0
      BY <2>1
    <3>2. balance' = [balance EXCEPT ![c] = 0]
      BY <1>2 DEF F!RemoveProfile
    <3> QED
      BY <3>1, <3>2
  <2>3. F!TotalBalance' = F!TotalBalance - balance[c]
    BY <2>1, <2>2, BalanceDebited
  <2>4. writtenOff' = writtenOff - balance[c] /\ UNCHANGED <<xlm, keptFees>> /\ F!Escrow' = F!Escrow
    BY <1>2 DEF F!RemoveProfile, F!refundVars, F!scheduledVars, F!Escrow, F!Held
  <2>5. xlm \in Int /\ keptFees \in Int /\ writtenOff \in Int
    BY <2>1 DEF F!TypeOK
  <2> QED
    BY <2>1, <2>3, <2>4, <2>5 DEF F!BooksBalance
<1> QED
  BY <1>1, <1>2 DEF F!ProfileStep, F!DeregisterProfile, F!CleanupInactiveProfile

LEMMA PayoutBooks ==
  ASSUME Support, F!BooksBalance, NEW c \in F!CreatorIds, NEW amount \in WithdrawAmounts, F!PayoutStep(c, amount)
  PROVE  F!BooksBalance'
<1>1. amount \in Nat
  BY AmountsAre
<1>2. F!TypeOK /\ F!Escrow \in Int /\ F!TotalBalance \in Int
  BY BookTypes DEF Support
<1>3. xlm \in Int /\ keptFees \in Int /\ writtenOff \in Int /\ balance[c] \in Int
  BY <1>2 DEF F!TypeOK
<1>4. ASSUME NEW gross \in Int, balance' = [balance EXCEPT ![c] = @ - gross], xlm' = xlm - gross,
             UNCHANGED <<F!refundVars, F!scheduledVars, writtenOff>>
      PROVE  F!BooksBalance'
  <2>1. F!TotalBalance' = F!TotalBalance - gross
    BY <1>2, <1>4, BalanceDebited
  <2>2. UNCHANGED <<keptFees, writtenOff>> /\ F!Escrow' = F!Escrow
    BY <1>4 DEF F!refundVars, F!scheduledVars, F!Escrow, F!Held
  <2> QED
    BY <1>2, <1>3, <1>4, <2>1, <2>2 DEF F!BooksBalance
<1>5. ASSUME NEW bps \in FeeRates, F!WithdrawTips(c, amount, bps) PROVE F!BooksBalance'
  <2>1. F!GrossWithdrawal(c, amount) \in Int
    BY <1>1, <1>3 DEF F!GrossWithdrawal
  <2> QED
    BY <1>4, <1>5, <2>1 DEF F!WithdrawTips
<1>6. CASE F!EmergencyWithdrawTips(c, amount)
  <2>1. /\ amount \in Int /\ balance' = [balance EXCEPT ![c] = @ - amount]
        /\ xlm' = xlm - amount /\ UNCHANGED <<F!refundVars, F!scheduledVars, writtenOff>>
    BY <1>1, <1>6 DEF F!EmergencyWithdrawTips
  <2> QED
    BY <2>1, <1>4
<1> QED
  BY <1>5, <1>6 DEF F!PayoutStep

LEMMA TipBooks ==
  ASSUME Support, F!BooksBalance, F!TypeOK', NEW a \in F!Addresses, NEW c \in F!CreatorIds,
         NEW amount \in TipAmounts, F!TipStep(a, c, amount)
  PROVE  F!BooksBalance'
<1>1. amount \in Int
  BY AmountsAre
<1>2. F!TypeOK /\ F!Escrow \in Int /\ F!TotalBalance \in Int
  BY BookTypes DEF Support
<1>3. xlm \in Int /\ keptFees \in Int /\ writtenOff \in Int
  BY <1>2 DEF F!TypeOK
<1>4. CASE \/ F!SendTip(a, c, amount)
           \/ \E b \in F!Addresses : F!SendTipOnBehalf(a, b, c, amount)
  <2>1. F!CreditTip(a, c, amount) /\ xlm' = xlm + amount /\ UNCHANGED F!scheduledVars
    BY <1>4 DEF F!SendTip, F!SendTipOnBehalf
  <2>2. F!TotalBalance' = F!TotalBalance + amount
    BY <1>1, <1>2, <2>1, BalanceMoved DEF F!CreditTip
  <2>3. UNCHANGED <<keptFees, writtenOff>> /\ F!Escrow' = F!Escrow
    BY <2>1 DEF F!CreditTip, F!refundVars, F!scheduledVars, F!Escrow, F!Held
  <2> QED
    BY <1>1, <1>2, <1>3, <2>1, <2>2, <2>3 DEF F!BooksBalance
<1>5. ASSUME NEW at \in 0 .. MaxTime, F!SendScheduledTip(a, c, amount, at) PROVE F!BooksBalance'
  <2> DEFINE new == scheduledCount + 1
  <2>1. new \in F!ScheduledIds /\ scheduled[new].status = "unused"
    BY <1>5, CountsAre DEF Support, F!TypeOK, RecordsInUse, F!SendScheduledTip, F!ScheduledIds
  <2>2. /\ \A j \in F!ScheduledIds \ {new} : scheduled'[j] = scheduled[j]
        /\ scheduled'[new].status = "locked" /\ scheduled'[new].amount = amount
    BY <1>2, <1>5, <2>1 DEF F!SendScheduledTip, F!TypeOK
  <2> HIDE DEF new
  <2>3. F!Held[new] = 0 /\ F!Held'[new] = amount
    BY <2>1, <2>2 DEF F!Held
  <2>4. F!Escrow' = F!Escrow - F!Held[new] + F!Held'[new]
    BY <1>2, <2>1, <2>2, EscrowMoved
  <2>5. /\ xlm' = xlm + amount /\ UNCHANGED <<keptFees, writtenOff>>
        /\ F!TotalBalance' = F!TotalBalance
    BY <1>5 DEF F!SendScheduledTip, F!refundVars, F!profileVars, F!TotalBalance
  <2> QED
    BY <1>1, <1>2, <1>3, <2>3, <2>4, <2>5 DEF F!BooksBalance
<1> QED
  BY <1>4, <1>5 DEF F!TipStep

LEMMA ScheduledBooks ==
  ASSUME Support, F!BooksBalance, F!TypeOK', NEW s \in F!ScheduledIds, F!ScheduledStep(s)
  PROVE  F!BooksBalance'
<1> DEFINE amount == scheduled[s].amount
<1>1. F!TypeOK /\ F!Escrow \in Int /\ F!TotalBalance \in Int
  BY BookTypes DEF Support
<1>2. xlm \in Int /\ keptFees \in Int /\ writtenOff \in Int /\ amount \in Int
  BY <1>1 DEF F!TypeOK
<1>3. ASSUME NEW status \in {"delivered", "cancelled"}, scheduled[s].status = "locked",
             scheduled' = [scheduled EXCEPT ![s].status = status]
      PROVE  F!Escrow' = F!Escrow - amount
  <2>1. /\ \A j \in F!ScheduledIds \ {s} : scheduled'[j] = scheduled[j]
        /\ scheduled'[s].status = status
    BY <1>1, <1>3 DEF F!TypeOK
  <2>2. F!Held[s] = amount /\ F!Held'[s] = 0
    BY <1>3, <2>1 DEF F!Held
  <2>3. F!Escrow' = F!Escrow - F!Held[s] + F!Held'[s]
    BY <1>1, <2>1, EscrowMoved
  <2> HIDE DEF amount
  <2> QED
    BY <1>1, <1>2, <2>2, <2>3
<1>4. CASE F!DeliverScheduledTip(s)
  <2>1. scheduled[s].status = "locked" /\ F!Escrow' = F!Escrow - amount
    BY <1>3, <1>4 DEF F!DeliverScheduledTip
  <2>2. F!CreditTip(scheduled[s].from, scheduled[s].to, amount) /\ scheduled[s].to \in F!CreatorIds
    BY <1>4, <2>1 DEF F!DeliverScheduledTip, Support, RecordsInUse
  <2> HIDE DEF amount
  <2>3. F!TotalBalance' = F!TotalBalance + amount
    BY <1>1, <1>2, <2>2, BalanceMoved DEF F!CreditTip
  <2>4. UNCHANGED <<xlm, keptFees, writtenOff>>
    BY <1>4 DEF F!DeliverScheduledTip, F!CreditTip, F!refundVars
  <2> QED
    BY <1>1, <1>2, <2>1, <2>3, <2>4 DEF F!BooksBalance
<1>5. CASE F!CancelScheduledTip(s)
  <2>1. F!Escrow' = F!Escrow - amount /\ xlm' = xlm - amount
    BY <1>3, <1>5 DEF F!CancelScheduledTip
  <2>2. F!TotalBalance' = F!TotalBalance /\ UNCHANGED <<keptFees, writtenOff>>
    BY <1>5 DEF F!CancelScheduledTip, F!profileVars, F!refundVars, F!TotalBalance
  <2> HIDE DEF amount
  <2> QED
    BY <1>1, <1>2, <2>1, <2>2 DEF F!BooksBalance
<1> QED
  BY <1>4, <1>5 DEF F!ScheduledStep

LEMMA RefundBooks ==
  ASSUME Support, F!BooksBalance, NEW t \in F!TipIds, F!RefundStep(t)
  PROVE  F!BooksBalance'
<1>1. CASE (\E bps \in RefundFeeRates : F!RequestRefund(t, bps)) \/ F!RejectRefund(t) \/ F!ExpireRefund(t)
  BY <1>1, QuietBooks DEF F!RequestRefund, F!RejectRefund, F!ExpireRefund, F!profileVars, F!scheduledVars
<1>2. ASSUME NEW status \in F!PaidStatuses, F!ProcessRefund(t, status) PROVE F!BooksBalance'
  <2> DEFINE c == records[t].to
             amount == records[t].amount
             kept == refunds[t].kept
  <2>1. F!TypeOK /\ F!Escrow \in Int /\ F!TotalBalance \in Int
    BY BookTypes DEF Support
  <2>2. xlm \in Int /\ keptFees \in Int /\ writtenOff \in Int /\ amount \in Int /\ kept \in Int
    BY <2>1 DEF F!TypeOK
  <2>3. c \in F!CreatorIds
    BY <1>2 DEF Support, RecordsInUse, F!ProcessRefund, F!RefundPending
  <2>4. /\ balance' = [balance EXCEPT ![c] = @ - amount]
        /\ xlm' = xlm - (amount - kept) /\ keptFees' = keptFees + kept
        /\ UNCHANGED <<F!scheduledVars, writtenOff>>
    BY <1>2 DEF F!ProcessRefund, F!RefundAmount
  <2> HIDE DEF c, amount, kept
  <2>5. F!TotalBalance' = F!TotalBalance - amount
    BY <2>1, <2>2, <2>3, <2>4, BalanceDebited
  <2>6. F!Escrow' = F!Escrow
    BY <2>4 DEF F!scheduledVars, F!Escrow, F!Held
  <2> QED
    BY <2>1, <2>2, <2>4, <2>5, <2>6 DEF F!BooksBalance
<1> QED
  BY <1>1, <1>2 DEF F!RefundStep, F!ApproveRefund, F!AutoApproveRefund, F!PaidStatuses

LEMMA BooksStep == Support /\ F!BooksBalance /\ [F!Next]_(F!vars) => F!BooksBalance'
<1> SUFFICES ASSUME Support, F!BooksBalance, [F!Next]_(F!vars) PROVE F!BooksBalance'
  OBVIOUS
<1> USE DEF F!profileVars, F!refundVars, F!scheduledVars
<1>1. F!TypeOK'
  BY SupportStep DEF Support
<1>2. CASE UNCHANGED F!vars
  BY <1>2, QuietBooks DEF F!vars
<1>3. CASE F!Tick
  BY <1>3, QuietBooks DEF F!Tick
<1>4. ASSUME NEW mask \in F!PauseMasks, F!Pause(mask) \/ F!Unpause(mask) PROVE F!BooksBalance'
  BY <1>4, QuietBooks DEF F!Pause, F!Unpause, F!SetPauseFlags
<1> QED
  BY <1>1, <1>2, <1>3, <1>4, ProfileBooks, PayoutBooks, TipBooks, ScheduledBooks, RefundBooks DEF F!Next

\* The pool always equals the books: what the contract holds is the creators'
\* balances, the escrowed tips and the fees kept from refunds, less the debts it
\* wrote off; no entry point creates or loses a stroop.
THEOREM PoolMatchesBooks == CustodySpec => []BooksBalance
<1> DEFINE I == focus = "funds" => Support /\ F!BooksBalance
<1>1. CustodyInit => I
  BY InitSupport, InitBooks DEF CustodyInit
<1>2. I /\ [CustodyNext]_custodyVars => I'
  BY FundsSteps, FocusKept, SupportStep, BooksStep
<1>3. I => BooksBalance
  BY DEF BooksBalance
<1> HIDE DEF I
<1> QED
  BY <1>1, <1>2, <1>3, PTL DEF CustodySpec

-----------------------------------------------------------------------------
(* Refunds are paid once.                                                  *)

LEMMA InitOnce == F!Init => F!RefundedOnce
BY DEF F!Init, F!RefundedOnce, F!NoRefund, F!PaidStatuses

LEMMA OnceStep ==
  ASSUME F!TypeOK, F!RefundedOnce, NEW t \in F!TipIds, F!RefundStep(t)
  PROVE  F!RefundedOnce'
<1>1. CASE (\E bps \in RefundFeeRates : F!RequestRefund(t, bps)) \/ F!RejectRefund(t) \/ F!ExpireRefund(t)
  <2>1. UNCHANGED refundsPaid /\ refunds[t].status \notin F!PaidStatuses
    BY <1>1 DEF F!RequestRefund, F!RejectRefund, F!ExpireRefund, F!RefundPending, F!PaidStatuses
  <2>2. refunds'[t].status \notin F!PaidStatuses /\ \A u \in F!TipIds \ {t} : refunds'[u] = refunds[u]
    BY <1>1 DEF F!TypeOK, F!RequestRefund, F!RejectRefund, F!ExpireRefund, F!PaidStatuses, F!NoRefund
  <2> QED
    BY <2>1, <2>2 DEF F!RefundedOnce
<1>2. ASSUME NEW status \in F!PaidStatuses, F!ProcessRefund(t, status) PROVE F!RefundedOnce'
  <2>1. refunds[t].status \notin F!PaidStatuses /\ refunds'[t].status = status
    BY <1>2 DEF F!ProcessRefund, F!RefundPending, F!TypeOK, F!PaidStatuses
  <2>2. refundsPaid[t] = 0 /\ refundsPaid'[t] = 1
    BY <1>2, <2>1 DEF F!RefundedOnce, F!ProcessRefund, F!TypeOK
  <2>3. \A u \in F!TipIds \ {t} : refunds'[u] = refunds[u] /\ refundsPaid'[u] = refundsPaid[u]
    BY <1>2 DEF F!ProcessRefund, F!TypeOK
  <2> QED
    BY <1>2, <2>1, <2>2, <2>3 DEF F!RefundedOnce
<1> QED
  BY <1>1, <1>2 DEF F!RefundStep, F!ApproveRefund, F!AutoApproveRefund, F!PaidStatuses

\* Every step but a refund step leaves the requests and the payments alone.
LEMMA RefundsUntouched ==
  ASSUME [F!Next]_(F!vars)
  PROVE  UNCHANGED F!refundVars \/ \E t \in F!TipIds : F!RefundStep(t)
<1>1. CASE UNCHANGED F!vars
  BY <1>1 DEF F!vars
<1>2. CASE F!Tick \/ \E mask \in F!PauseMasks : F!Pause(mask) \/ F!Unpause(mask)
  BY <1>2 DEF F!Tick, F!Pause, F!Unpause, F!SetPauseFlags
<1>3. ASSUME NEW c \in F!CreatorIds, F!ProfileStep(c) PROVE UNCHANGED F!refundVars
  BY <1>3 DEF F!ProfileStep, F!RegisterProfile, F!DeactivateProfile, F!ReactivateProfile,
              F!DeregisterProfile, F!CleanupInactiveProfile, F!RemoveProfile
<1>4. ASSUME NEW c \in F!CreatorIds, NEW amount \in WithdrawAmounts, F!PayoutStep(c, amount)
      PROVE  UNCHANGED F!refundVars
  BY <1>4 DEF F!PayoutStep, F!WithdrawTips, F!EmergencyWithdrawTips
<1>5. ASSUME NEW a \in F!Addresses, NEW c \in F!CreatorIds, NEW amount \in TipAmounts,
             F!TipStep(a, c, amount)
      PROVE  UNCHANGED F!refundVars
  BY <1>5 DEF F!TipStep, F!SendTip, F!SendTipOnBehalf, F!SendScheduledTip, F!CreditTip
<1>6. ASSUME NEW s \in F!ScheduledIds, F!ScheduledStep(s) PROVE UNCHANGED F!refundVars
  BY <1>6 DEF F!ScheduledStep, F!DeliverScheduledTip, F!CancelScheduledTip, F!CreditTip
<1> QED
  BY <1>1, <1>2, <1>3, <1>4, <1>5, <1>6 DEF F!Next

LEMMA OnceKept ==
  ASSUME Support, F!RefundedOnce, [F!Next]_(F!vars)
  PROVE  F!RefundedOnce'
<1>1. CASE UNCHANGED F!refundVars
  BY <1>1 DEF F!refundVars, F!RefundedOnce
<1>2. ASSUME NEW t \in F!TipIds, F!RefundStep(t) PROVE F!RefundedOnce'
  BY <1>2, OnceStep DEF Support
<1> QED
  BY <1>1, <1>2, RefundsUntouched

\* No interleaving of requests, approvals, sweeps, rejections and expiries pays a
\* tip back twice, and a tip is paid back exactly when its request says so.
THEOREM NoDoubleRefund == CustodySpec => []RefundedOnce
<1> DEFINE I == focus = "funds" => Support /\ F!RefundedOnce
<1>1. CustodyInit => I
  BY InitSupport, InitOnce DEF CustodyInit
<1>2. I /\ [CustodyNext]_custodyVars => I'
  BY FundsSteps, FocusKept, SupportStep, OnceKept
<1>3. I => RefundedOnce
  BY DEF RefundedOnce
<1> HIDE DEF I
<1> QED
  BY <1>1, <1>2, <1>3, PTL DEF CustodySpec

-----------------------------------------------------------------------------
(* The pause.                                                              *)

LEMMA PausedBlocksAll ==
  ASSUME F!TypeOK, pauseFlags # {}
  PROVE  F!IsPaused(PauseBits) /\ ~ F!RequireNotPaused
BY DEF F!TypeOK, F!IsPaused, F!IsSet, F!RequireNotPaused

LEMMA PausedPaysOut ==
  ASSUME Support, F!Next, pauseFlags # {}, xlm' < xlm
  PROVE  F!EmergencyExit
<1>1. F!TypeOK /\ xlm \in Int /\ ~ (xlm < xlm)
  BY DEF Support, F!TypeOK
<1>2. F!IsPaused(PauseBits) /\ ~ F!RequireNotPaused
  BY <1>1, PausedBlocksAll
<1>3. CASE xlm' = xlm
  BY <1>1, <1>3
<1>4. ASSUME NEW c \in F!CreatorIds, NEW amount \in WithdrawAmounts, F!PayoutStep(c, amount)
      PROVE  F!EmergencyExit
  <2>1. F!EmergencyWithdrawTips(c, amount)
    BY <1>2, <1>4 DEF F!PayoutStep, F!WithdrawTips
  <2>2. amount \in Int /\ balance[c] \in Int /\ balance \in [F!CreatorIds -> Int]
    <3>1. amount \in Int
      BY AmountsAre
    <3>2. balance \in [F!CreatorIds -> Int]
      BY <1>1 DEF F!TypeOK
    <3> QED
      BY <3>1, <3>2
  <2>3. balance'[c] = balance[c] - amount /\ xlm' = xlm - amount /\ amount <= balance[c]
    BY <2>1, <2>2 DEF F!EmergencyWithdrawTips, F!BalanceCovers
  <2>4. balance[c] - balance'[c] = xlm - xlm' /\ balance'[c] >= 0
    BY <1>1, <2>2, <2>3
  <2>5. now >= pausedAt + EmergencyDelay
    BY <2>1 DEF F!EmergencyWithdrawTips, F!EmergencyDelayOver
  <2> QED
    BY <2>4, <2>5 DEF F!EmergencyExit
<1>5. ASSUME NEW a \in F!Addresses, NEW c \in F!CreatorIds, NEW amount \in TipAmounts,
             F!TipStep(a, c, amount)
      PROVE  FALSE
  BY <1>2, <1>5 DEF F!TipStep, F!SendTip, F!SendTipOnBehalf, F!SendScheduledTip
<1>6. ASSUME NEW s \in F!ScheduledIds, F!ScheduledStep(s) PROVE FALSE
  BY <1>2, <1>6 DEF F!ScheduledStep, F!DeliverScheduledTip, F!CancelScheduledTip
<1>7. ASSUME NEW t \in F!TipIds, F!RefundStep(t) PROVE FALSE
  BY <1>2, <1>7 DEF F!RefundStep, F!RequestRefund, F!ApproveRefund, F!AutoApproveRefund,
                    F!RejectRefund, F!ExpireRefund
<1>8. ASSUME NEW c \in F!CreatorIds, F!ProfileStep(c) PROVE xlm' = xlm
  BY <1>8 DEF F!ProfileStep, F!RegisterProfile, F!DeactivateProfile, F!ReactivateProfile,
              F!DeregisterProfile, F!CleanupInactiveProfile, F!RemoveProfile
<1>9. ASSUME F!Tick \/ \E mask \in F!PauseMasks : F!Pause(mask) \/ F!Unpause(mask) PROVE xlm' = xlm
  BY <1>9 DEF F!Tick, F!Pause, F!Unpause, F!SetPauseFlags
<1> QED
  BY <1>3, <1>4, <1>5, <1>6, <1>7, <1>8, <1>9 DEF F!Next

\* While any flag is set, no XLM leaves the contract except by an emergency
\* withdrawal after the delay, out of the withdrawing creator's own balance.
THEOREM PauseHoldsFunds == CustodySpec => OnlyEmergencyExitWhilePaused
<1> DEFINE I == focus = "funds" => Support
<1>1. CustodyInit => I
  BY InitSupport DEF CustodyInit
<1>2. I /\ [CustodyNext]_custodyVars => I'
  BY FundsSteps, FocusKept, SupportStep
<1>3. I /\ [CustodyNext]_custodyVars => [pauseFlags # {} /\ xlm' < xlm => F!EmergencyExit]_(F!vars)
  BY FundsMove, PausedPaysOut
<1> HIDE DEF I
<1> QED
  BY <1>1, <1>2, <1>3, PTL DEF CustodySpec, OnlyEmergencyExitWhilePaused, F!OnlyEmergencyExitWhilePaused

-----------------------------------------------------------------------------
(* Debts.                                                                  *)

LEMMA RefundedTypes ==
  ASSUME F!TypeOK, NEW c
  PROVE  /\ MaxRecords \in Nat /\ F!RefundedTips(c) \in [1 .. MaxRecords -> Int]
         /\ F!RefundedFrom(c) \in Int /\ F!RefundedFrom(c) >= 0
<1> DEFINE zeros == [t \in 1 .. MaxRecords |-> 0]
<1>1. MaxRecords \in Nat
  BY CountsAre
<1>2. \A t \in 1 .. MaxRecords : records[t].amount \in Nat
  BY DEF F!TypeOK, F!TipIds
<1>3. /\ F!RefundedTips(c) \in [1 .. MaxRecords -> Int]
      /\ \A t \in 1 .. MaxRecords : F!RefundedTips(c)[t] >= 0
  BY <1>2 DEF F!RefundedTips, F!TipIds
<1>4. /\ zeros \in [1 .. MaxRecords -> Int]
      /\ \A t \in 1 .. MaxRecords : zeros[t] = 0 /\ zeros[t] <= F!RefundedTips(c)[t]
  BY <1>3
<1> HIDE DEF zeros
<1>5. SumTo(zeros, MaxRecords) = 0
  BY <1>1, <1>4, SumToZero
<1>6. SumTo(zeros, MaxRecords) <= SumTo(F!RefundedTips(c), MaxRecords)
  BY <1>1, <1>3, <1>4, SumToMonotone
<1>7. SumTo(F!RefundedTips(c), MaxRecords) \in Int
  BY <1>1, <1>3, SumToInt
<1> QED
  BY <1>1, <1>3, <1>5, <1>6, <1>7, SumsAgree DEF F!RefundedFrom

\* A step that keeps what was refunded from c and leaves it a balance that is no
\* lower, or not negative, keeps its debt bounded.
LEMMA DebtKept ==
  ASSUME F!TypeOK, F!TypeOK', NEW c \in F!CreatorIds, balance[c] + F!RefundedFrom(c) >= 0,
         F!RefundedTips(c)' = F!RefundedTips(c),
         balance'[c] >= balance[c] \/ balance'[c] >= 0
  PROVE  balance'[c] + F!RefundedFrom(c)' >= 0
<1>1. F!RefundedFrom(c)' = F!RefundedFrom(c)
  BY DEF F!RefundedFrom
<1>2. F!RefundedFrom(c) \in Int /\ F!RefundedFrom(c) >= 0
  BY RefundedTypes
<1>3. balance[c] \in Int /\ balance'[c] \in Int
  BY DEF F!TypeOK
<1> QED
  BY <1>1, <1>2, <1>3

\* Storing a tip in a fresh slot refunds nothing.
LEMMA FreshTip ==
  ASSUME Support, UNCHANGED refunds, NEW c,
         \A t \in F!TipIds : t <= tipCount => records'[t] = records[t]
  PROVE  F!RefundedTips(c)' = F!RefundedTips(c)
<1>1. \A t \in F!TipIds : refunds[t].status \in F!PaidStatuses => records'[t] = records[t]
  BY DEF Support, RecordsInUse, F!PaidStatuses
<1> QED
  BY <1>1 DEF F!RefundedTips

LEMMA BalanceSteps ==
  ASSUME Support, [F!Next]_(F!vars), ~ \E t \in F!TipIds : F!RefundStep(t), NEW c \in F!CreatorIds
  PROVE  /\ balance'[c] >= balance[c] \/ balance'[c] >= 0
         /\ UNCHANGED refunds /\ \A t \in F!TipIds : t <= tipCount => records'[t] = records[t]
<1>1. F!TypeOK /\ balance \in [F!CreatorIds -> Int] /\ tipCount \in Int /\ \A d \in F!CreatorIds : balance[d] \in Int
  BY DEF Support, F!TypeOK
<1>2. UNCHANGED refunds
  BY RefundsUntouched DEF F!refundVars
<1>3. ASSUME UNCHANGED <<balance, records>>
      PROVE  balance'[c] >= balance[c] /\ \A t \in F!TipIds : t <= tipCount => records'[t] = records[t]
  BY <1>1, <1>3
<1>4. CASE UNCHANGED F!vars
  BY <1>2, <1>3, <1>4 DEF F!vars, F!profileVars, F!tipVars
<1>5. CASE F!Tick \/ \E mask \in F!PauseMasks : F!Pause(mask) \/ F!Unpause(mask)
  BY <1>2, <1>3, <1>5 DEF F!Tick, F!Pause, F!Unpause, F!SetPauseFlags, F!profileVars, F!tipVars
<1>6. ASSUME NEW d \in F!CreatorIds, F!ProfileStep(d)
      PROVE  /\ balance'[c] >= balance[c] \/ balance'[c] >= 0
             /\ \A t \in F!TipIds : t <= tipCount => records'[t] = records[t]
  <2>1. CASE F!RegisterProfile(d) \/ F!DeactivateProfile(d) \/ F!ReactivateProfile(d)
    BY <1>3, <2>1 DEF F!RegisterProfile, F!DeactivateProfile, F!ReactivateProfile, F!tipVars
  <2>2. CASE F!RemoveProfile(d)
    BY <1>1, <2>2 DEF F!RemoveProfile, F!tipVars
  <2> QED
    BY <1>6, <2>1, <2>2 DEF F!ProfileStep, F!DeregisterProfile, F!CleanupInactiveProfile
<1>7. ASSUME NEW d \in F!CreatorIds, NEW amount \in WithdrawAmounts, F!PayoutStep(d, amount)
      PROVE  /\ balance'[c] >= balance[c] \/ balance'[c] >= 0
             /\ \A t \in F!TipIds : t <= tipCount => records'[t] = records[t]
  <2>1. UNCHANGED records
    BY <1>7 DEF F!PayoutStep, F!WithdrawTips, F!EmergencyWithdrawTips, F!tipVars
  <2>2. PICK gross \in Int : balance' = [balance EXCEPT ![d] = @ - gross] /\ gross <= balance[d]
    <3>1. amount \in Int
      BY AmountsAre
    <3>2. F!GrossWithdrawal(d, amount) \in Int
      BY <1>1, <3>1 DEF F!GrossWithdrawal
    <3> QED
      BY <1>7, <3>1, <3>2 DEF F!PayoutStep, F!WithdrawTips, F!EmergencyWithdrawTips, F!BalanceCovers
  <2>3. balance'[c] >= balance[c] \/ balance'[c] >= 0
    BY <1>1, <2>2
  <2> QED
    BY <2>1, <2>3
<1>8. ASSUME NEW a, NEW d \in F!CreatorIds, NEW amount \in Nat, F!CreditTip(a, d, amount)
      PROVE  /\ balance'[c] >= balance[c]
             /\ \A t \in F!TipIds : t <= tipCount => records'[t] = records[t]
  <2>1. balance'[c] >= balance[c]
    BY <1>1, <1>8 DEF F!CreditTip
  <2>2. \A t \in F!TipIds : t <= tipCount => t # tipCount + 1
    BY <1>1 DEF F!TipIds
  <2> QED
    BY <1>1, <1>8, <2>1, <2>2 DEF F!CreditTip, F!TypeOK
<1>9. ASSUME NEW a \in F!Addresses, NEW d \in F!CreatorIds, NEW amount \in TipAmounts,
             F!TipStep(a, d, amount)
      PROVE  /\ balance'[c] >= balance[c] \/ balance'[c] >= 0
             /\ \A t \in F!TipIds : t <= tipCount => records'[t] = records[t]
  <2>1. amount \in Nat
    BY AmountsAre
  <2>2. CASE \E at \in 0 .. MaxTime : F!SendScheduledTip(a, d, amount, at)
    BY <1>3, <2>2 DEF F!SendScheduledTip, F!profileVars, F!tipVars
  <2>3. CASE F!CreditTip(a, d, amount)
    BY <1>8, <2>1, <2>3
  <2> QED
    BY <1>9, <2>2, <2>3 DEF F!TipStep, F!SendTip, F!SendTipOnBehalf
<1>10. ASSUME NEW s \in F!ScheduledIds, F!ScheduledStep(s)
       PROVE  /\ balance'[c] >= balance[c] \/ balance'[c] >= 0
              /\ \A t \in F!TipIds : t <= tipCount => records'[t] = records[t]
  <2>1. CASE F!DeliverScheduledTip(s)
    <3>1. scheduled[s].to \in F!CreatorIds
      BY <2>1 DEF F!DeliverScheduledTip, Support, RecordsInUse
    <3>2. scheduled[s].amount \in Nat
      BY <1>1 DEF F!TypeOK
    <3>3. F!CreditTip(scheduled[s].from, scheduled[s].to, scheduled[s].amount)
      BY <2>1 DEF F!DeliverScheduledTip
    <3> QED
      BY <1>8, <3>1, <3>2, <3>3
  <2>2. CASE F!CancelScheduledTip(s)
    BY <1>3, <2>2 DEF F!CancelScheduledTip, F!profileVars, F!tipVars
  <2> QED
    BY <1>10, <2>1, <2>2 DEF F!ScheduledStep
<1> QED
  BY <1>2, <1>4, <1>5, <1>6, <1>7, <1>9, <1>10 DEF F!Next

LEMMA RefundDebt ==
  ASSUME Support, F!TypeOK', F!DebtBoundedByRefunds, NEW t \in F!TipIds, F!RefundStep(t)
  PROVE  F!DebtBoundedByRefunds'
<1>1. F!TypeOK
  BY DEF Support
<1>2. CASE (\E bps \in RefundFeeRates : F!RequestRefund(t, bps)) \/ F!RejectRefund(t) \/ F!ExpireRefund(t)
  <2>1. /\ refunds[t].status \notin F!PaidStatuses /\ refunds'[t].status \notin F!PaidStatuses
        /\ \A u \in F!TipIds \ {t} : refunds'[u] = refunds[u]
    BY <1>1, <1>2 DEF F!TypeOK, F!RequestRefund, F!RejectRefund, F!ExpireRefund, F!RefundPending,
                      F!PaidStatuses, F!NoRefund
  <2>2. UNCHANGED <<records, balance>>
    BY <1>2 DEF F!RequestRefund, F!RejectRefund, F!ExpireRefund, F!tipVars, F!profileVars
  <2>3. ASSUME NEW c \in F!CreatorIds PROVE F!RefundedTips(c)' = F!RefundedTips(c)
    BY <2>1, <2>2 DEF F!RefundedTips
  <2>4. \A c \in F!CreatorIds : F!RefundedFrom(c)' = F!RefundedFrom(c)
    BY <2>3 DEF F!RefundedFrom
  <2> QED
    BY <2>2, <2>4 DEF F!DebtBoundedByRefunds
<1>3. ASSUME NEW status \in F!PaidStatuses, F!ProcessRefund(t, status), NEW c \in F!CreatorIds
      PROVE  balance'[c] + F!RefundedFrom(c)' >= 0
  <2> DEFINE amount == records[t].amount
  <2>1. /\ refunds[t].status \notin F!PaidStatuses /\ refunds'[t].status = status
        /\ \A u \in F!TipIds \ {t} : refunds'[u] = refunds[u]
    BY <1>1, <1>3 DEF F!TypeOK, F!ProcessRefund, F!RefundPending, F!PaidStatuses
  <2>2. UNCHANGED records /\ amount \in Nat /\ records[t].to \in F!CreatorIds
    BY <1>1, <1>3 DEF F!ProcessRefund, F!RefundPending, F!tipVars, F!TypeOK, Support, RecordsInUse
  <2>3. \A u \in (1 .. MaxRecords) \ {t} : F!RefundedTips(c)'[u] = F!RefundedTips(c)[u]
    BY <2>1, <2>2 DEF F!RefundedTips, F!TipIds
  <2>4. t \in 1 .. MaxRecords /\ MaxRecords \in Nat
    BY CountsAre DEF F!TipIds
  <2>5. F!RefundedTips(c) \in [1 .. MaxRecords -> Int] /\ F!RefundedFrom(c) \in Int
    BY <1>1, RefundedTypes
  <2>6. F!RefundedTips(c)' \in [1 .. MaxRecords -> Int]
    <3>1. \A u \in F!TipIds : records'[u].amount \in Int
      BY DEF F!TypeOK
    <3> QED
      BY <3>1 DEF F!RefundedTips, F!TipIds
  <2>7. F!RefundedFrom(c)' = F!RefundedFrom(c) - F!RefundedTips(c)[t] + F!RefundedTips(c)'[t]
    BY <2>3, <2>4, <2>5, <2>6, SumToChange, SumsAgree DEF F!RefundedFrom
  <2>8. /\ F!RefundedTips(c)[t] = 0
        /\ F!RefundedTips(c)'[t] = IF records[t].to = c THEN amount ELSE 0
    BY <1>3, <2>1, <2>2 DEF F!RefundedTips
  <2>9. /\ balance[c] \in Int
        /\ balance'[c] = IF records[t].to = c THEN balance[c] - amount ELSE balance[c]
    BY <1>1, <1>3 DEF F!TypeOK, F!ProcessRefund
  <2>10. balance[c] + F!RefundedFrom(c) >= 0
    BY DEF F!DebtBoundedByRefunds
  <2> HIDE DEF amount
  <2> QED
    BY <2>2, <2>5, <2>7, <2>8, <2>9, <2>10
<1> QED
  BY <1>2, <1>3 DEF F!RefundStep, F!ApproveRefund, F!AutoApproveRefund, F!PaidStatuses,
                    F!DebtBoundedByRefunds

LEMMA InitDebts == F!Init => F!DebtBoundedByRefunds
<1> SUFFICES ASSUME F!Init, NEW c \in F!CreatorIds PROVE balance[c] + F!RefundedFrom(c) >= 0
  BY DEF F!DebtBoundedByRefunds
<1>1. F!RefundedFrom(c) \in Int /\ F!RefundedFrom(c) >= 0
  BY InitSupport, RefundedTypes DEF Support
<1> QED
  BY <1>1 DEF F!Init

LEMMA DebtsStep ==
  ASSUME Support, F!DebtBoundedByRefunds, [F!Next]_(F!vars)
  PROVE  F!DebtBoundedByRefunds'
<1>1. F!TypeOK /\ F!TypeOK'
  BY SupportStep DEF Support
<1>2. CASE \E t \in F!TipIds : F!RefundStep(t)
  BY <1>1, <1>2, RefundDebt
<1>3. CASE ~ \E t \in F!TipIds : F!RefundStep(t)
  <2> SUFFICES ASSUME NEW c \in F!CreatorIds PROVE balance'[c] + F!RefundedFrom(c)' >= 0
    BY DEF F!DebtBoundedByRefunds
  <2>1. F!RefundedTips(c)' = F!RefundedTips(c)
    BY <1>3, BalanceSteps, FreshTip
  <2>2. balance'[c] >= balance[c] \/ balance'[c] >= 0
    BY <1>3, BalanceSteps
  <2>3. balance[c] + F!RefundedFrom(c) >= 0
    BY DEF F!DebtBoundedByRefunds
  <2> QED
    BY <1>1, <2>1, <2>2, <2>3, DebtKept
<1> QED
  BY <1>2, <1>3

\* No operation but a refund can push a creator's balance below zero, and refunds
\* not further than the tips they give back.
THEOREM DebtsAreRefunds == CustodySpec => []DebtBoundedByRefunds
<1> DEFINE I == focus = "funds" => Support /\ F!DebtBoundedByRefunds
<1>1. CustodyInit => I
  BY InitSupport, InitDebts DEF CustodyInit
<1>2. I /\ [CustodyNext]_custodyVars => I'
  BY FundsSteps, FocusKept, SupportStep, DebtsStep
<1>3. I => DebtBoundedByRefunds
  BY DEF DebtBoundedByRefunds
<1> HIDE DEF I
<1> QED
  BY <1>1, <1>2, <1>3, PTL DEF CustodySpec
=============================================================================
