-------------------------- MODULE LogBufferProofs --------------------------
(***************************************************************************)
(* For any records, any batch size and any capacity of the channel: Create *)
(* behaves as an INSERT and Stop loses no record of the buffer.            *)
(***************************************************************************)
EXTENDS LogBuffer, SequenceTheorems, TLAPS

Unique(s) == \A i, k \in DOMAIN s : s[i] = s[k] => i = k

\* The ID in the record is that of its own row.
Stored(r) == id[r] \in DOMAIN rows /\ rows[id[r]] = r

\* The part of the type that the proofs need.
Shape ==
    /\ batcher \in BOOLEAN
    /\ pc \in [Recs -> {"new", "enqueue", "direct", "wait", "done"}]
    /\ answer \in [Recs -> {"none", "nil", "error"}]
    /\ id \in [Recs -> IDs]
    /\ ring \in Seq(Recs)
    /\ batch \in Seq(Recs)
    /\ inserted \in 0 .. Len(batch)
    /\ back \in {"loop", "drain", "exited"}
    /\ failed \in BOOLEAN
    /\ fpc \in {"off", "loop", "drain", "reset", "insert", "signal", "exited"}
    /\ signal \in [Recs -> {"none", "nil", "error"}]
    /\ idMap \in [Recs -> Nat]
    /\ rows \in Seq(Recs)
    /\ result \in [Recs -> Int]
    /\ stopCh \in BOOLEAN
    /\ early \in SUBSET Recs

\* A record whose call has not got past the first select is nowhere, and nobody has told it
\* anything; the answer comes with the end of the call.
Fresh ==
    \A r \in Recs :
        /\ pc[r] \in {"new", "enqueue", "direct"} =>
              /\ r \notin ToSet(ring) /\ r \notin ToSet(batch) /\ r \notin ToSet(rows)
              /\ signal[r] = "none"
        /\ pc[r] # "done" => answer[r] = "none"

\* A record is in one place: the channel, the part of the batch still to be inserted, the table.
Apart ==
    /\ Unique(ring) /\ Unique(batch) /\ Unique(rows)
    /\ \A r \in ToSet(ring) : r \notin ToSet(batch) /\ r \notin ToSet(rows)
    /\ fpc # "signal" => \A k \in DOMAIN batch : k > inserted => batch[k] \notin ToSet(rows)

\* Nobody has been told of a record that the buffer still holds.
Untold ==
    \A r \in Recs :
        r \in ToSet(ring) \/ r \in ToSet(batch) => signal[r] = "none" /\ answer[r] # "nil"

\* How far writeBatch is.
Progress ==
    /\ fpc \notin {"insert", "signal"} => inserted = 0
    /\ fpc = "insert" /\ batcher => inserted = 0
    /\ fpc \in {"reset", "insert"} => inserted < Len(batch)
    /\ fpc = "signal" /\ ~failed => inserted = Len(batch)

\* The inserted part of a batch that has not failed has the IDs of its rows, and so has every
\* record whose caller is told nil.
Written ==
    /\ fpc \in {"insert", "signal"} /\ ~failed => \A k \in 1 .. inserted : Stored(batch[k])
    /\ \A r \in Recs : signal[r] = "nil" \/ answer[r] = "nil" => Stored(r)

Results ==
    \A r \in Recs : result[r] # 0 => result[r] \in DOMAIN rows /\ rows[result[r]] = r

\* What was in the buffer at the close is still there or settled, and not in the channel once
\* the drain has found it empty.
Closing ==
    /\ fpc \in {"drain", "exited"} \/ back \in {"drain", "exited"} => stopCh
    /\ \A r \in early : r \in ToSet(ring) \/ r \in ToSet(batch) \/ signal[r] # "none"
    /\ fpc = "exited" \/ back = "exited" => \A r \in early : r \notin ToSet(ring)
    /\ fpc = "exited" => batch = <<>>

IInv == Shape /\ Fresh /\ Apart /\ Untold /\ Progress /\ Written /\ Results /\ Closing
-----------------------------------------------------------------------------
(* Sequences *)

LEMMA Appended ==
    ASSUME NEW s \in Seq(Recs), NEW r \in Recs
    PROVE  /\ Append(s, r) \in Seq(Recs)
           /\ Len(Append(s, r)) = Len(s) + 1
           /\ DOMAIN s = 1 .. Len(s) /\ DOMAIN Append(s, r) = 1 .. Len(s) + 1
           /\ \A i \in DOMAIN s : Append(s, r)[i] = s[i]
           /\ Append(s, r)[Len(s) + 1] = r
           /\ Append(s, r) # <<>>
           /\ ToSet(Append(s, r)) = ToSet(s) \cup {r}
           /\ Unique(s) /\ r \notin ToSet(s) => Unique(Append(s, r))
<1>1. Append(s, r) \in Seq(Recs) /\ Len(Append(s, r)) = Len(s) + 1 /\ Len(s) \in Nat
  OBVIOUS
<1>2. DOMAIN s = 1 .. Len(s) /\ DOMAIN Append(s, r) = 1 .. Len(s) + 1
  BY <1>1
<1>3. \A i \in DOMAIN s : Append(s, r)[i] = s[i]
  OBVIOUS
<1>4. Append(s, r)[Len(s) + 1] = r
  OBVIOUS
<1>5. ToSet(Append(s, r)) = ToSet(s) \cup {r}
  BY <1>1, <1>2, <1>3, <1>4 DEF ToSet
<1>6. Unique(s) /\ r \notin ToSet(s) => Unique(Append(s, r))
  BY <1>1, <1>2, <1>3, <1>4 DEF ToSet, Unique
<1>7. QED
  BY <1>1, <1>2, <1>3, <1>4, <1>5, <1>6

LEMMA Received ==
    ASSUME NEW s \in Seq(Recs), s # <<>>, Unique(s)
    PROVE  /\ Tail(s) \in Seq(Recs) /\ Head(s) \in Recs
           /\ Unique(Tail(s))
           /\ ToSet(Tail(s)) = ToSet(s) \ {Head(s)}
           /\ Head(s) \in ToSet(s)
<1>1. /\ Tail(s) \in Seq(Recs) /\ Head(s) \in Recs /\ Head(s) = s[1]
      /\ Len(s) \in Nat \ {0} /\ DOMAIN s = 1 .. Len(s)
      /\ DOMAIN Tail(s) = 1 .. Len(s) - 1
      /\ \A i \in 1 .. Len(s) - 1 : Tail(s)[i] = s[i + 1]
  BY HeadTailProperties, EmptySeq, LenProperties
<1>2. Unique(Tail(s))
  BY <1>1 DEF Unique
<1>3. Head(s) \in ToSet(s)
  BY <1>1 DEF ToSet
<1>4. ToSet(Tail(s)) = ToSet(s) \ {Head(s)}
  <2>1. ASSUME NEW x \in ToSet(Tail(s)) PROVE x \in ToSet(s) /\ x # Head(s)
    BY <1>1, <2>1 DEF ToSet, Unique
  <2>2. ASSUME NEW x \in ToSet(s), x # Head(s) PROVE x \in ToSet(Tail(s))
    <3>1. PICK i \in 1 .. Len(s) : x = s[i]
      BY <1>1, <2>2 DEF ToSet
    <3>2. i - 1 \in 1 .. Len(s) - 1 /\ Tail(s)[i - 1] = x
      BY <1>1, <2>2, <3>1
    <3>3. QED
      BY <1>1, <3>2 DEF ToSet
  <2>3. QED
    BY <2>1, <2>2
<1>5. QED
  BY <1>1, <1>2, <1>3, <1>4

LEMMA Joined ==
    ASSUME NEW s \in Seq(Recs), NEW t \in Seq(Recs)
    PROVE  /\ s \o t \in Seq(Recs)
           /\ Len(s \o t) = Len(s) + Len(t)
           /\ DOMAIN s = 1 .. Len(s) /\ DOMAIN t = 1 .. Len(t)
           /\ DOMAIN (s \o t) = 1 .. Len(s) + Len(t)
           /\ \A i \in DOMAIN s : (s \o t)[i] = s[i]
           /\ \A i \in DOMAIN t : (s \o t)[Len(s) + i] = t[i]
           /\ ToSet(s \o t) = ToSet(s) \cup ToSet(t)
           /\ (Unique(s) /\ Unique(t) /\ \A x \in ToSet(t) : x \notin ToSet(s)) => Unique(s \o t)
<1>1. /\ s \o t \in Seq(Recs) /\ Len(s \o t) = Len(s) + Len(t)
      /\ Len(s) \in Nat /\ Len(t) \in Nat
      /\ DOMAIN s = 1 .. Len(s) /\ DOMAIN t = 1 .. Len(t)
      /\ DOMAIN (s \o t) = 1 .. Len(s) + Len(t)
  BY ConcatProperties, LenProperties
<1>2. \A i \in DOMAIN s : (s \o t)[i] = s[i]
  BY <1>1, ConcatProperties
<1>3. \A i \in DOMAIN t : (s \o t)[Len(s) + i] = t[i]
  BY <1>1, ConcatProperties
<1>4. \A i \in DOMAIN (s \o t) :
        i \in DOMAIN s \/ (i - Len(s) \in DOMAIN t /\ (s \o t)[i] = t[i - Len(s)])
  BY <1>1, <1>3
<1>5. ToSet(s \o t) = ToSet(s) \cup ToSet(t)
  <2>1. ASSUME NEW x \in ToSet(s \o t) PROVE x \in ToSet(s) \cup ToSet(t)
    BY <1>1, <1>2, <1>4 DEF ToSet
  <2>2. ASSUME NEW x \in ToSet(s) PROVE x \in ToSet(s \o t)
    BY <1>1, <1>2 DEF ToSet
  <2>3. ASSUME NEW x \in ToSet(t) PROVE x \in ToSet(s \o t)
    <3>1. PICK i \in DOMAIN t : x = t[i]
      BY DEF ToSet
    <3>2. Len(s) + i \in DOMAIN (s \o t) /\ (s \o t)[Len(s) + i] = x
      BY <1>1, <1>3, <3>1
    <3>3. QED
      BY <3>2 DEF ToSet
  <2>4. QED
    BY <2>1, <2>2, <2>3
<1>6. ASSUME Unique(s), Unique(t), \A x \in ToSet(t) : x \notin ToSet(s) PROVE Unique(s \o t)
  <2>1. \A i \in DOMAIN s, k \in DOMAIN t : s[i] # t[k]
    BY <1>6 DEF ToSet
  <2>2. SUFFICES ASSUME NEW i \in DOMAIN (s \o t), NEW k \in DOMAIN (s \o t),
                        (s \o t)[i] = (s \o t)[k]
                 PROVE  i = k
    BY DEF Unique
  <2>3. CASE i \in DOMAIN s /\ k \in DOMAIN s
    BY <1>2, <1>6, <2>2, <2>3 DEF Unique
  <2>4. CASE i \notin DOMAIN s /\ k \notin DOMAIN s
    BY <1>1, <1>4, <1>6, <2>2, <2>4 DEF Unique
  <2>5. CASE ~(i \in DOMAIN s <=> k \in DOMAIN s)
    BY <1>2, <1>4, <2>1, <2>2, <2>5
  <2>6. QED
    BY <2>3, <2>4, <2>5
<1>7. QED
  BY <1>1, <1>2, <1>3, <1>5, <1>6
-----------------------------------------------------------------------------
(* The calls *)

LEMMA NoneInEmpty == ToSet(<<>>) = {} /\ Unique(<<>>) /\ DOMAIN <<>> = {} /\ Len(<<>>) = 0
BY DEF ToSet, Unique

LEMMA Initially == ASSUME Init PROVE IInv
<1>1. Shape
  <2>1. ring \in Seq(Recs) /\ batch \in Seq(Recs) /\ rows \in Seq(Recs) /\ Len(batch) = 0
    BY NoneInEmpty, EmptySeq DEF Init
  <2>2. pc \in [Recs -> {"new", "enqueue", "direct", "wait", "done"}]
    BY DEF Init
  <2>3. /\ answer \in [Recs -> {"none", "nil", "error"}]
        /\ signal \in [Recs -> {"none", "nil", "error"}]
    BY DEF Init
  <2>4. id \in [Recs -> IDs] /\ idMap \in [Recs -> Nat] /\ result \in [Recs -> Int]
    BY DEF Init, IDs
  <2>5. inserted \in 0 .. Len(batch) /\ early \in SUBSET Recs
    BY <2>1 DEF Init
  <2>6. /\ batcher \in BOOLEAN /\ failed \in BOOLEAN /\ stopCh \in BOOLEAN
        /\ back = "loop" /\ fpc = "off"
    BY DEF Init
  <2>7. QED
    BY <2>1, <2>2, <2>3, <2>4, <2>5, <2>6 DEF Shape
<1>2. Fresh /\ Apart /\ Untold
  BY NoneInEmpty DEF Init, Fresh, Apart, Untold
<1>3. Progress /\ Written /\ Results /\ Closing
  BY NoneInEmpty DEF Init, Progress, Written, Results, Closing
<1>4. QED
  BY <1>1, <1>2, <1>3 DEF IInv

Undecided == {"new", "enqueue", "direct"}

LEMMA BatchIsRecs ==
    ASSUME Shape
    PROVE  /\ Len(batch) \in Nat /\ DOMAIN batch = 1 .. Len(batch)
           /\ inserted \in Nat /\ inserted <= Len(batch)
           /\ \A k \in 1 .. Len(batch) : batch[k] \in Recs /\ batch[k] \in ToSet(batch)
           /\ \A r \in ToSet(batch) : \E k \in 1 .. Len(batch) : r = batch[k]
<1>1. Len(batch) \in Nat /\ DOMAIN batch = 1 .. Len(batch)
  BY LenProperties DEF Shape
<1>2. inserted \in Nat /\ inserted <= Len(batch)
  BY <1>1 DEF Shape
<1>3. \A k \in 1 .. Len(batch) : batch[k] \in Recs /\ batch[k] \in ToSet(batch)
  BY <1>1, ElementOfSeq DEF Shape, ToSet
<1>4. \A r \in ToSet(batch) : \E k \in 1 .. Len(batch) : r = batch[k]
  BY <1>1 DEF ToSet
<1>5. QED
  BY <1>1, <1>2, <1>3, <1>4

\* A step of a call, which writes its own record's variables and at most one row, of a record
\* that takes the synchronous insert.
LEMMA CallKeeps ==
    ASSUME IInv, NEW r \in Recs, pc[r] # "done",
           NEW label \in {"new", "enqueue", "direct", "wait", "done"},
           NEW told \in {"none", "nil", "error"}, NEW value \in IDs,
           pc' = [pc EXCEPT ![r] = label], answer' = [answer EXCEPT ![r] = told],
           id' = [id EXCEPT ![r] = value],
           UNCHANGED <<batcher, ring, flushVars, signal, idMap, result, stopVars>>,
           rows' = rows \/ (pc[r] = "direct" /\ label = "done" /\ rows' = Append(rows, r)),
           label \in Undecided => pc[r] \in Undecided,
           label # "done" => told = "none",
           value # id[r] => r \notin ToSet(batch),
           told = "nil" => r \notin ToSet(ring) /\ r \notin ToSet(batch),
           told = "nil" \/ signal[r] = "nil" => value \in DOMAIN rows' /\ rows'[value] = r
    PROVE  IInv'
<1> USE DEF IInv, flushVars, stopVars, Undecided
<1>1. /\ rows' \in Seq(Recs)
      /\ \A i \in DOMAIN rows : i \in DOMAIN rows' /\ rows'[i] = rows[i]
      /\ \A x \in Recs : x \in ToSet(rows') => x \in ToSet(rows) \/ (x = r /\ pc[r] = "direct")
      /\ Unique(rows')
  <2>1. CASE rows' = rows
    <3>1. rows \in Seq(Recs) /\ Unique(rows)
      BY DEF Shape, Apart
    <3>2. rows' \in Seq(Recs) /\ Unique(rows')
      BY <2>1, <3>1, Zenon
    <3>3. \A x \in Recs : x \in ToSet(rows') => x \in ToSet(rows)
      BY <2>1, Zenon
    <3>4. \A i \in DOMAIN rows : i \in DOMAIN rows' /\ rows'[i] = rows[i]
      BY <2>1
    <3>5. QED
      BY <3>2, <3>3, <3>4, Zenon
  <2>2. CASE pc[r] = "direct" /\ label = "done" /\ rows' = Append(rows, r)
    <3>1. Unique(rows) /\ r \notin ToSet(rows) /\ rows \in Seq(Recs)
      BY <2>2 DEF Shape, Apart, Fresh
    <3>2. /\ rows' \in Seq(Recs) /\ Unique(rows') /\ ToSet(rows') = ToSet(rows) \cup {r}
          /\ DOMAIN rows = 1 .. Len(rows) /\ DOMAIN rows' = 1 .. Len(rows) + 1 /\ Len(rows) \in Nat
          /\ \A i \in DOMAIN rows : rows'[i] = rows[i]
      BY <2>2, <3>1, Appended
    <3>3. QED
      BY <2>2, <3>2
  <2>3. QED
    BY <2>1, <2>2
<1>2. /\ pc \in [Recs -> {"new", "enqueue", "direct", "wait", "done"}]
      /\ answer \in [Recs -> {"none", "nil", "error"}] /\ id \in [Recs -> IDs]
  BY DEF Shape
<1>3. /\ \A x \in Recs : pc'[x] = IF x = r THEN label ELSE pc[x]
      /\ \A x \in Recs : answer'[x] = IF x = r THEN told ELSE answer[x]
      /\ \A x \in Recs : id'[x] = IF x = r THEN value ELSE id[x]
  <2>1. \A x \in Recs : pc'[x] = IF x = r THEN label ELSE pc[x]
    BY <1>2
  <2>2. \A x \in Recs : answer'[x] = IF x = r THEN told ELSE answer[x]
    BY <1>2
  <2>3. \A x \in Recs : id'[x] = IF x = r THEN value ELSE id[x]
    BY <1>2
  <2>4. QED
    BY <2>1, <2>2, <2>3
<1>4. Shape'
  <2>1. pc' \in [Recs -> {"new", "enqueue", "direct", "wait", "done"}]
    BY <1>2
  <2>2. answer' \in [Recs -> {"none", "nil", "error"}]
    BY <1>2
  <2>3. id' \in [Recs -> IDs]
    BY <1>2
  <2>4. QED
    BY <1>1, <2>1, <2>2, <2>3 DEF Shape
<1>5. Fresh'
  BY <1>1, <1>3 DEF Fresh
<1>6. Apart'
  <2>1. \A x \in ToSet(ring) : x \in Recs
    BY ElementOfSeq, LenProperties DEF Shape, ToSet
  <2>2. pc[r] = "direct" => r \notin ToSet(ring) /\ r \notin ToSet(batch)
    BY DEF Fresh
  <2>3. \A x \in ToSet(ring) : x \notin ToSet(rows')
    BY <1>1, <2>1, <2>2 DEF Apart
  <2>4. fpc # "signal" => \A k \in DOMAIN batch : k > inserted => batch[k] \notin ToSet(rows')
    BY <1>1, <2>2, BatchIsRecs DEF Apart
  <2>5. QED
    BY <1>1, <2>3, <2>4 DEF Apart
<1>7. Untold'
  BY <1>3 DEF Untold
<1>8. Progress'
  BY DEF Progress
<1>9. Written'
  <2>1. \A x \in Recs : id'[x] = id[x] /\ Stored(x) => Stored(x)'
    BY <1>1 DEF Stored
  <2>2. \A k \in 1 .. inserted : batch[k] \in Recs /\ id'[batch[k]] = id[batch[k]]
    BY <1>3, BatchIsRecs
  <2>3. \A x \in Recs : signal[x] = "nil" \/ answer'[x] = "nil" => Stored(x)'
    <3>1. signal[r] = "nil" \/ told = "nil" => Stored(r)'
      <4>1. id'[r] = value
        BY <1>3
      <4>2. QED
        BY <4>1 DEF Stored
    <3>2. \A x \in Recs : x # r /\ (signal[x] = "nil" \/ answer[x] = "nil") => Stored(x)'
      BY <1>3, <2>1 DEF Written
    <3>3. answer'[r] = told /\ \A x \in Recs : x # r => answer'[x] = answer[x]
      BY <1>3
    <3>4. QED
      BY <3>1, <3>2, <3>3
  <2>4. QED
    BY <2>1, <2>2, <2>3 DEF Written
<1>10. Results'
  BY <1>1 DEF Results
<1>11. Closing'
  BY DEF Closing
<1>12. QED
  BY <1>4, <1>5, <1>6, <1>7, <1>8, <1>9, <1>10, <1>11

LEMMA EnqueueKeeps == ASSUME IInv, NEW r \in Recs, Enqueue(r) PROVE IInv'
<1> USE DEF IInv, Enqueue, Goto, flushVars, stopVars, Undecided
<1>1. r \notin ToSet(ring) /\ ring \in Seq(Recs)
  BY DEF Shape, Fresh
<1>2. ring' \in Seq(Recs) /\ ToSet(ring') = ToSet(ring) \cup {r} /\ (Unique(ring) => Unique(ring'))
  BY <1>1, Appended
<1>3. \A x \in Recs : pc'[x] = IF x = r THEN "wait" ELSE pc[x]
  BY DEF Shape
<1>4. r \notin ToSet(batch) /\ r \notin ToSet(rows) /\ signal[r] = "none" /\ answer[r] = "none"
  BY DEF Fresh
<1>5. Shape'
  BY <1>2 DEF Shape
<1>6. Fresh'
  BY <1>2, <1>3 DEF Fresh
<1>7. Apart'
  BY <1>2, <1>4 DEF Apart
<1>8. Untold'
  BY <1>2, <1>4 DEF Untold
<1>9. Progress' /\ Results'
  BY DEF Progress, Results
<1>10. Written'
  BY DEF Written, Stored
<1>11. Closing'
  <2>1. r \notin early
    BY <1>1, <1>4 DEF Closing
  <2>2. QED
    BY <1>2, <2>1 DEF Closing
<1>12. QED
  BY <1>5, <1>6, <1>7, <1>8, <1>9, <1>10, <1>11

LEMMA UpdateResultKeeps == ASSUME IInv, NEW r \in Recs, UpdateResult(r) PROVE IInv'
<1> USE DEF IInv, UpdateResult, callVars, flushVars, stopVars
<1>1. Stored(r)
  BY DEF Written
<1>2. id[r] # Tmp /\ id[r] \in Int
  BY <1>1, LenProperties DEF Stored, Shape, Tmp
<1>3. result' = [result EXCEPT ![r] = id[r]] /\ idMap' = idMap
  BY <1>2
<1>4. Shape'
  BY <1>2, <1>3 DEF Shape
<1>5. Results'
  BY <1>1, <1>3 DEF Results, Stored, Shape
<1>6. Fresh' /\ Apart' /\ Untold'
  BY DEF Fresh, Apart, Untold
<1>7. Progress' /\ Written' /\ Closing'
  BY DEF Progress, Written, Stored, Closing
<1>8. QED
  BY <1>4, <1>5, <1>6, <1>7

LEMMA CallerKeeps == ASSUME IInv, NEW r \in Recs, Caller(r) PROVE IInv'
<1> USE DEF callVars, SetID, Goto, Reply, Undecided
<1>1. /\ pc[r] \in {"new", "enqueue", "direct", "wait", "done"}
      /\ answer[r] \in {"none", "nil", "error"} /\ id[r] \in IDs
      /\ signal[r] \in {"none", "nil", "error"}
      /\ answer = [answer EXCEPT ![r] = answer[r]] /\ id = [id EXCEPT ![r] = id[r]]
      /\ 0 \in IDs /\ Tmp \in IDs
  BY DEF IInv, Shape, IDs
<1>2. pc[r] # "done" => answer[r] = "none"
  BY DEF IInv, Fresh
<1>3. pc[r] \in Undecided => /\ r \notin ToSet(ring) /\ r \notin ToSet(batch)
                             /\ signal[r] = "none"
  BY DEF IInv, Fresh
<1>4. CASE Create(r)
  BY <1>1, <1>2, <1>3, <1>4, CallKeeps DEF Create
<1>5. CASE EnqueueExpired(r)
  BY <1>1, <1>3, <1>5, CallKeeps DEF EnqueueExpired
<1>6. CASE EnqueueStopped(r)
  BY <1>1, <1>2, <1>3, <1>6, CallKeeps DEF EnqueueStopped
<1>7. CASE Direct(r)
  <2>1. rows \in Seq(Recs)
    BY DEF IInv, Shape
  <2>2. Len(rows) + 1 \in IDs /\ Len(rows) + 1 \in DOMAIN Append(rows, r)
        /\ Append(rows, r)[Len(rows) + 1] = r
    BY <2>1, Appended DEF IDs
  <2>3. CASE rows' = Append(rows, r) /\ SetID(r, Len(rows) + 1) /\ Reply(r, "nil")
    BY <1>1, <1>3, <1>7, <2>2, <2>3, CallKeeps DEF Direct
  <2>4. CASE rows' \in {rows, Append(rows, r)} /\ Reply(r, "error") /\ UNCHANGED id
    BY <1>1, <1>3, <1>7, <2>4, CallKeeps DEF Direct
  <2>5. QED
    BY <1>7, <2>3, <2>4 DEF Direct
<1>8. CASE Signalled(r)
  <2>1. r \notin ToSet(ring) /\ r \notin ToSet(batch)
    BY <1>8 DEF Signalled, IInv, Untold
  <2>2. signal[r] = "nil" => id[r] \in DOMAIN rows /\ rows[id[r]] = r
    BY DEF IInv, Written, Stored
  <2>3. CASE signal[r] = "error"
    BY <1>1, <1>8, <2>1, <2>3, CallKeeps DEF Signalled
  <2>4. CASE signal[r] = "nil"
    BY <1>1, <1>8, <2>1, <2>2, <2>4, CallKeeps DEF Signalled
  <2>5. QED
    BY <1>1, <1>8, <2>3, <2>4 DEF Signalled
<1>9. CASE WaitExpired(r)
  <2>1. signal[r] = "nil" => id[r] \in DOMAIN rows /\ rows[id[r]] = r
    BY DEF IInv, Written, Stored
  <2>2. QED
    BY <1>1, <1>9, <2>1, CallKeeps DEF WaitExpired
<1>10. QED
  BY <1>4, <1>5, <1>6, <1>7, <1>8, <1>9, EnqueueKeeps, UpdateResultKeeps DEF Caller

-----------------------------------------------------------------------------
(* The flush goroutine *)

LEMMA StartKeeps == ASSUME IInv, Start PROVE IInv'
<1> USE DEF IInv, Start, callVars, stopVars
<1>1. Shape' /\ Fresh' /\ Apart' /\ Untold'
  BY DEF Shape, Fresh, Apart, Untold
<1>2. Progress' /\ Written' /\ Results' /\ Closing'
  BY DEF Progress, Written, Stored, Results, Closing
<1>3. QED
  BY <1>1, <1>2

LEMMA SeeStopKeeps == ASSUME IInv, SeeStop PROVE IInv'
<1> USE DEF IInv, SeeStop, callVars, stopVars
<1>1. Shape' /\ Fresh' /\ Apart' /\ Untold'
  BY DEF Shape, Fresh, Apart, Untold
<1>2. Progress' /\ Written' /\ Results' /\ Closing'
  BY DEF Progress, Written, Stored, Results, Closing
<1>3. QED
  BY <1>1, <1>2

\* writeBatch is entered with what is in the batch, from the ticker or at the end of the drain.
LEMMA FlushKeeps == ASSUME IInv, Tick \/ DrainEnd PROVE IInv'
<1>1. PICK label \in {"loop", "exited"} :
         /\ Flush(batch, label) /\ fpc \in {"loop", "drain"}
         /\ label = "exited" => fpc = "drain" /\ ring = <<>>
         /\ UNCHANGED <<batcher, callVars, id, ring, inserted, failed, signal, idMap, rows, result,
                        stopVars>>
  BY DEF Tick, DrainEnd
<1> USE <1>1 DEF IInv, Flush, callVars, stopVars
<1>2. Shape' /\ Fresh' /\ Apart' /\ Untold'
  BY DEF Shape, Fresh, Apart, Untold
<1>3. Progress'
  BY EmptySeq DEF Progress, Shape
<1>4. Written' /\ Results'
  BY DEF Written, Stored, Results
<1>5. Closing'
  BY NoneInEmpty DEF Closing
<1>6. QED
  BY <1>2, <1>3, <1>4, <1>5

LEMMA ReceiveKeeps == ASSUME IInv, Receive PROVE IInv'
<1> DEFINE entry == Head(ring)
<1> USE DEF IInv, callVars, stopVars
<1>1. /\ fpc \in {"loop", "drain"} /\ inserted = 0
      /\ ring \in Seq(Recs) /\ ring # <<>> /\ Unique(ring) /\ ring' = Tail(ring)
      /\ UNCHANGED <<batcher, pc, answer, id, inserted, failed, signal, idMap, rows, result,
                     stopCh, early>>
  BY DEF Receive, Shape, Apart, Progress
<1>2. /\ ring' \in Seq(Recs) /\ entry \in Recs /\ Unique(ring')
      /\ ToSet(ring') = ToSet(ring) \ {entry} /\ entry \in ToSet(ring)
  BY <1>1, Received
<1>3. entry \notin ToSet(batch) /\ entry \notin ToSet(rows)
  BY <1>2 DEF Apart
<1>4. /\ batch' = Append(batch, entry)
      /\ (fpc' = fpc /\ back' = back) \/ (fpc' = "reset" /\ back' = fpc)
  <2>1. Append(batch, entry) # <<>>
    BY <1>2, Appended DEF Shape
  <2>2. CASE Len(Append(batch, entry)) >= BatchSize
    BY <2>1, <2>2 DEF Receive, Flush
  <2>3. CASE ~(Len(Append(batch, entry)) >= BatchSize)
    <3>1. batch' = Append(batch, entry)
      BY <2>3 DEF Receive
    <3>2. UNCHANGED <<back, fpc>>
      BY <2>3 DEF Receive
    <3>3. QED
      BY <3>1, <3>2
  <2>4. QED
    BY <2>2, <2>3
<1>5. /\ batch' \in Seq(Recs) /\ ToSet(batch') = ToSet(batch) \cup {entry} /\ Unique(batch')
      /\ Len(batch') = Len(batch) + 1 /\ DOMAIN batch = 1 .. Len(batch)
      /\ DOMAIN batch' = 1 .. Len(batch) + 1 /\ Len(batch) \in Nat
      /\ \A k \in DOMAIN batch : batch'[k] = batch[k]
      /\ batch'[Len(batch) + 1] = entry
  <2>1. batch \in Seq(Recs) /\ Unique(batch)
    BY DEF Shape, Apart
  <2> HIDE DEF entry
  <2>2. QED
    BY <1>2, <1>3, <1>4, <2>1, Appended
<1> HIDE DEF entry
<1>6. Shape'
  BY <1>1, <1>2, <1>4, <1>5 DEF Shape
<1>7. Fresh'
  BY <1>1, <1>2, <1>5 DEF Fresh
<1>8. Apart'
  BY <1>1, <1>2, <1>3, <1>5 DEF Apart
<1>9. Untold'
  BY <1>1, <1>2, <1>5 DEF Untold
<1>10. Progress' /\ Written' /\ Results'
  BY <1>1, <1>4, <1>5 DEF Progress, Written, Stored, Results
<1>11. Closing'
  BY <1>1, <1>2, <1>4, <1>5 DEF Closing
<1>12. QED
  BY <1>6, <1>7, <1>8, <1>9, <1>10, <1>11

LEMMA ResetKeeps == ASSUME IInv, Reset PROVE IInv'
<1> USE DEF IInv, Reset, callVars, stopVars
<1>1. \A r \in Recs : r \notin ToSet(batch) => id'[r] = id[r]
  BY DEF Batched
<1>2. id' \in [Recs -> IDs]
  BY DEF Shape, IDs
<1>3. inserted = 0
  BY DEF Progress
<1>4. Shape'
  BY <1>2 DEF Shape
<1>5. Fresh' /\ Apart' /\ Untold'
  BY DEF Fresh, Apart, Untold
<1>6. Progress' /\ Results' /\ Closing'
  BY <1>3 DEF Progress, Results, Closing
<1>7. Written'
  <2>1. \A r \in Recs : signal[r] = "nil" \/ answer[r] = "nil" => r \notin ToSet(batch)
    BY DEF Untold
  <2>2. QED
    BY <1>1, <1>3, <2>1 DEF Written, Stored
<1>8. QED
  BY <1>4, <1>5, <1>6, <1>7

LEMMA SignalAllKeeps == ASSUME IInv, SignalAll PROVE IInv'
<1> USE DEF IInv, SignalAll, callVars, stopVars
<1>1. \A r \in Recs : signal'[r] = IF r \notin ToSet(batch) THEN signal[r]
                                    ELSE IF failed THEN "error" ELSE "nil"
  BY DEF Batched
<1>2. batch' = <<>> /\ ToSet(batch') = {} /\ batch' \in Seq(Recs) /\ Unique(batch')
      /\ DOMAIN batch' = {} /\ Len(batch') = 0
  BY NoneInEmpty, EmptySeq
<1>3. Batched \subseteq Recs
  BY DEF Batched, Shape, ToSet
<1>4. ~failed => \A r \in ToSet(batch) : Stored(r)
  <2>1. ~failed => inserted = Len(batch)
    BY DEF Progress
  <2>2. \A r \in ToSet(batch) : \E k \in 1 .. Len(batch) : r = batch[k]
    BY BatchIsRecs DEF ToSet
  <2>3. QED
    BY <2>1, <2>2 DEF Written
<1>5. Shape'
  <2>1. signal' \in [Recs -> {"none", "nil", "error"}]
    BY DEF Shape
  <2>2. idMap' \in [Recs -> Nat]
    <3>1. \A r \in Recs : r \in Batched /\ ~failed => id[r] \in Nat
      BY <1>4, LenProperties DEF Batched, Stored, Shape
    <3>2. QED
      BY <3>1 DEF Shape
  <2>3. QED
    BY <1>2, <2>1, <2>2 DEF Shape
<1>6. Fresh'
  BY <1>1, <1>2 DEF Fresh
<1>7. Apart' /\ Untold'
  BY <1>1, <1>2 DEF Apart, Untold
<1>8. Progress' /\ Results'
  BY <1>2 DEF Progress, Results, Shape
<1>9. Written'
  <2>1. \A r \in Recs : signal'[r] = "nil" => Stored(r)
    BY <1>1, <1>4 DEF Written
  <2>2. QED
    BY <2>1 DEF Written, Stored, Shape
<1>10. Closing'
  <2>1. \A r \in early : r \in ToSet(ring) \/ signal'[r] # "none"
    BY <1>1 DEF Closing, Shape
  <2>2. back # "signal" /\ fpc' = back
    BY DEF Shape
  <2>3. QED
    BY <1>2, <2>1, <2>2 DEF Closing
<1>11. QED
  BY <1>5, <1>6, <1>7, <1>8, <1>9, <1>10

LEMMA StopKeeps == ASSUME IInv, Stop PROVE IInv'
<1> USE DEF IInv, Stop, callVars, flushVars
<1>1. ToSet(ring) \subseteq Recs /\ ToSet(batch) \subseteq Recs
  BY DEF Shape, ToSet
<1>2. Shape'
  BY <1>1 DEF Shape, Batched
<1>3. Fresh' /\ Apart' /\ Untold'
  BY DEF Fresh, Apart, Untold
<1>4. Progress' /\ Written' /\ Results'
  BY DEF Progress, Written, Stored, Results
<1>5. Closing'
  BY DEF Closing, Batched
<1>6. QED
  BY <1>2, <1>3, <1>4, <1>5

\* A statement writes the rows of the list written, which are the next ones of the batch and
\* none of which is in the table.
LEMMA RowsGrow ==
    ASSUME IInv, fpc = "insert", NEW written \in Seq(Recs), Unique(written),
           \A r \in ToSet(written) : r \in ToSet(batch) /\ r \notin ToSet(rows),
           rows' = rows \o written
    PROVE  /\ rows' \in Seq(Recs) /\ Unique(rows')
           /\ ToSet(rows') = ToSet(rows) \cup ToSet(written)
           /\ Len(rows') = Len(rows) + Len(written) /\ Len(rows) \in Nat
           /\ DOMAIN rows = 1 .. Len(rows) /\ DOMAIN written = 1 .. Len(written)
           /\ DOMAIN rows' = 1 .. Len(rows) + Len(written)
           /\ \A i \in DOMAIN rows : rows'[i] = rows[i]
           /\ \A i \in DOMAIN written : rows'[Len(rows) + i] = written[i]
           /\ \A r \in ToSet(ring) : r \notin ToSet(rows')
           /\ UNCHANGED <<pc, answer, ring, batch, signal>> => Fresh'
           /\ UNCHANGED result => Results'
<1>1. rows \in Seq(Recs) /\ Unique(rows)
  BY DEF IInv, Shape, Apart
<1>2. /\ rows' \in Seq(Recs) /\ Unique(rows')
      /\ ToSet(rows') = ToSet(rows) \cup ToSet(written)
      /\ Len(rows') = Len(rows) + Len(written) /\ Len(rows) \in Nat
      /\ DOMAIN rows = 1 .. Len(rows) /\ DOMAIN written = 1 .. Len(written)
      /\ DOMAIN rows' = 1 .. Len(rows) + Len(written)
      /\ \A i \in DOMAIN rows : rows'[i] = rows[i]
      /\ \A i \in DOMAIN written : rows'[Len(rows) + i] = written[i]
  BY <1>1, Joined, LenProperties
<1>3. \A r \in ToSet(ring) : r \notin ToSet(rows')
  BY <1>2 DEF IInv, Apart
<1>4. UNCHANGED <<pc, answer, ring, batch, signal>> => Fresh'
  BY <1>2 DEF IInv, Fresh
<1>5. UNCHANGED result => Results'
  <2>1. Len(written) \in Nat
    BY LenProperties
  <2>2. \A i \in DOMAIN rows : i \in DOMAIN rows'
    BY <1>2, <2>1
  <2>3. QED
    BY <1>2, <2>2 DEF IInv, Results
<1>6. QED
  BY <1>2, <1>3, <1>4, <1>5

LEMMA InsertBatchKeeps == ASSUME IInv, InsertBatch PROVE IInv'
<1>1. /\ fpc = "insert" /\ batcher /\ rows' = rows \o batch /\ inserted = 0
      /\ inserted' = Len(batch) /\ fpc' = "signal"
      /\ UNCHANGED <<batcher, pc, answer, ring, batch, back, failed, signal, idMap, result, stopCh,
                     early>>
  BY DEF InsertBatch, callVars, stopVars, IInv, Progress
<1>2. batch \in Seq(Recs) /\ Unique(batch)
  BY DEF IInv, Shape, Apart
<1>3. \A r \in ToSet(batch) : r \notin ToSet(rows)
  BY <1>1, BatchIsRecs DEF IInv, Apart
<1>4. /\ rows' \in Seq(Recs) /\ Unique(rows') /\ Fresh' /\ Results'
      /\ Len(rows) \in Nat
      /\ DOMAIN rows = 1 .. Len(rows) /\ DOMAIN rows' = 1 .. Len(rows) + Len(batch)
      /\ \A i \in DOMAIN rows : rows'[i] = rows[i]
      /\ \A i \in DOMAIN batch : rows'[Len(rows) + i] = batch[i]
      /\ \A r \in ToSet(ring) : r \notin ToSet(rows')
  BY <1>1, <1>2, <1>3, RowsGrow
<1>5. \A k \in DOMAIN batch : id'[batch[k]] = Len(rows) + k
  <2>1. SUFFICES ASSUME NEW k \in DOMAIN batch PROVE id'[batch[k]] = Len(rows) + k
    OBVIOUS
  <2>2. (CHOOSE i \in DOMAIN batch : batch[i] = batch[k]) = k
    BY <1>2 DEF Unique
  <2>3. batch[k] \in Recs
    BY BatchIsRecs DEF IInv
  <2>4. QED
    BY <2>2, <2>3 DEF InsertBatch
<1>6. \A r \in Recs : r \notin ToSet(batch) => id'[r] = id[r]
  BY DEF InsertBatch, ToSet
<1>7. \A k \in DOMAIN batch : Stored(batch[k])'
  BY <1>1, <1>4, <1>5, BatchIsRecs DEF Stored, IInv
<1>8. Shape'
  <2>1. \A r \in Recs : id'[r] \in IDs
    <3>1. \A k \in DOMAIN batch : Len(rows) + k \in IDs
      BY <1>4, BatchIsRecs DEF IInv, IDs
    <3>2. \A r \in Recs : r \in ToSet(batch) => \E k \in DOMAIN batch : r = batch[k]
      BY DEF ToSet
    <3>3. \A r \in Recs : id[r] \in IDs
      BY DEF IInv, Shape
    <3>4. QED
      BY <1>5, <1>6, <3>1, <3>2, <3>3
  <2>2. id' \in [Recs -> IDs]
    <3>1. id' = [r \in Recs |-> id'[r]]
      BY DEF InsertBatch
    <3>2. QED
      BY <2>1, <3>1
  <2>3. inserted' \in 0 .. Len(batch')
    BY <1>1, BatchIsRecs DEF IInv
  <2>4. QED
    BY <1>1, <1>4, <2>2, <2>3 DEF IInv, Shape
<1>9. Apart'
  BY <1>1, <1>4 DEF IInv, Apart
<1>10. Untold' /\ Closing'
  BY <1>1 DEF IInv, Untold, Closing
<1>11. Progress'
  BY <1>1 DEF Progress
<1>12. Written'
  <2>1. \A k \in 1 .. inserted' : Stored(batch[k])'
    BY <1>1, <1>7, BatchIsRecs DEF IInv
  <2>2. ASSUME NEW r \in Recs, signal[r] = "nil" \/ answer[r] = "nil" PROVE Stored(r)'
    <3>1. r \notin ToSet(batch) /\ Stored(r)
      BY <2>2 DEF IInv, Untold, Written
    <3>2. id'[r] = id[r]
      BY <1>6, <3>1
    <3>3. QED
      BY <1>4, <3>1, <3>2, BatchIsRecs DEF Stored, IInv
  <2>3. QED
    BY <1>1, <2>1, <2>2 DEF Written
<1>13. QED
  BY <1>4, <1>8, <1>9, <1>10, <1>11, <1>12 DEF IInv

LEMMA OneRow ==
    ASSUME NEW s \in Seq(Recs), NEW r \in Recs
    PROVE  /\ Append(s, r) = s \o <<r>> /\ <<r>> \in Seq(Recs)
           /\ ToSet(<<r>>) = {r} /\ Unique(<<r>>) /\ Len(<<r>>) = 1
<1>1. <<r>> \in Seq(Recs) /\ Len(<<r>>) = 1 /\ DOMAIN <<r>> = {1} /\ <<r>>[1] = r
  OBVIOUS
<1>2. ToSet(<<r>>) = {r}
  BY <1>1 DEF ToSet
<1>3. Unique(<<r>>)
  BY <1>1 DEF Unique
<1>4. Append(s, r) = s \o <<r>>
  OBVIOUS
<1>5. QED
  BY <1>1, <1>2, <1>3, <1>4

\* The entry that InsertNext is at.
LEMMA NextEntry ==
    ASSUME IInv, fpc = "insert"
    PROVE  /\ inserted + 1 \in 1 .. Len(batch)
           /\ batch[inserted + 1] \in Recs /\ batch[inserted + 1] \in ToSet(batch)
           /\ batch[inserted + 1] \notin ToSet(rows)
<1>1. inserted + 1 \in 1 .. Len(batch)
  BY BatchIsRecs DEF IInv, Progress
<1>2. QED
  BY <1>1, BatchIsRecs DEF IInv, Apart

LEMMA InsertNextKeeps == ASSUME IInv, InsertNext PROVE IInv'
<1>1. fpc = "insert"
  BY DEF InsertNext
<1>2. PICK entry \in Recs : /\ entry = batch[inserted + 1]
                           /\ entry \in ToSet(batch) /\ entry \notin ToSet(rows)
  BY <1>1, NextEntry
<1>3. /\ fpc = "insert" /\ ~batcher /\ rows' = Append(rows, entry)
      /\ id' = [id EXCEPT ![entry] = Len(rows) + 1]
      /\ inserted' = inserted + 1
      /\ fpc' = IF inserted + 1 = Len(batch) THEN "signal" ELSE "insert"
      /\ UNCHANGED <<batcher, pc, answer, ring, batch, back, failed, signal, idMap, result, stopCh,
                     early>>
  BY <1>2 DEF InsertNext, callVars, stopVars, SetID
<1>4. inserted \in Nat /\ inserted + 1 <= Len(batch) /\ Len(batch) \in Nat
  BY <1>1, <1>3, NextEntry, BatchIsRecs DEF IInv
<1>5. \A k \in DOMAIN batch : k # inserted + 1 => batch[k] # entry
  <2>1. Unique(batch) /\ inserted + 1 \in DOMAIN batch
    BY <1>4, BatchIsRecs DEF IInv, Apart
  <2>2. QED
    BY <1>2, <2>1 DEF Unique
<1>6. /\ rows' \in Seq(Recs) /\ Unique(rows') /\ Fresh' /\ Results' /\ Len(rows) \in Nat
      /\ ToSet(rows') = ToSet(rows) \cup {entry}
      /\ DOMAIN rows = 1 .. Len(rows) /\ DOMAIN rows' = 1 .. Len(rows) + 1
      /\ \A i \in DOMAIN rows : rows'[i] = rows[i]
      /\ rows'[Len(rows) + 1] = entry
      /\ \A r \in ToSet(ring) : r \notin ToSet(rows')
  <2>1. rows \in Seq(Recs)
    BY DEF IInv, Shape
  <2>2. /\ rows' = rows \o <<entry>> /\ <<entry>> \in Seq(Recs) /\ Unique(<<entry>>)
        /\ ToSet(<<entry>>) = {entry} /\ Len(<<entry>>) = 1
    BY <1>1, <1>3, <1>2, <2>1, OneRow
  <2>3. rows'[Len(rows) + 1] = entry
    BY <1>1, <1>3, <1>2, <2>1, Appended
  <2>4. QED
    BY <1>1, <1>3, <1>2, <2>2, <2>3, RowsGrow
<1>7. id \in [Recs -> IDs] /\ id'[entry] = Len(rows) + 1
      /\ \A r \in Recs : r # entry => id'[r] = id[r]
  BY <1>1, <1>3, <1>2 DEF IInv, Shape
<1>8. Shape'
  <2>1. id' \in [Recs -> IDs]
    BY <1>1, <1>3, <1>6, <1>7 DEF IDs
  <2>2. inserted' \in 0 .. Len(batch')
    BY <1>1, <1>3, <1>4
  <2>3. QED
    BY <1>1, <1>3, <1>6, <2>1, <2>2 DEF IInv, Shape
<1>9. Apart'
  <2>1. ASSUME NEW k \in DOMAIN batch, k > inserted + 1 PROVE batch[k] \notin ToSet(rows')
    <3>1. k \in Nat /\ k > inserted /\ k # inserted + 1
      BY <1>4, <2>1, BatchIsRecs DEF IInv
    <3>2. batch[k] \notin ToSet(rows) /\ batch[k] # entry
      BY <1>1, <1>3, <1>5, <2>1, <3>1 DEF IInv, Apart
    <3>3. QED
      BY <1>6, <3>2
  <2>2. QED
    BY <1>1, <1>3, <1>6, <2>1 DEF IInv, Apart
<1>10. Untold' /\ Closing'
  BY <1>3 DEF IInv, Untold, Closing
<1>11. Progress'
  BY <1>1, <1>3, <1>4 DEF IInv, Progress
<1>12. Written'
  <2>1. Stored(entry)'
    <3>1. Len(rows) + 1 \in DOMAIN rows'
      BY <1>6
    <3>2. QED
      BY <1>6, <1>7, <3>1 DEF Stored
  <2>2. \A r \in Recs : r # entry /\ Stored(r) => Stored(r)'
    BY <1>6, <1>7 DEF Stored
  <2>3. ~failed => \A k \in 1 .. inserted + 1 : Stored(batch[k])'
    <3>1. ~failed => \A k \in 1 .. inserted : Stored(batch[k])
      BY <1>3 DEF IInv, Written
    <3>2. \A k \in 1 .. inserted : Stored(batch[k]) => Stored(batch[k])'
      <4>1. SUFFICES ASSUME NEW k \in 1 .. inserted, Stored(batch[k]) PROVE Stored(batch[k])'
        OBVIOUS
      <4>2. k \in DOMAIN batch /\ k # inserted + 1 /\ batch[k] \in Recs
        BY <1>4, BatchIsRecs DEF IInv
      <4>3. batch' = batch
        BY <1>3
      <4>4. QED
        BY <1>5, <2>2, <4>1, <4>2, <4>3 DEF Stored
    <3>3. QED
      BY <1>1, <1>3, <1>2, <1>4, <2>1, <3>1, <3>2
  <2>4. ASSUME NEW r \in Recs, signal[r] = "nil" \/ answer[r] = "nil" PROVE Stored(r)'
    BY <1>2, <2>2, <2>4 DEF IInv, Untold, Written
  <2>5. QED
    BY <1>1, <1>3, <2>3, <2>4 DEF Written
<1>13. QED
  BY <1>6, <1>8, <1>9, <1>10, <1>11, <1>12 DEF IInv

LEMMA InsertFailKeeps == ASSUME IInv, InsertFail PROVE IInv'
<1>1. /\ fpc = "insert" /\ failed' = TRUE /\ fpc' = "signal"
      /\ UNCHANGED <<batcher, pc, answer, id, ring, batch, inserted, back, signal, idMap, result,
                     stopCh, early>>
  BY DEF InsertFail, callVars, stopVars
<1>2. /\ rows' \in Seq(Recs) /\ Unique(rows') /\ Fresh' /\ Results'
      /\ \A i \in DOMAIN rows : i \in DOMAIN rows' /\ rows'[i] = rows[i]
      /\ \A r \in ToSet(ring) : r \notin ToSet(rows')
  <2>1. CASE rows' = rows
    BY <1>1, <2>1 DEF IInv, Shape, Apart, Fresh, Results
  <2>2. CASE batcher /\ rows' = rows \o batch
    <3>1. batch \in Seq(Recs) /\ Unique(batch) /\ Len(batch) \in Nat
      BY BatchIsRecs DEF IInv, Shape, Apart
    <3>2. \A r \in ToSet(batch) : r \notin ToSet(rows)
      <4>1. inserted = 0
        BY <1>1, <2>2 DEF IInv, Progress
      <4>2. QED
        BY <1>1, <4>1, BatchIsRecs DEF IInv, Apart
    <3>3. /\ rows' \in Seq(Recs) /\ Unique(rows') /\ Fresh' /\ Results'
          /\ DOMAIN rows = 1 .. Len(rows) /\ DOMAIN rows' = 1 .. Len(rows) + Len(batch)
          /\ Len(rows) \in Nat /\ \A i \in DOMAIN rows : rows'[i] = rows[i]
          /\ \A r \in ToSet(ring) : r \notin ToSet(rows')
      BY <1>1, <2>2, <3>1, <3>2, RowsGrow
    <3>4. QED
      BY <3>1, <3>3
  <2>3. CASE ~batcher /\ rows' = Append(rows, batch[inserted + 1])
    <3> DEFINE entry == batch[inserted + 1]
    <3>1. entry \in Recs /\ entry \in ToSet(batch) /\ entry \notin ToSet(rows)
      BY <1>1, NextEntry
    <3> HIDE DEF entry
    <3>2. rows \in Seq(Recs) /\ rows' = Append(rows, entry)
      BY <2>3 DEF IInv, Shape, entry
    <3>3. /\ rows' = rows \o <<entry>> /\ <<entry>> \in Seq(Recs) /\ Unique(<<entry>>)
          /\ ToSet(<<entry>>) = {entry} /\ Len(<<entry>>) = 1
      BY <3>1, <3>2, OneRow
    <3>4. /\ rows' \in Seq(Recs) /\ Unique(rows') /\ Fresh' /\ Results'
          /\ DOMAIN rows = 1 .. Len(rows) /\ DOMAIN rows' = 1 .. Len(rows) + 1
          /\ Len(rows) \in Nat /\ \A i \in DOMAIN rows : rows'[i] = rows[i]
          /\ \A r \in ToSet(ring) : r \notin ToSet(rows')
      BY <1>1, <3>1, <3>3, RowsGrow
    <3>5. QED
      BY <3>4
  <2>4. QED
    BY <2>1, <2>2, <2>3 DEF InsertFail
<1>3. Shape'
  BY <1>1, <1>2 DEF IInv, Shape
<1>4. Apart'
  BY <1>1, <1>2 DEF IInv, Apart
<1>5. Untold' /\ Progress' /\ Closing'
  BY <1>1 DEF IInv, Untold, Progress, Closing
<1>6. Written'
  BY <1>1, <1>2 DEF IInv, Written, Stored
<1>7. QED
  BY <1>2, <1>3, <1>4, <1>5, <1>6 DEF IInv
-----------------------------------------------------------------------------
LEMMA NextKeeps == ASSUME IInv, [Next]_vars PROVE IInv'
<1>1. CASE UNCHANGED vars
  <2> USE <1>1 DEF vars, callVars, flushVars, stopVars, IInv
  <2>1. Shape' /\ Fresh' /\ Apart' /\ Untold'
    BY DEF Shape, Fresh, Apart, Untold
  <2>2. Progress' /\ Written' /\ Results' /\ Closing'
    BY DEF Progress, Written, Stored, Results, Closing
  <2>3. QED
    BY <2>1, <2>2
<1>2. CASE FlushLoop
  BY <1>2, ReceiveKeeps, FlushKeeps, SeeStopKeeps, ResetKeeps, InsertBatchKeeps, InsertNextKeeps,
     InsertFailKeeps, SignalAllKeeps DEF FlushLoop
<1>3. QED
  BY <1>1, <1>2, CallerKeeps, StartKeeps, StopKeeps DEF Next

LEMMA IInvHolds == Spec => []IInv
BY Initially, NextKeeps, PTL DEF Spec

\* Create behaves as an INSERT: whoever is told nil has the ID of the record's own row, no
\* record has two rows, and its result goes to its row.
THEOREM CreateIsAnInsert == Spec => []CreatedIsStored
<1>1. IInv => CreatedIsStored
  BY DEF IInv, Apart, Unique, Written, Stored, Results, CreatedIsStored
<1>2. QED
  BY <1>1, IInvHolds, PTL

\* When Stop returns, every record that was in the buffer when it was called is settled.
THEOREM StopLosesNothing == Spec => []StopFlushes
<1>1. IInv => StopFlushes
  BY NoneInEmpty DEF IInv, Closing, StopFlushes
<1>2. QED
  BY <1>1, IInvHolds, PTL
=============================================================================
