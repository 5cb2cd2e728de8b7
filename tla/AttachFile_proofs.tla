--------------------------- MODULE AttachFile_proofs ---------------------------
(***************************************************************************)
(* Proofs about AttachFile, for any number of calls, names and overlaps    *)
(* of calls, and any requests that may fail.                               *)
(***************************************************************************)
EXTENDS AttachFile, FiniteSetTheorems, TLAPS

Names == {Name[c] : c \in Calls}
Attachment == [id : Nat, name : Names, content : Calls]

\* The attachments have the ids 1 to n, one each.
Numbered(as, n) ==
  /\ \A a \in as : a.id \in 1..n
  /\ \A i \in 1..n : \E a \in as : a.id = i
  /\ \A a, b \in as : a.id = b.id => a = b

\* Calls that upload no more.
Past == {c \in Calls : pc[c] \in {"deleteslot", "done"}}

\* A call attaches at most two files, now or late.
CountInv ==
  /\ IsFiniteSet(attachments) /\ Numbered(attachments, Cardinality(attachments))
  /\ IsFiniteSet(late) /\ \A u \in late : u.call \in Past
  /\ Cardinality(attachments) + Cardinality(late) <= 2 * Cardinality(Past)

OpenInv == \A c \in Open : slot[c] \in 1..lastSlot

\* Id refers to an attachment of that name.
Refers(id, name) == \E a \in attachments : a.id = id /\ a.name = name

\* What was looked up once stays there, under its name.
ReferInv ==
  /\ \A a \in attachments : a.name = Name[a.content]
  /\ \A c \in Calls : existing[c] # NoId => Refers(existing[c], Name[c])
  /\ \A u \in late : u.id # NoId => Refers(u.id, Name[u.call])
  /\ \A h \in handle : Refers(h.id, h.name)

\* As long as nobody raced for a name, one call at most works on it, and finds it
\* attached once or not at all, until it uploads.
RaceInv ==
  /\ \A c, d \in Open : c # d /\ Name[c] = Name[d] => Name[c] \in raced
  /\ \A u \in late : Name[u.call] \in raced
  /\ \A a, b \in attachments : a.name = b.name /\ a # b => a.name \in raced
  /\ \A c \in Calls : pc[c] = "upload" /\ existing[c] = NoId /\ Named(Name[c]) # {}
                        => Name[c] \in raced

\* A call that uploaded has its content there, and what it superseded is gone.
WrittenInv ==
  /\ \A c \in Calls : pc[c] = "deleteslot" /\ ~failed[c] =>
       /\ Named(Name[c]) # {}
       /\ \A a \in Named(Name[c]) : a.content # c => Name[c] \in raced
  /\ \A c \in Calls : results[c] = "returned" => Named(Name[c]) # {}
  /\ \A c \in superseded : pc[c] = "done"
  /\ \A a \in attachments : a.content \in superseded => a.name \in raced

IInv == TypeOK /\ CountInv /\ OpenInv /\ SlotsHaveOwners /\ ReferInv /\ RaceInv /\ WrittenInv

-----------------------------------------------------------------------------
(* What the backend makes of an edit or an upload. *)

\* Attachments with the ids 1 to n are n attachments.
LEMMA NumberedCount ==
  ASSUME NEW as, NEW n \in Nat, Numbered(as, n)
  PROVE  IsFiniteSet(as) /\ Cardinality(as) = n
<1> DEFINE f == [i \in 1..n |-> CHOOSE a \in as : a.id = i]
<1>1. \A i \in 1..n : f[i] \in as /\ f[i].id = i
  BY DEF Numbered
<1>2. f \in [1..n -> as]
  BY <1>1
<1>3. \A i, j \in 1..n : f[i] = f[j] => i = j
  BY <1>1
<1>4. ASSUME NEW a \in as PROVE \E i \in 1..n : f[i] = a
  <2>1. a.id \in 1..n
    BY DEF Numbered
  <2>2. f[a.id] \in as /\ f[a.id].id = a.id
    BY <1>1, <2>1
  <2>3. f[a.id] = a
    BY <2>2 DEF Numbered
  <2> QED
    BY <2>1, <2>3
<1>5. f \in Bijection(1..n, as)
  <2> HIDE DEF f
  <2> QED
    BY <1>2, <1>3, <1>4 DEF Bijection, Injection, Surjection, IsInjective
<1>6. ExistsBijection(1..n, as)
  BY <1>5 DEF ExistsBijection
<1>7. IsFiniteSet(1..n) /\ Cardinality(1..n) = n
  BY FS_Interval
<1> QED
  BY <1>6, <1>7, FS_Bijection

NewId(as, u) == IF u.id = NoId THEN Cardinality(as) + 1 ELSE u.id

\* A well-numbered set of attachments, and an upload or edit that refers to one of them.
Fits(as, u) ==
  /\ as \subseteq Attachment
  /\ Cardinality(as) \in Nat /\ Numbered(as, Cardinality(as))
  /\ u \in [call : Calls, id : Nat]
  /\ u.id # NoId => \E a \in as : a.id = u.id /\ a.name = Name[u.call]

\* There is one attachment with the content of the upload at its id; the others
\* are as before.
LEMMA AfterFacts ==
  ASSUME NEW as, NEW u, Fits(as, u)
  PROVE  /\ After(as, u) \subseteq Attachment
         /\ Cardinality(After(as, u)) \in {Cardinality(as), Cardinality(as) + 1}
         /\ Numbered(After(as, u), Cardinality(After(as, u)))
         /\ \A b \in After(as, u) :
               \/ b \in as /\ b.id # NewId(as, u)
               \/ b.id = NewId(as, u) /\ b.content = u.call /\ b.name = Name[u.call]
         /\ \A a \in as : \E b \in After(as, u) : b.id = a.id /\ b.name = a.name
         /\ \E b \in After(as, u) : b.id = NewId(as, u)
<1> DEFINE bs == After(as, u)
<1>0. PICK n \in Nat : n = Cardinality(as) /\ Numbered(as, n)
  BY DEF Fits
<1>1. u.call \in Calls /\ u.id \in Nat /\ Name[u.call] \in Names
  BY DEF Fits, Names
<1>2. \A a \in as : a.id \in 1..n /\ a.id # n + 1
  <2>1. \A a \in as : a.id \in 1..n
    BY <1>0 DEF Numbered
  <2>2. n + 1 \notin 1..n
    OBVIOUS
  <2> QED
    BY <2>1, <2>2
<1>3. CASE u.id = NoId
  <2> DEFINE new == [id |-> n + 1, name |-> Name[u.call], content |-> u.call]
  <2>1. bs = as \cup {new} /\ NewId(as, u) = n + 1
    BY <1>0, <1>3 DEF After, NewId
  <2>2. new \in Attachment /\ new.id = n + 1 /\ new.content = u.call /\ new.name = Name[u.call]
    BY <1>1 DEF Attachment
  <2>3. bs \subseteq Attachment
    BY <2>1, <2>2 DEF Fits
  <2>4. Numbered(bs, n + 1)
    <3> HIDE DEF bs, new
    <3>1. \A b \in bs : b.id \in 1..n + 1
      <4>1. \A i \in 1..n : i \in 1..n + 1
        OBVIOUS
      <4>2. n + 1 \in 1..n + 1
        OBVIOUS
      <4> QED
        BY <1>2, <2>1, <2>2, <4>1, <4>2
    <3>2. \A i \in 1..n + 1 : \E b \in bs : b.id = i
      <4> SUFFICES ASSUME NEW i \in 1..n + 1 PROVE \E b \in bs : b.id = i
        OBVIOUS
      <4>1. i \in 1..n \/ i = n + 1
        BY <1>1
      <4> QED
        BY <4>1, <1>0, <2>1, <2>2 DEF Numbered
    <3>3. \A a, b \in bs : a.id = b.id => a = b
      <4>1. \A a, b \in as : a.id = b.id => a = b
        BY <1>0 DEF Numbered
      <4> QED
        BY <4>1, <1>2, <2>1, <2>2
    <3> QED
      BY <3>1, <3>2, <3>3 DEF Numbered
  <2>5. Cardinality(bs) = n + 1
    <3> HIDE DEF bs
    <3>1. n + 1 \in Nat
      OBVIOUS
    <3> QED
      BY <2>4, <3>1, NumberedCount
  <2> HIDE DEF bs, new
  <2>6. \A a \in as : a \in bs
    BY <2>1
  <2> QED
    BY <1>0, <1>2, <2>1, <2>2, <2>3, <2>4, <2>5, <2>6 DEF bs
<1>4. CASE u.id # NoId
  <2> DEFINE edited(a) == IF a.id = u.id THEN [a EXCEPT !.content = u.call] ELSE a
  <2>1. bs = {edited(a) : a \in as} /\ NewId(as, u) = u.id
    BY <1>4 DEF After, NewId
  <2>2. \A a \in as : /\ a.id \in Nat /\ edited(a).id = a.id /\ edited(a).name = a.name
                      /\ edited(a) \in Attachment
                      /\ a.id = u.id => edited(a).content = u.call
                      /\ a.id # u.id => edited(a) = a
    BY <1>1 DEF Fits, Attachment
  <2>3. PICK r \in as : r.id = u.id /\ r.name = Name[u.call]
    BY <1>4 DEF Fits
  <2>4. \A a \in as : a.id = u.id => a = r
    BY <2>3 DEF Fits, Numbered
  <2> HIDE DEF edited, bs
  <2>5. Numbered(bs, n)
    <3>1. \A b \in bs : b.id \in 1..n
      BY <1>2, <2>1, <2>2
    <3>2. \A i \in 1..n : \E b \in bs : b.id = i
      <4> SUFFICES ASSUME NEW i \in 1..n PROVE \E b \in bs : b.id = i
        OBVIOUS
      <4>1. PICK a \in as : a.id = i
        BY <1>0 DEF Numbered
      <4> QED
        BY <4>1, <2>1, <2>2
    <3>3. \A a, b \in bs : a.id = b.id => a = b
      <4> SUFFICES ASSUME NEW a \in as, NEW b \in as, edited(a).id = edited(b).id
                   PROVE  edited(a) = edited(b)
        BY <2>1
      <4>1. a.id = b.id
        BY <2>2
      <4> QED
        BY <4>1, <1>0 DEF Numbered
    <3> QED
      BY <3>1, <3>2, <3>3 DEF Numbered
  <2>6. Cardinality(bs) = n
    BY <2>5, NumberedCount
  <2>7. bs \subseteq Attachment
    BY <2>1, <2>2
  <2>8. \A b \in bs : \/ b \in as /\ b.id # u.id
                      \/ b.id = u.id /\ b.content = u.call /\ b.name = Name[u.call]
    BY <2>1, <2>2, <2>3, <2>4
  <2>9. \A a \in as : \E b \in bs : b.id = a.id /\ b.name = a.name
    BY <2>1, <2>2
  <2>10. \E b \in bs : b.id = u.id
    BY <2>3, <2>9
  <2> QED
    BY <1>0, <2>1, <2>5, <2>6, <2>7, <2>8, <2>9, <2>10 DEF bs
<1> QED
  BY <1>3, <1>4
\* What a step that executes an upload or an edit, perhaps twice, may make of the
\* attachments: at most k more.
Attaches(u, k) ==
  /\ attachments' \subseteq Attachment
  /\ Cardinality(attachments') \in Nat
  /\ Cardinality(attachments') <= Cardinality(attachments) + k
  /\ Numbered(attachments', Cardinality(attachments'))
  /\ \A b \in attachments' : b \in attachments \/ (b.content = u.call /\ b.name = Name[u.call])
  /\ \A a \in attachments : \E b \in attachments' : b.id = a.id /\ b.name = a.name
  /\ \E b \in attachments' : b.content = u.call /\ b.name = Name[u.call]

LEMMA StateFits ==
  ASSUME IInv, NEW u \in [call : Calls, id : Ids \cup {NoId}],
         u.id # NoId => Refers(u.id, Name[u.call])
  PROVE  Fits(attachments, u)
<1>1. /\ Cardinality(attachments) \in Nat
      /\ Numbered(attachments, Cardinality(attachments))
  BY FS_CardinalityType DEF IInv, CountInv
<1>2. 2 * Cardinality(Calls) \in Nat /\ Ids \subseteq Nat
  BY FS_CardinalityType, CallsAssumption DEF Ids
<1>3. attachments \subseteq Attachment
  BY <1>2 DEF IInv, TypeOK, Attachment, Names
<1>4. u \in [call : Calls, id : Nat]
  <2>1. Ids \cup {NoId} \subseteq Nat
    BY <1>2 DEF NoId
  <2> QED
    BY <2>1
<1> QED
  BY <1>1, <1>3, <1>4 DEF Fits, Refers

\* Executed once; if nobody raced for the name, the call has it for itself.
LEMMA PutFacts ==
  ASSUME IInv, NEW u \in [call : Calls, id : Ids \cup {NoId}],
         u.id # NoId => Refers(u.id, Name[u.call]), Put(u)
  PROVE  /\ Attaches(u, 1)
         /\ Name[u.call] \notin raced /\ (u.id = NoId => Named(Name[u.call]) = {}) =>
              \A a, b \in attachments' : a.name = Name[u.call] /\ b.name = Name[u.call]
                                           => a = b /\ a.content = u.call
<1>1. Fits(attachments, u) /\ attachments' = After(attachments, u)
  BY StateFits DEF Put
<1> DEFINE new == NewId(attachments, u)
<1>2. /\ attachments' \subseteq Attachment
      /\ Cardinality(attachments') \in {Cardinality(attachments), Cardinality(attachments) + 1}
      /\ Numbered(attachments', Cardinality(attachments'))
      /\ \A b \in attachments' :
               \/ b \in attachments /\ b.id # new
               \/ b.id = new /\ b.content = u.call /\ b.name = Name[u.call]
      /\ \A a \in attachments : \E b \in attachments' : b.id = a.id /\ b.name = a.name
      /\ \E b \in attachments' : b.id = new
  BY <1>1, AfterFacts
<1>3. Cardinality(attachments) \in Nat
  BY <1>1 DEF Fits
<1>4. Attaches(u, 1)
  BY <1>2, <1>3 DEF Attaches
<1>5. ASSUME Name[u.call] \notin raced, u.id = NoId => Named(Name[u.call]) = {},
             NEW b \in attachments', b.name = Name[u.call]
      PROVE  b.id = new /\ b.content = u.call
  <2> SUFFICES ASSUME b \in attachments, b.id # new PROVE FALSE
    BY <1>2, <1>5
  <2>1. u.id # NoId
    BY <1>5 DEF Named
  <2>2. PICK a \in attachments : a.id = u.id /\ a.name = Name[u.call]
    BY <2>1 DEF Refers
  <2>3. a = b
    BY <1>5, <2>2 DEF IInv, RaceInv
  <2> QED
    BY <2>1, <2>2, <2>3 DEF NewId
<1>6. \A a, b \in attachments' : a.id = b.id => a = b
  BY <1>2 DEF Numbered
<1> QED
  BY <1>4, <1>5, <1>6

LEMMA PutTwiceFacts ==
  ASSUME IInv, NEW u \in [call : Calls, id : Ids \cup {NoId}],
         u.id # NoId => Refers(u.id, Name[u.call]), PutTwice(u)
  PROVE  Attaches(u, 2)
<1> DEFINE bs == After(attachments, u)
<1>1. Fits(attachments, u) /\ attachments' = After(bs, u)
  BY StateFits DEF PutTwice
<1>2. /\ bs \subseteq Attachment
      /\ Cardinality(bs) \in {Cardinality(attachments), Cardinality(attachments) + 1}
      /\ Numbered(bs, Cardinality(bs))
      /\ \A b \in bs : b \in attachments \/ (b.content = u.call /\ b.name = Name[u.call])
      /\ \A a \in attachments : \E b \in bs : b.id = a.id /\ b.name = a.name
  BY <1>1, AfterFacts
<1>3. Cardinality(attachments) \in Nat /\ Cardinality(bs) \in Nat
  BY <1>1, <1>2 DEF Fits
<1> HIDE DEF bs
<1>4. Fits(bs, u)
  <2>1. u.id # NoId => \E b \in bs : b.id = u.id /\ b.name = Name[u.call]
    BY <1>2 DEF Refers
  <2> QED
    BY <1>1, <1>2, <1>3, <2>1 DEF Fits
<1>5. /\ attachments' \subseteq Attachment
      /\ Cardinality(attachments') \in {Cardinality(bs), Cardinality(bs) + 1}
      /\ Numbered(attachments', Cardinality(attachments'))
      /\ \A b \in attachments' : \/ b \in bs
                                 \/ b.content = u.call /\ b.name = Name[u.call]
      /\ \A a \in bs : \E b \in attachments' : b.id = a.id /\ b.name = a.name
      /\ \E b \in attachments' : b.content = u.call /\ b.name = Name[u.call]
  <2>1. attachments' = After(bs, u)
    BY <1>1
  <2>2. /\ After(bs, u) \subseteq Attachment
        /\ Cardinality(After(bs, u)) \in {Cardinality(bs), Cardinality(bs) + 1}
        /\ Numbered(After(bs, u), Cardinality(After(bs, u)))
        /\ \A b \in After(bs, u) :
               \/ b \in bs /\ b.id # NewId(bs, u)
               \/ b.id = NewId(bs, u) /\ b.content = u.call /\ b.name = Name[u.call]
        /\ \A a \in bs : \E b \in After(bs, u) : b.id = a.id /\ b.name = a.name
        /\ \E b \in After(bs, u) : b.id = NewId(bs, u)
    BY <1>4, AfterFacts
  <2> QED
    BY <2>1, <2>2
<1>6. Cardinality(attachments') \in Nat /\ Cardinality(attachments') <= Cardinality(attachments) + 2
  BY <1>2, <1>3, <1>5
<1>7. \A b \in attachments' : b \in attachments \/ (b.content = u.call /\ b.name = Name[u.call])
  BY <1>2, <1>5
<1>8. \A a \in attachments : \E b \in attachments' : b.id = a.id /\ b.name = a.name
  <2> SUFFICES ASSUME NEW a \in attachments
               PROVE  \E b \in attachments' : b.id = a.id /\ b.name = a.name
    OBVIOUS
  <2>1. PICK b \in bs : b.id = a.id /\ b.name = a.name
    BY <1>2
  <2> QED
    BY <1>5, <2>1
<1> QED
  BY <1>5, <1>6, <1>7, <1>8 DEF Attaches
-----------------------------------------------------------------------------
(* The invariant, part by part. *)

LEMMA PastFacts ==
  IsFiniteSet(Past) /\ Cardinality(Past) \in Nat /\ Cardinality(Past) <= Cardinality(Calls)
  /\ Cardinality(Calls) \in Nat
BY CallsAssumption, FS_Subset, FS_CardinalityType DEF Past

\* A call that is done with its upload counts from then on.
LEMMA PastGrows ==
  ASSUME IInv, NEW c \in Calls, pc[c] \notin {"deleteslot", "done"},
         NEW p \in {"deleteslot", "done"}, pc' = [pc EXCEPT ![c] = p]
  PROVE  /\ c \in Past' /\ Past \subseteq Past'
         /\ Cardinality(Past') = Cardinality(Past) + 1 /\ Cardinality(Past) \in Nat
<1>1. Past' = Past \cup {c} /\ c \notin Past
  BY DEF Past, IInv, TypeOK
<1> QED
  BY <1>1, PastFacts, FS_AddElement

LEMMA PastStays ==
  ASSUME IInv, NEW c \in Calls, NEW p,
         pc[c] \in {"deleteslot", "done"} <=> p \in {"deleteslot", "done"},
         pc' = [pc EXCEPT ![c] = p]
  PROVE  Past' = Past
BY DEF Past, IInv, TypeOK

\* The ids in use are those that TypeOK allows: there are never more attachments
\* than two for each call.
LEMMA IdsSuffice ==
  ASSUME CountInv', attachments' \subseteq Attachment
  PROVE  /\ attachments' \subseteq [id : Ids, name : {Name[c] : c \in Calls}, content : Calls]
         /\ \A a, b \in attachments' : a.id = b.id => a = b
<1>1. /\ Cardinality(attachments') \in Nat /\ Cardinality(late') \in Nat
      /\ Cardinality(Past') \in Nat /\ Cardinality(Past') <= Cardinality(Calls)
      /\ Cardinality(Calls) \in Nat
  <2>1. Past' \in SUBSET Calls
    BY DEF Past
  <2> QED
    BY <2>1, CallsAssumption, FS_Subset, FS_CardinalityType DEF CountInv
<1>2. Cardinality(attachments') + Cardinality(late') <= 2 * Cardinality(Past')
  BY DEF CountInv
<1>3. Cardinality(attachments') <= 2 * Cardinality(Calls)
  BY <1>1, <1>2
<1>4. 1..Cardinality(attachments') \subseteq Ids
  BY <1>1, <1>3 DEF Ids
<1>5. Numbered(attachments', Cardinality(attachments'))
  BY DEF CountInv
<1>6. \A a \in attachments' : a.id \in Ids
  BY <1>4, <1>5 DEF Numbered
<1> QED
  BY <1>5, <1>6 DEF Numbered, Attachment, Names

\* What a call uploads in a step, it has for itself, or there was a race for the name.
Alone(u) ==
  \A a, b \in attachments' : a.name = Name[u.call] /\ b.name = Name[u.call]
                               => a = b /\ a.content = u.call

\* An upload that is executed, by its call or late: the late one raced.
LEMMA AttachesStep ==
  ASSUME IInv, NEW u \in [call : Calls, id : Ids \cup {NoId}], NEW k, Attaches(u, k),
         raced \subseteq raced', Name[u.call] \in raced' \/ Alone(u),
         late' \subseteq late,
         UNCHANGED <<existing, handle, superseded, results>>,
         \/ pc[u.call] = "upload" /\ pc' = [pc EXCEPT ![u.call] = "deleteslot"]
            /\ \A d \in Calls : d # u.call => failed'[d] = failed[d]
         \/ Name[u.call] \in raced' /\ UNCHANGED <<pc, failed>>
  PROVE  ReferInv' /\ RaceInv' /\ WrittenInv'
<1>0. u.call \in Calls
  OBVIOUS
<1>1. /\ \A b \in attachments' : b \in attachments \/ (b.content = u.call /\ b.name = Name[u.call])
      /\ \A a \in attachments : \E b \in attachments' : b.id = a.id /\ b.name = a.name
      /\ \E b \in attachments' : b.content = u.call /\ b.name = Name[u.call]
  BY DEF Attaches
<1>2. \A id, name : Refers(id, name) => Refers(id, name)'
  BY <1>1 DEF Refers
<1>3. \A name : Named(name) # {} => Named(name)' # {}
  BY <1>1 DEF Named
<1>4. Named(Name[u.call])' # {}
  BY <1>1 DEF Named
<1>5. Open' = Open /\ \A d \in Calls : d # u.call => pc'[d] = pc[d] /\ failed'[d] = failed[d]
  BY DEF Open, IInv, TypeOK
<1>6. ReferInv'
  BY <1>1, <1>2 DEF IInv, ReferInv
<1>7. RaceInv'
  <2>1. \A c, d \in Open' : c # d /\ Name[c] = Name[d] => Name[c] \in raced'
    BY <1>5 DEF IInv, RaceInv
  <2>2. \A v \in late' : Name[v.call] \in raced'
    BY DEF IInv, RaceInv
  <2>3. \A a, b \in attachments' : a.name = b.name /\ a # b => a.name \in raced'
    BY <1>1 DEF IInv, RaceInv, Alone
  <2>4. ASSUME NEW c \in Calls, pc'[c] = "upload", existing'[c] = NoId, Named(Name[c])' # {}
        PROVE  Name[c] \in raced'
    <3>1. CASE Named(Name[c]) # {} /\ pc[c] = "upload"
      BY <2>4, <3>1 DEF IInv, RaceInv
    <3>2. CASE Named(Name[c]) = {} /\ c # u.call
      <4>1. Name[c] = Name[u.call]
        BY <1>1, <2>4, <3>2 DEF Named
      <4>2. CASE pc[u.call] = "upload"
        <5>1. c \in Open /\ u.call \in Open
          BY <1>5, <2>4, <3>2, <4>2 DEF Open
        <5> QED
          BY <3>2, <4>1, <5>1 DEF IInv, RaceInv
      <4> QED
        BY <4>1, <4>2
    <3>3. CASE c = u.call /\ pc[c] # "upload"
      BY <3>3
    <3>4. CASE c = u.call /\ Named(Name[c]) = {}
      BY <2>4, <3>4 DEF IInv, TypeOK
    <3> QED
      BY <1>5, <2>4, <3>1, <3>2, <3>3, <3>4
  <2> QED
    BY <2>1, <2>2, <2>3, <2>4 DEF RaceInv
<1>8. WrittenInv'
  <2>1. ASSUME NEW c \in Calls, pc'[c] = "deleteslot", ~failed'[c]
        PROVE  /\ Named(Name[c])' # {}
               /\ \A a \in Named(Name[c])' : a.content # c => Name[c] \in raced'
    <3>1. CASE c = u.call
      BY <1>4, <2>1, <3>1 DEF Alone, Named, IInv, WrittenInv
    <3>2. CASE c # u.call
      <4>1. pc[c] = "deleteslot" /\ ~failed[c]
        BY <1>5, <2>1, <3>2
      <4>2. ASSUME NEW a \in Named(Name[c])', a.content # c PROVE Name[c] \in raced'
        <5>1. CASE a \in attachments
          BY <4>1, <4>2, <5>1 DEF Named, IInv, WrittenInv
        <5>2. CASE a \notin attachments /\ pc[u.call] = "upload"
          <6>1. Name[c] = Name[u.call] /\ c \in Open /\ u.call \in Open
            BY <1>1, <4>1, <4>2, <5>2 DEF Named, Open
          <6> QED
            BY <3>2, <6>1 DEF IInv, RaceInv
        <5>3. CASE a \notin attachments /\ Name[u.call] \in raced'
          BY <1>1, <4>2, <5>3 DEF Named
        <5> QED
          BY <5>1, <5>2, <5>3
      <4> QED
        BY <1>3, <4>1, <4>2 DEF IInv, WrittenInv
    <3> QED
      BY <3>1, <3>2
  <2>2. \A c \in Calls : results'[c] = "returned" => Named(Name[c])' # {}
    BY <1>3 DEF IInv, WrittenInv
  <2>3. \A c \in superseded' : pc'[c] = "done"
    BY DEF IInv, TypeOK, WrittenInv
  <2>4. ASSUME NEW a \in attachments', a.content \in superseded' PROVE a.name \in raced'
    <3>1. CASE a \in attachments
      BY <2>4, <3>1 DEF IInv, WrittenInv
    <3>2. CASE a \notin attachments /\ pc[u.call] = "upload"
      BY <1>1, <2>4, <3>2 DEF IInv, WrittenInv
    <3>3. CASE a \notin attachments /\ Name[u.call] \in raced'
      BY <1>1, <3>3
    <3> QED
      BY <3>1, <3>2, <3>3
  <2> QED
    BY <2>1, <2>2, <2>3, <2>4 DEF WrittenInv
<1> QED
  BY <1>6, <1>7, <1>8
-----------------------------------------------------------------------------
(* The steps. *)

LEMMA InitIInv == Init => IInv
<1> SUFFICES ASSUME Init PROVE IInv
  OBVIOUS
<1>1. IsFiniteSet({}) /\ Cardinality({}) = 0
  BY FS_EmptySet
<1>2. Past = {} /\ Open = {}
  BY DEF Init, Past, Open
<1>3. TypeOK
  BY DEF Init, TypeOK, NoSlot, NoId
<1>4. CountInv
  BY <1>1, <1>2 DEF Init, CountInv, Numbered
<1>5. OpenInv /\ SlotsHaveOwners /\ ReferInv /\ RaceInv /\ WrittenInv
  BY <1>2 DEF Init, OpenInv, SlotsHaveOwners, ReferInv, RaceInv, WrittenInv
<1> QED
  BY <1>3, <1>4, <1>5 DEF IInv

\* What opening n slots leaves, whatever of the answers was lost.
LEMMA OpenSlotsFacts ==
  ASSUME TypeOK, NEW n \in Nat, NEW m \in Nat, m <= n, OpenSlots(n, m)
  PROVE  /\ lastSlot' = lastSlot + n /\ lastSlot' \in Nat
         /\ slots' \subseteq 1..lastSlot' /\ lost' \subseteq 1..lastSlot' /\ lost \subseteq lost'
         /\ \A s \in slots' \ lost' : s \in slots \ lost \/ s \in (lastSlot + m + 1)..(lastSlot + n)
BY DEF OpenSlots, TypeOK
\* A call begins, or is refused: nothing else changes but the slots.
LEMMA NewUploadSlotStep == ASSUME IInv, NEW c \in Calls, NewUploadSlot(c) PROVE IInv'
<1>1. /\ pc[c] = "idle" /\ Race(c) /\ c \notin Open
      /\ UNCHANGED <<existing, failed, attachments, late, handle>>
  BY DEF NewUploadSlot, Open
<1>2. /\ lastSlot \in Nat /\ lost \subseteq 1..lastSlot /\ slots \subseteq 1..lastSlot
      /\ slot \in [Calls -> 0..lastSlot]
  BY DEF IInv, TypeOK
<1>3. /\ raced' \subseteq {Name[d] : d \in Calls} /\ raced \subseteq raced'
      /\ \A d \in Open : Name[d] = Name[c] => Name[c] \in raced'
  BY <1>1 DEF Race, Open, IInv, TypeOK
<1>4. PICK m \in {0, 1} :
        \/ /\ OpenSlots(m + 1, m)
           /\ slot' = [slot EXCEPT ![c] = lastSlot']
           /\ pc' = [pc EXCEPT ![c] = "list"]
           /\ UNCHANGED <<results, superseded>>
        \/ /\ OpenSlots(m, m)
           /\ Ends(c, "raised")
           /\ UNCHANGED slot
  BY DEF NewUploadSlot, LostAnswers
<1>5. CASE /\ OpenSlots(m + 1, m)
           /\ slot' = [slot EXCEPT ![c] = lastSlot']
           /\ pc' = [pc EXCEPT ![c] = "list"]
           /\ UNCHANGED <<results, superseded>>
  <2>1. /\ lastSlot' = lastSlot + (m + 1) /\ lastSlot' \in Nat
        /\ slots' \subseteq 1..lastSlot' /\ lost' \subseteq 1..lastSlot'
        /\ \A s \in slots' \ lost' :
              s \in slots \ lost \/ s \in (lastSlot + m + 1)..(lastSlot + (m + 1))
    BY <1>5, OpenSlotsFacts DEF IInv
  <2>2. Past' = Past /\ Open' = Open \cup {c}
    BY <1>1, <1>5, PastStays DEF Open, IInv, TypeOK
  <2>3. slot' \in [Calls -> 0..lastSlot']
    BY <1>2, <1>5, <2>1
  <2>4. TypeOK'
    BY <1>1, <1>2, <1>3, <1>5, <2>1, <2>3 DEF IInv, TypeOK
  <2>5. CountInv'
    BY <1>1, <2>2 DEF IInv, CountInv
  <2>6. OpenInv'
    BY <1>2, <1>5, <2>1, <2>2 DEF IInv, OpenInv
  <2>7. SlotsHaveOwners'
    <3> SUFFICES ASSUME NEW s \in slots' \ lost' PROVE \E d \in Open' : slot'[d] = s
      BY DEF SlotsHaveOwners
    <3>1. CASE s \in slots \ lost
      <4>1. PICK d \in Open : slot[d] = s
        BY <3>1 DEF IInv, SlotsHaveOwners
      <4>2. d # c /\ d \in Calls
        BY <1>1, <4>1 DEF Open
      <4> QED
        BY <1>2, <1>5, <2>2, <4>1, <4>2
    <3>2. CASE s \in (lastSlot + m + 1)..(lastSlot + (m + 1))
      <4>1. s = lastSlot'
        BY <1>2, <2>1, <3>2
      <4> QED
        BY <1>2, <1>5, <2>2, <4>1
    <3> QED
      BY <2>1, <3>1, <3>2
  <2>8. ReferInv'
    BY <1>1 DEF IInv, ReferInv, Refers
  <2>9. RaceInv'
    <3>1. \A d \in Calls : pc'[d] = "upload" => pc[d] = "upload"
      BY <1>5 DEF IInv, TypeOK
    <3> QED
      BY <1>1, <1>3, <2>2, <3>1 DEF IInv, RaceInv, Named
  <2>10. WrittenInv'
    <3>1. \A d \in Calls : pc'[d] = pc[d] \/ (d = c /\ pc'[d] = "list")
      BY <1>5 DEF IInv, TypeOK
    <3> QED
      BY <1>1, <1>3, <1>5, <3>1 DEF IInv, WrittenInv, Named
  <2> QED
    BY <2>4, <2>5, <2>6, <2>7, <2>8, <2>9, <2>10 DEF IInv
<1>6. CASE OpenSlots(m, m) /\ Ends(c, "raised") /\ UNCHANGED slot
  <2>1. /\ lastSlot' = lastSlot + m /\ lastSlot' \in Nat
        /\ slots' \subseteq 1..lastSlot' /\ lost' \subseteq 1..lastSlot'
        /\ \A s \in slots' \ lost' :
              s \in slots \ lost \/ s \in (lastSlot + m + 1)..(lastSlot + m)
    BY <1>6, OpenSlotsFacts DEF IInv
  <2>2. /\ pc' = [pc EXCEPT ![c] = "done"] /\ results' = [results EXCEPT ![c] = "raised"]
        /\ superseded' = superseded
    BY <1>6 DEF Ends
  <2>3. /\ Past \subseteq Past' /\ Cardinality(Past') = Cardinality(Past) + 1
        /\ Cardinality(Past) \in Nat /\ Open' = Open
    BY <1>1, <2>2, PastGrows DEF Open, IInv, TypeOK
  <2>4. slot' \in [Calls -> 0..lastSlot']
    BY <1>2, <1>6, <2>1
  <2>5. TypeOK'
    BY <1>1, <1>2, <1>3, <2>1, <2>2, <2>4 DEF IInv, TypeOK
  <2>6. CountInv'
    <3>1. Cardinality(attachments) \in Nat /\ Cardinality(late) \in Nat
      BY FS_CardinalityType DEF IInv, CountInv
    <3> QED
      BY <1>1, <2>3, <3>1 DEF IInv, CountInv
  <2>7. OpenInv'
    BY <1>2, <1>6, <2>1, <2>3 DEF IInv, OpenInv, Open
  <2>8. SlotsHaveOwners'
    BY <1>2, <1>6, <2>1, <2>3 DEF IInv, SlotsHaveOwners
  <2>9. ReferInv'
    BY <1>1 DEF IInv, ReferInv, Refers
  <2>10. \A d \in Calls : pc'[d] = pc[d] \/ (d = c /\ pc'[d] = "done" /\ results'[d] = "raised")
    BY <2>2 DEF IInv, TypeOK
  <2>11. RaceInv'
    BY <1>1, <1>3, <2>3, <2>10 DEF IInv, RaceInv, Named
  <2>12. \A d \in Calls : results'[d] = "returned" => results[d] = "returned"
    BY <2>2 DEF IInv, TypeOK
  <2>13. WrittenInv'
    BY <1>1, <1>3, <2>2, <2>10, <2>12 DEF IInv, WrittenInv, Named
  <2> QED
    BY <2>5, <2>6, <2>7, <2>8, <2>9, <2>11, <2>13 DEF IInv
<1> QED
  BY <1>4, <1>5, <1>6

LEMMA ListStep == ASSUME IInv, NEW c \in Calls, List(c) PROVE IInv'
<1>1. /\ pc[c] = "list" /\ c \in Open
      /\ UNCHANGED <<slot, results, slotVars, attachments, late, raced, handle, superseded>>
  BY DEF List, Open
<1>2. CASE /\ \/ /\ Named(Name[c]) = {}
                 /\ existing' = [existing EXCEPT ![c] = NoId]
              \/ \E a \in Named(Name[c]) : existing' = [existing EXCEPT ![c] = a.id]
           /\ pc' = [pc EXCEPT ![c] = "upload"]
           /\ UNCHANGED failed
  <2>1. PICK id \in Ids \cup {NoId} :
          /\ existing' = [existing EXCEPT ![c] = id]
          /\ \/ id = NoId /\ Named(Name[c]) = {}
             \/ id # NoId /\ Refers(id, Name[c])
    <3>1. CASE Named(Name[c]) = {} /\ existing' = [existing EXCEPT ![c] = NoId]
      BY <3>1
    <3>2. CASE \E a \in Named(Name[c]) : existing' = [existing EXCEPT ![c] = a.id]
      <4>1. PICK a \in attachments : a.name = Name[c] /\ existing' = [existing EXCEPT ![c] = a.id]
        BY <3>2 DEF Named
      <4>2. a.id \in Ids /\ NoId \notin Ids
        BY <4>1 DEF IInv, TypeOK, Ids, NoId
      <4> QED
        BY <4>1, <4>2 DEF Refers
    <3> QED
      BY <1>2, <3>1, <3>2
  <2>2. Past' = Past /\ Open' = Open
    BY <1>1, <1>2, PastStays DEF Open, IInv, TypeOK
  <2>3. TypeOK'
    BY <1>1, <1>2, <2>1 DEF IInv, TypeOK, slotVars
  <2>4. CountInv' /\ OpenInv' /\ SlotsHaveOwners'
    BY <1>1, <2>2 DEF IInv, CountInv, OpenInv, SlotsHaveOwners, slotVars
  <2>5. /\ \A d \in Calls \ {c} : pc'[d] = pc[d] /\ existing'[d] = existing[d]
        /\ pc'[c] = "upload" /\ existing'[c] = id
    BY <1>2, <2>1 DEF IInv, TypeOK
  <2>6. ReferInv'
    BY <1>1, <2>1, <2>5 DEF IInv, ReferInv, Refers
  <2>7. RaceInv'
    BY <1>1, <2>1, <2>2, <2>5 DEF IInv, RaceInv, Named
  <2>8. WrittenInv'
    BY <1>1, <1>2, <2>5 DEF IInv, WrittenInv, Named
  <2> QED
    BY <2>3, <2>4, <2>6, <2>7, <2>8 DEF IInv
<1>3. CASE LeaveTry(c, TRUE) /\ UNCHANGED existing
  <2>1. pc' = [pc EXCEPT ![c] = "deleteslot"] /\ failed' = [failed EXCEPT ![c] = TRUE]
    BY <1>3 DEF LeaveTry
  <2>2. /\ Past \subseteq Past' /\ Cardinality(Past') = Cardinality(Past) + 1
        /\ Cardinality(Past) \in Nat /\ Open' = Open
    BY <1>1, <2>1, PastGrows DEF Open, IInv, TypeOK
  <2>3. TypeOK'
    BY <1>1, <1>3, <2>1 DEF IInv, TypeOK, slotVars
  <2>4. CountInv'
    <3>1. Cardinality(attachments) \in Nat /\ Cardinality(late) \in Nat
      BY FS_CardinalityType DEF IInv, CountInv
    <3> QED
      BY <1>1, <2>2, <3>1 DEF IInv, CountInv
  <2>5. OpenInv' /\ SlotsHaveOwners'
    BY <1>1, <2>2 DEF IInv, OpenInv, SlotsHaveOwners, slotVars
  <2>6. /\ \A d \in Calls \ {c} : pc'[d] = pc[d] /\ failed'[d] = failed[d]
        /\ pc'[c] = "deleteslot" /\ failed'[c] = TRUE
    BY <2>1 DEF IInv, TypeOK
  <2>7. ReferInv' /\ RaceInv'
    BY <1>1, <1>3, <2>2, <2>6 DEF IInv, ReferInv, Refers, RaceInv, Named
  <2>8. WrittenInv'
    <3>1. \A d \in Calls : pc'[d] = "deleteslot" /\ ~failed'[d]
                           => pc[d] = "deleteslot" /\ ~failed[d]
      BY <2>6
    <3>2. \A d \in Calls : pc[d] = "done" => pc'[d] = "done"
      BY <1>1, <2>6
    <3> QED
      BY <1>1, <3>1, <3>2 DEF IInv, TypeOK, WrittenInv, Named
  <2> QED
    BY <2>3, <2>4, <2>5, <2>7, <2>8 DEF IInv
<1> QED
  BY <1>2, <1>3 DEF List
\* The upload of a call is over, whatever became of it: the rest of the invariant
\* follows from what the backend did.
LEMMA UploadEnds ==
  ASSUME IInv, NEW c \in Calls, pc[c] = "upload",
         NEW exception \in BOOLEAN, LeaveTry(c, exception),
         ReferInv', RaceInv', WrittenInv',
         attachments' \subseteq Attachment, IsFiniteSet(attachments'),
         Numbered(attachments', Cardinality(attachments')),
         IsFiniteSet(late'), late' \subseteq late \cup {[call |-> c, id |-> existing[c]]},
         Cardinality(attachments') + Cardinality(late')
           <= Cardinality(attachments) + Cardinality(late) + 2,
         raced' \in {raced, raced \cup {Name[c]}},
         UNCHANGED <<slot, existing, results, slotVars, handle, superseded>>
  PROVE  IInv'
<1>1. pc' = [pc EXCEPT ![c] = "deleteslot"] /\ failed' = [failed EXCEPT ![c] = exception]
  BY DEF LeaveTry
<1>2. /\ c \in Past' /\ Past \subseteq Past' /\ Cardinality(Past') = Cardinality(Past) + 1
      /\ Cardinality(Past) \in Nat /\ Open' = Open
  BY <1>1, PastGrows DEF Open, IInv, TypeOK
<1>3. CountInv'
  <2>1. /\ Cardinality(attachments) \in Nat /\ Cardinality(late) \in Nat
        /\ Cardinality(attachments') \in Nat /\ Cardinality(late') \in Nat
    BY FS_CardinalityType DEF IInv, CountInv
  <2>2. Cardinality(attachments') + Cardinality(late') <= 2 * Cardinality(Past')
    BY <1>2, <2>1 DEF IInv, CountInv
  <2>3. \A u \in late' : u.call \in Past'
    BY <1>2 DEF IInv, CountInv
  <2> QED
    BY <2>2, <2>3 DEF CountInv
<1>4. TypeOK'
  <2>1. /\ attachments' \subseteq [id : Ids, name : {Name[d] : d \in Calls}, content : Calls]
        /\ \A a, b \in attachments' : a.id = b.id => a = b
    BY <1>3, IdsSuffice
  <2>2. late' \subseteq [call : Calls, id : Ids \cup {NoId}]
    BY DEF IInv, TypeOK
  <2> QED
    BY <1>1, <2>1, <2>2 DEF IInv, TypeOK, slotVars
<1>5. OpenInv' /\ SlotsHaveOwners'
  BY <1>2 DEF IInv, OpenInv, SlotsHaveOwners, slotVars
<1> QED
  BY <1>3, <1>4, <1>5 DEF IInv

\* Nothing is executed now: what was attached stays as it is.
LEMMA NothingUploaded ==
  ASSUME IInv, NEW c \in Calls, pc[c] = "upload", LeaveTry(c, TRUE),
         late' \in {late, late \cup {[call |-> c, id |-> existing[c]]}},
         raced' \in {raced, raced \cup {Name[c]}},
         late' = late \/ Name[c] \in raced',
         UNCHANGED <<attachments, slot, existing, results, slotVars, handle, superseded>>
  PROVE  IInv'
<1>1. pc' = [pc EXCEPT ![c] = "deleteslot"] /\ failed' = [failed EXCEPT ![c] = TRUE]
  BY DEF LeaveTry
<1>2. /\ \A d \in Calls \ {c} : pc'[d] = pc[d] /\ failed'[d] = failed[d]
      /\ pc'[c] = "deleteslot" /\ failed'[c] = TRUE
  BY <1>1 DEF IInv, TypeOK
<1>3. Open' = Open
  BY <1>1 DEF Open, IInv, TypeOK
<1>4. ReferInv'
  BY DEF IInv, ReferInv, Refers
<1>5. RaceInv'
  BY <1>2, <1>3 DEF IInv, RaceInv, Named
<1>6. WrittenInv'
  <2>1. \A d \in Calls : pc'[d] = "deleteslot" /\ ~failed'[d]
                         => pc[d] = "deleteslot" /\ ~failed[d]
    BY <1>2
  <2>2. \A d \in Calls : pc[d] = "done" => pc'[d] = "done"
    BY <1>2
  <2> QED
    BY <2>1, <2>2 DEF IInv, TypeOK, WrittenInv, Named
<1>7. /\ IsFiniteSet(late') /\ Cardinality(late') <= Cardinality(late) + 1
      /\ Cardinality(late') \in Nat /\ Cardinality(late) \in Nat
      /\ Cardinality(attachments) \in Nat
  <2> DEFINE more == late \cup {[call |-> c, id |-> existing[c]]}
  <2>1. /\ IsFiniteSet(late) /\ Cardinality(late) \in Nat
        /\ Cardinality(attachments) \in Nat
    BY FS_CardinalityType DEF IInv, CountInv
  <2>2. /\ IsFiniteSet(more)
        /\ Cardinality(more) \in {Cardinality(late), Cardinality(late) + 1}
    BY <2>1, FS_AddElement
  <2>3. late' \in {late, more}
    OBVIOUS
  <2> HIDE DEF more
  <2> QED
    BY <2>1, <2>2, <2>3
<1>8. attachments' \subseteq Attachment
  <2>1. Ids \subseteq Nat
    BY DEF Ids
  <2> QED
    BY <2>1 DEF IInv, TypeOK, Attachment, Names
<1>9. Cardinality(attachments') + Cardinality(late')
           <= Cardinality(attachments) + Cardinality(late) + 2
  BY <1>7
<1>10. IsFiniteSet(attachments') /\ Numbered(attachments', Cardinality(attachments'))
  BY DEF IInv, CountInv
<1> QED
  BY <1>4, <1>5, <1>6, <1>7, <1>8, <1>9, <1>10, UploadEnds

\* Something is executed now.
LEMMA Uploaded ==
  ASSUME IInv, NEW c \in Calls, pc[c] = "upload", NEW exception \in BOOLEAN, LeaveTry(c, exception),
         NEW u, u = [call |-> c, id |-> existing[c]],
         \/ Put(u) /\ raced' = raced
         \/ PutTwice(u) /\ raced' = raced \cup {Name[c]},
         UNCHANGED <<late, slot, existing, results, slotVars, handle, superseded>>
  PROVE  IInv'
<1>1. /\ u \in [call : Calls, id : Ids \cup {NoId}] /\ u.call = c
      /\ u.id # NoId => Refers(u.id, Name[u.call])
  BY DEF IInv, TypeOK, ReferInv
<1>2. PICK k \in {1, 2} : Attaches(u, k) /\ (Name[c] \in raced' \/ Alone(u))
  <2>1. CASE Put(u) /\ raced' = raced
    <3>1. u.id = NoId /\ Name[c] \notin raced => Named(Name[c]) = {}
      BY DEF IInv, RaceInv
    <3> QED
      BY <1>1, <2>1, <3>1, PutFacts DEF Alone
  <2>2. CASE PutTwice(u) /\ raced' = raced \cup {Name[c]}
    BY <1>1, <2>2, PutTwiceFacts
  <2> QED
    BY <2>1, <2>2
<1>3. pc' = [pc EXCEPT ![c] = "deleteslot"] /\ failed' = [failed EXCEPT ![c] = exception]
  BY DEF LeaveTry
<1>4. ReferInv' /\ RaceInv' /\ WrittenInv'
  <2>1. raced \subseteq raced'
    OBVIOUS
  <2>2. \A d \in Calls : d # u.call => failed'[d] = failed[d]
    BY <1>1, <1>3 DEF IInv, TypeOK
  <2> QED
    BY <1>1, <1>2, <1>3, <2>1, <2>2, AttachesStep
<1>5. /\ Cardinality(attachments') \in Nat
      /\ Cardinality(attachments') <= Cardinality(attachments) + 2
      /\ Numbered(attachments', Cardinality(attachments'))
      /\ attachments' \subseteq Attachment
      /\ Cardinality(attachments) \in Nat /\ Cardinality(late) \in Nat /\ IsFiniteSet(late)
  BY <1>2, FS_CardinalityType DEF Attaches, IInv, CountInv
<1>6. IsFiniteSet(attachments')
  BY <1>5, NumberedCount
<1>7. Cardinality(attachments') + Cardinality(late')
           <= Cardinality(attachments) + Cardinality(late) + 2
  BY <1>5
<1> QED
  BY <1>4, <1>5, <1>6, <1>7, UploadEnds

LEMMA UploadStep == ASSUME IInv, NEW c \in Calls, Upload(c) PROVE IInv'
<1> DEFINE upload == [call |-> c, id |-> existing[c]]
<1>1. pc[c] = "upload" /\ UNCHANGED <<slot, existing, results, slotVars, handle, superseded>>
  BY DEF Upload
<1>2. CASE Put(upload) /\ (\E e \in BOOLEAN : LeaveTry(c, e)) /\ UNCHANGED <<late, raced>>
  BY <1>1, <1>2, Uploaded
<1>3. CASE /\ PutTwice(upload) /\ (\E e \in BOOLEAN : LeaveTry(c, e))
           /\ raced' = raced \cup {Name[c]} /\ UNCHANGED late
  BY <1>1, <1>3, Uploaded
<1>4. CASE LeaveTry(c, TRUE) /\ UNCHANGED <<attachments, late, raced>>
  BY <1>1, <1>4, NothingUploaded
<1>5. CASE /\ LeaveTry(c, TRUE) /\ UNCHANGED attachments
           /\ late' = late \cup {upload} /\ raced' = raced \cup {Name[c]}
  BY <1>1, <1>5, NothingUploaded
<1> QED
  BY <1>2, <1>3, <1>4, <1>5 DEF Upload
\* A call ends; if it returned, it has its file there, and what it superseded of
\* its name is not attached any more, unless there was a race.
LEMMA DeleteSlotStep == ASSUME IInv, NEW c \in Calls, DeleteSlot(c) PROVE IInv'
<1>1. /\ pc[c] = "deleteslot" /\ c \in Open
      /\ UNCHANGED <<slot, existing, failed, lastSlot, attachments, late, raced, handle>>
  BY DEF DeleteSlot, Open
<1>2. PICK result \in {"returned", "raised"} :
        Ends(c, result) /\ (result = "returned" => ~failed[c])
  BY DEF DeleteSlot
<1>3. /\ pc' = [pc EXCEPT ![c] = "done"] /\ results' = [results EXCEPT ![c] = result]
      /\ superseded' = IF result = "returned"
                       THEN superseded \cup {d \in Calls : Name[d] = Name[c] /\ pc[d] = "done"}
                       ELSE superseded
  BY <1>2 DEF Ends
<1>4. /\ slot[c] \in 1..lastSlot
      /\ \/ slots' = slots \ {slot[c]} /\ lost' = lost
         \/ slots' \in {slots, slots \ {slot[c]}} /\ lost' = lost \cup {slot[c]}
  BY <1>1 DEF DeleteSlot, IInv, OpenInv
<1>5. Past' = Past /\ Open' = Open \ {c}
  BY <1>1, <1>3, PastStays DEF Open, IInv, TypeOK
<1>6. TypeOK'
  BY <1>1, <1>3, <1>4 DEF IInv, TypeOK
<1>7. CountInv' /\ OpenInv' /\ ReferInv'
  BY <1>1, <1>5 DEF IInv, CountInv, OpenInv, ReferInv, Refers
<1>8. SlotsHaveOwners'
  BY <1>1, <1>4, <1>5 DEF IInv, SlotsHaveOwners
<1>9. /\ \A d \in Calls \ {c} : pc'[d] = pc[d] /\ results'[d] = results[d]
      /\ pc'[c] = "done" /\ results'[c] = result
  BY <1>3 DEF IInv, TypeOK
<1>10. RaceInv'
  BY <1>1, <1>5, <1>9 DEF IInv, RaceInv, Named
<1>11. WrittenInv'
  <2>1. \A d \in Calls : pc'[d] = "deleteslot" => d # c /\ pc[d] = "deleteslot"
    BY <1>9
  <2>2. \A d \in Calls : results'[d] = "returned" => Named(Name[d]) # {}
    BY <1>1, <1>2, <1>9 DEF IInv, WrittenInv
  <2>3. \A d \in superseded' : pc'[d] = "done"
    BY <1>3, <1>9 DEF IInv, TypeOK, WrittenInv
  <2>4. ASSUME NEW a \in attachments, a.content \in superseded' PROVE a.name \in raced
    <3>1. CASE a.content \in superseded
      BY <3>1 DEF IInv, WrittenInv
    <3>2. CASE result = "returned" /\ Name[a.content] = Name[c] /\ pc[a.content] = "done"
      <4>1. a \in Named(Name[c]) /\ a.content # c
        BY <1>1, <3>2 DEF IInv, ReferInv, Named
      <4> QED
        BY <1>1, <1>2, <3>2, <4>1 DEF IInv, WrittenInv, Named
    <3> QED
      BY <1>3, <2>4, <3>1, <3>2
  <2> QED
    BY <1>1, <2>1, <2>2, <2>3, <2>4 DEF IInv, WrittenInv, Named
<1> QED
  BY <1>6, <1>7, <1>8, <1>10, <1>11 DEF IInv

LEMMA LateUploadStep == ASSUME IInv, LateUpload PROVE IInv'
<1>1. PICK u \in late :
        /\ late' = late \ {u}
        /\ Put(u) \/ UNCHANGED attachments
        /\ UNCHANGED <<callVars, slotVars, raced, handle, superseded>>
  BY DEF LateUpload
<1>2. /\ u \in [call : Calls, id : Ids \cup {NoId}] /\ Name[u.call] \in raced
      /\ u.id # NoId => Refers(u.id, Name[u.call])
  BY DEF IInv, TypeOK, ReferInv, RaceInv
<1>3. Past' = Past /\ Open' = Open
  BY <1>1 DEF Past, Open, callVars
<1>4. /\ IsFiniteSet(late') /\ Cardinality(late') = Cardinality(late) - 1
      /\ Cardinality(late) \in Nat /\ Cardinality(attachments) \in Nat
      /\ Cardinality(Past) \in Nat
  BY <1>1, PastFacts, FS_RemoveElement, FS_CardinalityType DEF IInv, CountInv
<1>5. OpenInv' /\ SlotsHaveOwners'
  BY <1>1, <1>3 DEF IInv, OpenInv, SlotsHaveOwners, slotVars, callVars
<1>6. CASE Put(u)
  <2>1. Attaches(u, 1)
    BY <1>2, <1>6, PutFacts
  <2>2. ReferInv' /\ RaceInv' /\ WrittenInv'
    <3>1. /\ raced \subseteq raced' /\ late' \subseteq late /\ Name[u.call] \in raced'
          /\ UNCHANGED <<existing, handle, superseded, results>> /\ UNCHANGED <<pc, failed>>
      BY <1>1, <1>2 DEF callVars
    <3> QED
      BY <1>2, <2>1, <3>1, AttachesStep
  <2>3. /\ Cardinality(attachments') \in Nat
        /\ Cardinality(attachments') <= Cardinality(attachments) + 1
        /\ Numbered(attachments', Cardinality(attachments'))
        /\ attachments' \subseteq Attachment
    BY <2>1 DEF Attaches
  <2>4. CountInv'
    <3>1. IsFiniteSet(attachments')
      BY <2>3, NumberedCount
    <3>2. Cardinality(attachments') + Cardinality(late') <= 2 * Cardinality(Past')
      BY <1>3, <1>4, <2>3 DEF IInv, CountInv
    <3> QED
      BY <1>1, <1>3, <1>4, <2>3, <3>1, <3>2 DEF IInv, CountInv
  <2>5. TypeOK'
    <3>1. /\ attachments' \subseteq [id : Ids, name : {Name[d] : d \in Calls}, content : Calls]
          /\ \A a, b \in attachments' : a.id = b.id => a = b
      BY <2>3, <2>4, IdsSuffice
    <3> QED
      BY <1>1, <3>1 DEF IInv, TypeOK, callVars, slotVars
  <2> QED
    BY <1>5, <2>2, <2>4, <2>5 DEF IInv
<1>7. CASE UNCHANGED attachments
  <2>1. TypeOK' /\ ReferInv' /\ WrittenInv'
    BY <1>1, <1>7 DEF IInv, TypeOK, ReferInv, Refers, WrittenInv, Named, callVars, slotVars
  <2>2. RaceInv'
    BY <1>1, <1>3, <1>7 DEF IInv, RaceInv, Named, callVars
  <2>3. CountInv'
    BY <1>1, <1>3, <1>4, <1>7 DEF IInv, CountInv
  <2> QED
    BY <1>5, <2>1, <2>2, <2>3 DEF IInv
<1> QED
  BY <1>1, <1>6, <1>7

LEMMA LookUpStep == ASSUME IInv, NEW c \in Calls, LookUp(Name[c]) PROVE IInv'
<1>1. /\ \E a \in Named(Name[c]) : handle' = {[id |-> a.id, name |-> Name[c]]}
      /\ UNCHANGED <<callVars, slotVars, attachments, late, raced, superseded>>
  BY DEF LookUp
<1>2. PICK a \in attachments : a.name = Name[c] /\ handle' = {[id |-> a.id, name |-> Name[c]]}
  BY <1>1 DEF Named
<1> DEFINE h == [id |-> a.id, name |-> Name[c]]
<1>a. h \in [id : Ids, name : {Name[d] : d \in Calls}] /\ h.id = a.id /\ h.name = a.name
  BY <1>2 DEF IInv, TypeOK
<1>b. handle' = {h}
  BY <1>2
<1> HIDE DEF h
<1>3. TypeOK'
  BY <1>1, <1>a, <1>b DEF IInv, TypeOK, callVars, slotVars
<1>4. ReferInv'
  BY <1>1, <1>a, <1>b DEF IInv, ReferInv, Refers, callVars
<1>5. CountInv' /\ OpenInv' /\ SlotsHaveOwners' /\ RaceInv' /\ WrittenInv'
  BY <1>1 DEF IInv, CountInv, Past, OpenInv, Open, SlotsHaveOwners, RaceInv, WrittenInv, Named,
     callVars, slotVars
<1> QED
  BY <1>3, <1>4, <1>5 DEF IInv

LEMMA NextIInv == IInv /\ [Next]_vars => IInv'
<1> SUFFICES ASSUME IInv, [Next]_vars PROVE IInv'
  OBVIOUS
<1>1. ASSUME NEW c \in Calls, NewUploadSlot(c) PROVE IInv'
  BY <1>1, NewUploadSlotStep
<1>2. ASSUME NEW c \in Calls, Step(c) PROVE IInv'
  BY <1>2, ListStep, UploadStep, DeleteSlotStep DEF Step
<1>3. ASSUME NEW c \in Calls, LookUp(Name[c]) PROVE IInv'
  BY <1>3, LookUpStep
<1>4. CASE LateUpload
  BY <1>4, LateUploadStep
<1>5. CASE UNCHANGED vars
  BY <1>5 DEF vars, callVars, slotVars, IInv, TypeOK, CountInv, Past, OpenInv, Open,
     SlotsHaveOwners, ReferInv, Refers, RaceInv, WrittenInv, Named
<1> QED
  BY <1>1, <1>2, <1>3, <1>4, <1>5 DEF Next

LEMMA Invariant == Spec => []IInv
BY InitIInv, NextIInv, PTL DEF Spec

-----------------------------------------------------------------------------
\* The state keeps its shape: attachments keep ids of their own, two for each call
\* at most.
THEOREM TypeCorrect == Spec => []TypeOK
<1>1. IInv => TypeOK
  BY DEF IInv
<1> QED
  BY <1>1, Invariant, PTL

\* Every open upload slot belongs to a call under way (the finally block of
\* attach_file), unless a request about it was not answered.
THEOREM SlotsAreOwned == Spec => []SlotsHaveOwners
<1>1. IInv => SlotsHaveOwners
  BY DEF IInv
<1> QED
  BY <1>1, Invariant, PTL

\* What returned is there, and only a race makes two attachments of one name.
THEOREM FilesAreAttachedOnce == Spec => []AttachedOnce
<1>1. IInv => AttachedOnce
  BY DEF IInv, AttachedOnce, RaceInv, WrittenInv
<1> QED
  BY <1>1, Invariant, PTL

\* A reader's Attachment stays good for one content of the name, the newest unless
\* there was a race for the name.
THEOREM DownloadsAreNewest == Spec => []DownloadIsNewest
<1>1. IInv => DownloadIsNewest
  <2> SUFFICES ASSUME IInv, NEW h \in handle
               PROVE  \E c \in Calls :
                        /\ Downloaded(h.id) = {c} /\ Name[c] = h.name
                        /\ c \in superseded => h.name \in raced
    BY DEF DownloadIsNewest
  <2>1. PICK a \in attachments : a.id = h.id /\ a.name = h.name
    BY DEF IInv, ReferInv, Refers
  <2>2. a.content \in Calls /\ Name[a.content] = h.name
    BY <2>1 DEF IInv, TypeOK, ReferInv
  <2>3. \A b \in attachments : b.id = h.id => b = a
    BY <2>1 DEF IInv, TypeOK
  <2>4. Downloaded(h.id) = {a.content}
    BY <2>1, <2>3 DEF Downloaded
  <2>5. a.content \in superseded => h.name \in raced
    BY <2>1 DEF IInv, WrittenInv
  <2> QED
    BY <2>2, <2>4, <2>5
<1> QED
  BY <1>1, Invariant, PTL
=============================================================================
