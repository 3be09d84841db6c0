---------------------- MODULE CollectorDelivery_proofs ----------------------
(***************************************************************************)
(* Proofs about the outbox pipeline, for every set of subscriptions, of    *)
(* posts and of malformed posts, every limit and every number of crashes.  *)
(***************************************************************************)
EXTENDS CollectorDelivery, OrderLemmas

\* Row ids tell rows apart; apply_upload_results orders the rows by them.
RowIdsUnique ==
  /\ IsFiniteSet(outbox)
  /\ \A r, q \in outbox : r.id = q.id => r = q

\* While an upload is in progress the rows it took are still in the outbox,
\* and no older row is missing among them.
PendingIsPrefix ==
  phase = "uploading" =>
    /\ pending \subseteq outbox
    /\ \A r \in pending, q \in outbox : q.id < r.id => q \in pending

\* What one result says of the row at its place in the request.
Sound(x, r) ==
  /\ x.pos = r.id /\ x.ext = r.ext
  /\ x.status \in {"accepted", "duplicate"} => Item(r) \in Stored
  /\ x.status = "invalid" => Item(r) \in Malformed

\* The answer to the upload in progress judges each of its rows, once.
ReplyIsSound ==
  reply.answered =>
    /\ phase = "uploading"
    /\ \A x \in reply.items : \E r \in pending : Sound(x, r)
    /\ \A x, y \in reply.items : x.pos = y.pos => x = y
    /\ \A r \in pending : \E x \in reply.items : x.pos = r.id

IInv ==
  /\ TypeOK
  /\ RowIdsUnique
  /\ PendingIsPrefix
  /\ ReplyIsSound
  /\ NothingLost
  /\ DeadLettersDeserved

-----------------------------------------------------------------------------
(* Ranks.                                                                  *)

\* The older of two rows with one external id has fewer such rows before it.
LEMMA OlderRowRanksLower ==
  ASSUME TypeOK, RowIdsUnique, NEW q \in outbox, NEW r \in outbox,
         q.ext = r.ext, q.id < r.id
  PROVE  Cardinality(EarlierRows(q)) < Cardinality(EarlierRows(r))
<1>1. \A w \in outbox : w.id \in Nat
  BY DEF TypeOK, Rows
<1>2. /\ EarlierRows(q) \in SUBSET outbox /\ EarlierRows(r) \in SUBSET outbox
      /\ EarlierRows(q) \subseteq EarlierRows(r)
  BY <1>1 DEF EarlierRows
<1>3. q \in EarlierRows(r) /\ q \notin EarlierRows(q)
  BY <1>1 DEF EarlierRows
<1> QED
  BY <1>2, <1>3, SmallerSubset DEF RowIdsUnique

\* apply_upload_results gives a result to the row it is about, although it
\* looks the row up by external id alone.
LEMMA ResultMeetsItsRow ==
  ASSUME TypeOK, RowIdsUnique, PendingIsPrefix, ReplyIsSound, reply.answered,
         NEW x \in reply.items, NEW r \in outbox, Meets(x, r)
  PROVE  r \in pending /\ Sound(x, r)
<1>1. PICK r0 \in pending : Sound(x, r0)
  BY DEF ReplyIsSound
<1>2. /\ r0 \in outbox /\ r0.id = x.pos /\ r0.ext = x.ext /\ x.ext = r.ext
      /\ pending \subseteq outbox
      /\ \A w \in pending, q \in outbox : q.id < w.id => q \in pending
  BY <1>1 DEF ReplyIsSound, PendingIsPrefix, Sound, Meets
<1>3. \A w \in outbox : w.id \in Nat
  BY DEF TypeOK, Rows
<1> DEFINE S == EarlierResults(x)
           T == EarlierRows(r0)
           f == [y \in S |-> CHOOSE q \in outbox : q.id = y.pos]
<1>4. \A y \in S : \E q \in T : q.id = y.pos
  BY <1>1, <1>2, <1>3 DEF EarlierResults, EarlierRows, ReplyIsSound, Sound
<1>5. \A y \in S : f[y] \in T /\ f[y].id = y.pos
  <2> TAKE y \in S
  <2>1. PICK q \in T : q.id = y.pos
    BY <1>4
  <2>2. q \in outbox /\ \A w \in outbox : w.id = y.pos => w = q
    BY <2>1 DEF RowIdsUnique, EarlierRows
  <2>3. f[y] = q
    BY <2>1, <2>2
  <2> QED
    BY <2>1, <2>3
<1>6. f \in Injection(S, T)
  <2>1. f \in [S -> T]
    BY <1>5
  <2>2. \A y, z \in S : f[y] = f[z] => y = z
    <3> TAKE y, z \in S
    <3> HAVE f[y] = f[z]
    <3>1. y.pos = z.pos
      BY <1>5
    <3> QED
      BY <3>1 DEF ReplyIsSound, EarlierResults
  <2> QED
    BY <2>1, <2>2 DEF Injection, IsInjective
<1>7. f \in Surjection(S, T)
  <2>1. ASSUME NEW q \in T PROVE \E y \in S : f[y] = q
    <3>1. q \in outbox /\ q.ext = x.ext /\ q.id < x.pos /\ q \in pending
      BY <1>2, <2>1 DEF EarlierRows
    <3>2. PICK y \in reply.items : y.pos = q.id
      BY <3>1 DEF ReplyIsSound
    <3>3. PICK w \in pending : Sound(y, w)
      BY <3>2 DEF ReplyIsSound
    <3>4. w = q /\ y.ext = q.ext
      BY <3>1, <3>2, <3>3, <1>2 DEF Sound, RowIdsUnique
    <3>5. y \in S
      BY <3>1, <3>2, <3>4 DEF EarlierResults
    <3>6. f[y] \in outbox /\ f[y].id = q.id
      BY <1>5, <3>5, <3>2 DEF EarlierRows
    <3> QED
      BY <3>1, <3>5, <3>6 DEF RowIdsUnique
  <2> QED
    BY <1>6, <2>1 DEF Surjection, Injection
<1>8. Cardinality(S) = Cardinality(T)
  <2>1. IsFiniteSet(T)
    BY FS_Subset DEF EarlierRows, RowIdsUnique
  <2> HIDE DEF S, T, f
  <2> QED
    BY <1>6, <1>7, <2>1, FS_Injection
<1>9. Cardinality(EarlierRows(r)) = Cardinality(EarlierRows(r0))
  BY <1>8 DEF Meets
<1>10. r.id = r0.id
  <2>1. ASSUME r.id < r0.id PROVE FALSE
    <3>1. Cardinality(EarlierRows(r)) < Cardinality(EarlierRows(r0))
      BY <2>1, <1>2, OlderRowRanksLower
    <3>2. Cardinality(EarlierRows(r0)) \in Nat
      BY FS_Subset, FS_CardinalityType DEF EarlierRows, RowIdsUnique
    <3> QED
      BY <3>1, <3>2, <1>9
  <2>2. ASSUME r0.id < r.id PROVE FALSE
    <3>1. Cardinality(EarlierRows(r0)) < Cardinality(EarlierRows(r))
      BY <2>2, <1>2, OlderRowRanksLower
    <3>2. Cardinality(EarlierRows(r0)) \in Nat
      BY FS_Subset, FS_CardinalityType DEF EarlierRows, RowIdsUnique
    <3> QED
      BY <3>1, <3>2, <1>9
  <2> QED
    BY <2>1, <2>2, <1>2, <1>3
<1> QED
  BY <1>1, <1>2, <1>10 DEF RowIdsUnique

\* The uploaded rows are a prefix of the outbox in the order of the ids.
LEMMA WindowIsPrefix ==
  ASSUME TypeOK, RowIdsUnique, NEW r \in Window, NEW q \in outbox, q.id < r.id
  PROVE  q \in Window
<1> DEFINE Before(w) == {v \in outbox : v.id < w.id}
<1>1. \A w \in outbox : w.id \in Nat
  BY DEF TypeOK, Rows
<1>2. r \in outbox /\ Cardinality(Before(r)) < UploadLimit
  BY DEF Window
<1>3. /\ Before(q) \in SUBSET outbox /\ Before(r) \in SUBSET outbox
      /\ Before(q) \subseteq Before(r)
  BY <1>1, <1>2
<1>4. /\ Cardinality(Before(q)) \in Nat /\ Cardinality(Before(r)) \in Nat
      /\ Cardinality(Before(q)) <= Cardinality(Before(r))
  <2> HIDE DEF Before
  <2> QED
    BY <1>3, SmallerSubset DEF RowIdsUnique
<1>5. Cardinality(Before(q)) < UploadLimit
  <2> HIDE DEF Before
  <2> QED
    BY <1>2, <1>4, DeliveryAssumption DEF DeliveryAssumption
<1> QED
  BY <1>5 DEF Window

\* The rows of a fetch are numbered above every row of the outbox, and apart.
LEMMA NewRowsAreNew ==
  ASSUME TypeOK, NEW s \in Subs, NEW E \in SUBSET ExternalIds, NEW top \in Nat
  PROVE  /\ NewRows(s, E, top) \subseteq Rows
         /\ IsFiniteSet(NewRows(s, E, top))
         /\ \A r \in NewRows(s, E, top) :
              r.sub = s /\ r.ext \in E /\ r.id > top
         /\ \A r, q \in NewRows(s, E, top) : r.id = q.id => r = q
         /\ \A r, q \in NewRows(s, E, top) : r.ext < q.ext => r.id < q.id
<1> DEFINE fresh == {e \in E : \A r \in outbox : Key(r) # <<s, e>>}
           UpTo(e) == {f \in fresh : f <= e}
           Row(e) == [id |-> top + Cardinality(UpTo(e)), sub |-> s, ext |-> e]
           N == NewRows(s, E, top)
<1>1. /\ E \subseteq Nat /\ IsFiniteSet(ExternalIds)
      /\ ExternalIds \subseteq Nat
  BY DeliveryAssumption DEF DeliveryAssumption
<1>2. fresh \in SUBSET ExternalIds /\ fresh \subseteq E
  OBVIOUS
<1>3. IsFiniteSet(fresh)
  BY <1>1, <1>2, FS_Subset
<1>4. N = {Row(e) : e \in fresh}
  BY DEF NewRows
<1>5. ASSUME NEW e \in fresh
      PROVE  Cardinality(UpTo(e)) \in Nat /\ Cardinality(UpTo(e)) > 0
  <2>1. UpTo(e) \in SUBSET fresh /\ e \in UpTo(e)
    BY <1>1, <1>2
  <2>2. IsFiniteSet(UpTo(e))
    BY <2>1, <1>3, FS_Subset
  <2>3. Cardinality(UpTo(e)) \in Nat /\ Cardinality(UpTo(e)) # 0
    BY <2>1, <2>2, FS_CardinalityType, FS_EmptySet
  <2> QED
    BY <2>3
<1>6. ASSUME NEW e \in fresh, NEW f \in fresh, e < f
      PROVE  Cardinality(UpTo(e)) < Cardinality(UpTo(f))
  <2>1. \A g \in fresh : g \in Nat
    BY <1>1, <1>2
  <2> HIDE DEF fresh
  <2>2. UpTo(e) \in SUBSET fresh /\ UpTo(f) \in SUBSET fresh
    OBVIOUS
  <2>3. UpTo(e) \subseteq UpTo(f)
    BY <2>1, <1>6
  <2>4. f \in UpTo(f) /\ f \notin UpTo(e)
    BY <2>1, <1>6
  <2> HIDE DEF UpTo
  <2> QED
    BY <2>2, <2>3, <2>4, <1>3, SmallerSubset
<1>7. ASSUME NEW e \in fresh, NEW f \in fresh, Row(e).id = Row(f).id
      PROVE  e = f
  <2>1. e \in Nat /\ f \in Nat
    BY <1>1, <1>2
  <2>2. Cardinality(UpTo(e)) = Cardinality(UpTo(f))
    <3> HIDE DEF UpTo, fresh
    <3> QED
      BY <1>5, <1>7
  <2> HIDE DEF UpTo, fresh
  <2>3. ~(e < f)
    BY <2>2, <1>5, <1>6
  <2>4. ~(f < e)
    BY <2>2, <1>5, <1>6
  <2> QED
    BY <2>1, <2>3, <2>4
<1> HIDE DEF fresh, UpTo
<1>8. ASSUME NEW r \in N
      PROVE  r \in Rows /\ r.sub = s /\ r.ext \in E /\ r.id > top
  <2>1. PICK e \in fresh : r = Row(e)
    BY <1>4
  <2>2. e \in ExternalIds /\ e \in E
    BY <1>2, <2>1
  <2> QED
    BY <2>1, <2>2, <1>5 DEF Rows
<1>9. ASSUME NEW r \in N, NEW q \in N, r.id = q.id
      PROVE  r = q
  <2>1. PICK e \in fresh, f \in fresh : r = Row(e) /\ q = Row(f)
    BY <1>4
  <2> QED
    BY <2>1, <1>7, <1>9
<1>10. ASSUME NEW r \in N, NEW q \in N, r.ext < q.ext
       PROVE  r.id < q.id
  <2>1. PICK e \in fresh, f \in fresh : r = Row(e) /\ q = Row(f)
    BY <1>4
  <2>2. Cardinality(UpTo(e)) < Cardinality(UpTo(f))
    BY <2>1, <1>6, <1>10
  <2> QED
    BY <2>1, <2>2, <1>5
<1>11. IsFiniteSet(N)
  <2> DEFINE g == [e \in fresh |-> Row(e)]
  <2>1. g \in Surjection(fresh, N)
    BY <1>4 DEF Surjection
  <2> QED
    BY <2>1, <1>3, FS_Surjection
<1> QED
  BY <1>8, <1>9, <1>10, <1>11

-----------------------------------------------------------------------------
(* The inductive invariant.                                                *)

LEMMA InitIInv == Init => IInv
<1> SUFFICES ASSUME Init PROVE IInv
  OBVIOUS
<1>1. TypeOK
  BY DeliveryAssumption DEF Init, TypeOK, NoReply, DeliveryAssumption
<1>2. RowIdsUnique
  BY FS_EmptySet DEF Init, RowIdsUnique
<1> QED
  BY <1>1, <1>2 DEF Init, IInv, PendingIsPrefix, ReplyIsSound, NoReply,
                    NothingLost, DeadLettersDeserved

\* raw_posts only grows, with posts of a request that are not malformed.
LEMMA AcceptedPosts ==
  ASSUME NEW R \in SUBSET Rows
  PROVE  Accepted(R) \subseteq RawPosts
<1> SUFFICES ASSUME NEW r \in R
             PROVE  [platform |-> Platform[r.sub], ext |-> r.ext, sub |-> r.sub]
                      \in RawPosts
  BY DEF Accepted
<1> QED
  BY DeliveryAssumption DEF DeliveryAssumption, Rows, RawPosts

\* The rows of a fetch keep ids unique and are all of them handed.
LEMMA FetchKeepsIInv ==
  ASSUME IInv, NEW s \in Subs, FetchPosts(s)
  PROVE  IInv'
<1> DEFINE E == Selected(s)
<1>1. PICK top \in {r.id : r \in outbox} \cup {0} :
        /\ IsTopId(top)
        /\ outbox' = outbox \cup NewRows(s, E, top)
        /\ handed' = handed \cup {Key(r) : r \in NewRows(s, E, top)}
  BY DEF FetchPosts, RecordFetch
<1> DEFINE N == NewRows(s, E, top)
<1>2. top \in Nat
  BY DEF IInv, TypeOK, Rows
<1>3. E \in SUBSET ExternalIds
  BY DEF Selected, Newest, IInv, TypeOK
<1>4. /\ N \subseteq Rows /\ IsFiniteSet(N)
      /\ \A r \in N : r.sub = s /\ r.ext \in E /\ r.id > top
      /\ \A r, q \in N : r.id = q.id => r = q
  BY <1>2, <1>3, NewRowsAreNew DEF IInv
<1>5. /\ UNCHANGED <<visible, deadLetters, phase, pending, retryDelay,
                     uploadWait, reply, lost, rawPosts, crashes>>
      /\ phase = "fetch" /\ todo' \subseteq todo
  BY DEF FetchPosts, RecordFetch, Visit, backoff
<1> HIDE DEF E, N
<1>6. TypeOK'
  <2>1. checkpoint' \in [Subs -> ExternalIds \cup {NoCheckpoint}]
    BY <1>3 DEF FetchPosts, RecordFetch, IInv, TypeOK, E
  <2>2. outbox' \in SUBSET Rows
    BY <1>1, <1>4 DEF IInv, TypeOK, N
  <2>3. handed' \subseteq Subs \X ExternalIds
    BY <1>1, <1>3, <1>4 DEF IInv, TypeOK, Key, N
  <2> QED
    BY <2>1, <2>2, <2>3, <1>5 DEF IInv, TypeOK
<1>7. RowIdsUnique'
  <2>1. IsFiniteSet(outbox')
    BY <1>1, <1>4, FS_Union DEF IInv, RowIdsUnique, N
  <2>2. \A r \in outbox : r.id \in Nat /\ r.id <= top
    BY <1>1 DEF IsTopId, IInv, TypeOK, Rows
  <2>3. \A r \in N : r.id \in Nat /\ r.id > top
    BY <1>4 DEF Rows
  <2>4. ASSUME NEW r \in outbox', NEW q \in outbox', r.id = q.id PROVE r = q
    <3>1. CASE r \in outbox /\ q \in outbox
      BY <3>1, <2>4 DEF IInv, RowIdsUnique
    <3>2. CASE r \in N /\ q \in N
      BY <3>2, <2>4, <1>4
    <3>3. CASE r \in outbox /\ q \in N
      BY <3>3, <2>4, <2>2, <2>3, <1>2
    <3>4. CASE r \in N /\ q \in outbox
      BY <3>4, <2>4, <2>2, <2>3, <1>2
    <3> QED
      BY <3>1, <3>2, <3>3, <3>4, <1>1 DEF N
  <2> QED
    BY <2>1, <2>4 DEF RowIdsUnique
<1>8. PendingIsPrefix' /\ ReplyIsSound'
  BY <1>5 DEF PendingIsPrefix, ReplyIsSound, IInv
<1>9. NothingLost'
  BY <1>1, <1>5 DEF IInv, NothingLost, Stored
<1>10. DeadLettersDeserved'
  BY <1>5 DEF IInv, DeadLettersDeserved
<1> QED
  BY <1>6, <1>7, <1>8, <1>9, <1>10 DEF IInv

\* Once a request is handled, its good posts are stored: judged "duplicate", a post
\* was there, or an older row of the request brought it.
LEMMA HandledMeansStored ==
  ASSUME NEW R \in SUBSET Rows, rawPosts' = rawPosts \cup Accepted(R),
         NEW r \in R, Item(r) \notin Malformed
  PROVE  Item(r) \in Stored'
<1>1. Stored \subseteq Stored'
  BY DEF Stored
<1>2. CASE Item(r) \in Stored
  BY <1>1, <1>2
<1>3. CASE Item(r) \notin Stored
  <2> DEFINE Same == {q.id : q \in {w \in R : Item(w) = Item(r)}}
  <2>1. Same \subseteq Nat /\ r.id \in Same
    BY DEF Rows
  <2>2. PICK n \in Same : \A m \in Same : n <= m
    <3> HIDE DEF Same
    <3> QED
      BY <2>1, LeastNatural
  <2>3. PICK q \in R : Item(q) = Item(r) /\ q.id = n
    BY <2>2
  <2>4. ASSUME NEW w \in R, Item(w) = Item(r) PROVE ~(w.id < q.id)
    <3>1. w.id \in Same
      BY <2>4
    <3>2. n \in Nat /\ w.id \in Nat /\ n <= w.id
      <4> HIDE DEF Same
      <4> QED
        BY <2>1, <2>2, <3>1
    <3> QED
      BY <2>3, <3>2
  <2>5. Verdict(q, R).status = "accepted"
    BY <1>3, <2>3, <2>4 DEF Verdict
  <2>6. [platform |-> Platform[q.sub], ext |-> q.ext, sub |-> q.sub] \in rawPosts'
    BY <2>5 DEF Accepted
  <2> QED
    BY <2>3, <2>6 DEF Stored, Item
<1> QED
  BY <1>2, <1>3

\* The server's answer judges the rows of the upload one by one.
LEMMA ServerKeepsIInv ==
  ASSUME IInv, ServerHandles
  PROVE  IInv'
<1>1. /\ UNCHANGED <<visible, checkpoint, outbox, deadLetters, handed, phase,
                     todo, pending, retryDelay, uploadWait, lost, crashes>>
      /\ phase = "uploading"
      /\ rawPosts' = rawPosts \cup Accepted(pending)
      /\ reply' = Answer(pending)
  BY DEF ServerHandles, durable, backoff
<1>2. pending \in SUBSET Rows /\ pending \subseteq outbox
  BY <1>1 DEF IInv, TypeOK, PendingIsPrefix
<1>3. Stored \subseteq Stored'
  BY <1>1 DEF Stored
<1>4. ASSUME NEW r \in pending, NEW x, x = Verdict(r, pending)
      PROVE  x \in Verdicts /\ Sound(x, r)'
  <2>1. x \in Verdicts
    BY <1>2, <1>4 DEF Verdict, Verdicts, Statuses, Rows
  <2>2. CASE x.status = "invalid"
    BY <1>4, <2>1, <2>2 DEF Sound, Verdict, Item
  <2>3. CASE x.status \in {"accepted", "duplicate"}
    <3>1. Item(r) \notin Malformed
      BY <1>4, <2>3 DEF Verdict
    <3>2. Item(r) \in Stored'
      BY <1>1, <1>2, <3>1, HandledMeansStored
    <3> QED
      BY <1>4, <2>1, <2>3, <3>2 DEF Sound, Verdict, Item
  <2> QED
    BY <1>4, <2>1, <2>2, <2>3 DEF Verdicts, Statuses
<1>5. TypeOK'
  <2>1. reply' \in [answered: BOOLEAN, items: SUBSET Verdicts]
    BY <1>1, <1>4 DEF Answer
  <2>2. rawPosts' \subseteq RawPosts
    BY <1>1, <1>2, AcceptedPosts DEF IInv, TypeOK
  <2> QED
    BY <1>1, <2>1, <2>2 DEF IInv, TypeOK
<1>6. ReplyIsSound'
  <2>1. reply'.items = {Verdict(r, pending) : r \in pending}
    BY <1>1 DEF Answer
  <2>2. \A r \in pending : Verdict(r, pending).pos = r.id
    BY DEF Verdict
  <2>3. \A x, y \in reply'.items : x.pos = y.pos => x = y
    BY <2>1, <2>2, <1>2 DEF IInv, RowIdsUnique
  <2>4. \A x \in reply'.items : \E r \in pending : Sound(x, r)'
    BY <2>1, <1>4
  <2>5. \A r \in pending : \E x \in reply'.items : x.pos = r.id
    BY <2>1, <2>2
  <2> QED
    BY <1>1, <2>3, <2>4, <2>5 DEF ReplyIsSound, Sound
<1> QED
  BY <1>1, <1>3, <1>5, <1>6
     DEF IInv, RowIdsUnique, PendingIsPrefix, NothingLost, DeadLettersDeserved

\* The rows that leave the outbox are on the server or become dead letters.
LEMMA ApplyKeepsIInv ==
  ASSUME IInv, ApplyUploadResults
  PROVE  IInv'
<1>1. /\ outbox' = outbox \ RowsWith(Statuses)
      /\ deadLetters' = deadLetters \cup {Key(r) : r \in RowsWith({"invalid"})}
      /\ phase' = "heartbeat" /\ pending' = {} /\ reply' = NoReply
      /\ retryDelay' = 1 /\ uploadWait' = 0
      /\ UNCHANGED <<visible, checkpoint, handed, todo, lost, rawPosts, crashes>>
      /\ reply.answered
  BY DEF ApplyUploadResults
<1>2. ASSUME NEW r \in outbox, NEW x \in reply.items, Meets(x, r)
      PROVE  Sound(x, r)
  BY <1>1, <1>2, ResultMeetsItsRow DEF IInv
<1>3. \A r \in RowsWith({"invalid"}) : r \in outbox /\ Item(r) \in Malformed
  BY <1>2 DEF RowsWith, Sound
<1>4. \A r \in RowsWith(Statuses) :
        r \in RowsWith({"invalid"}) \/ Item(r) \in Stored
  BY <1>2 DEF RowsWith, Sound, Statuses
<1>5. TypeOK'
  <2>1. \A r \in RowsWith({"invalid"}) : Key(r) \in Subs \X ExternalIds
    BY <1>3 DEF IInv, TypeOK, Rows, Key
  <2>2. 1 \in 1..MaxRetryDelay /\ 0 \in 0..MaxRetryDelay
    BY DeliveryAssumption DEF DeliveryAssumption
  <2> QED
    BY <1>1, <2>1, <2>2 DEF IInv, TypeOK, NoReply
<1>6. RowIdsUnique'
  <2>1. IsFiniteSet(outbox')
    BY <1>1, FS_Subset DEF IInv, RowIdsUnique
  <2> QED
    BY <1>1, <2>1 DEF IInv, RowIdsUnique
<1>7. PendingIsPrefix' /\ ReplyIsSound'
  BY <1>1 DEF PendingIsPrefix, ReplyIsSound, NoReply
<1>8. NothingLost'
  <2> SUFFICES ASSUME NEW k \in handed
               PROVE  \/ \E r \in outbox' : Key(r) = k
                      \/ <<Platform[k[1]], k[2]>> \in Stored
                      \/ k \in deadLetters'
    BY <1>1 DEF NothingLost, Stored
  <2>1. CASE \E r \in outbox : Key(r) = k
    <3>1. PICK r \in outbox : Key(r) = k
      BY <2>1
    <3>2. <<Platform[k[1]], k[2]>> = Item(r)
      BY <3>1 DEF Key, Item
    <3> QED
      BY <1>1, <1>4, <3>1, <3>2
  <2>2. CASE ~ \E r \in outbox : Key(r) = k
    BY <2>2, <1>1 DEF IInv, NothingLost
  <2> QED
    BY <2>1, <2>2
<1>9. DeadLettersDeserved'
  <2>1. \A r \in RowsWith({"invalid"}) :
          <<Platform[Key(r)[1]], Key(r)[2]>> \in Malformed
    BY <1>3 DEF Key, Item
  <2> QED
    BY <1>1, <2>1 DEF IInv, DeadLettersDeserved
<1> QED
  BY <1>5, <1>6, <1>7, <1>8, <1>9 DEF IInv

\* The other actions move no post.
LEMMA StepKeepsIInv ==
  ASSUME IInv, [Next]_vars
  PROVE  IInv'
<1>1. ASSUME NEW s \in Subs, NEW e \in ExternalIds, Publish(s, e)
      PROVE  IInv'
  <2>1. visible' \in [Subs -> SUBSET ExternalIds]
    BY <1>1 DEF Publish, IInv, TypeOK
  <2> QED
    BY <1>1, <2>1
       DEF Publish, durable, backoff, IInv, TypeOK, RowIdsUnique,
           PendingIsPrefix, ReplyIsSound, Sound, Stored, NothingLost,
           DeadLettersDeserved
<1>2. ASSUME FetchConfig \/ FetchConfigFails
      PROVE  IInv'
  <2>1. uploadWait' \in 0..MaxRetryDelay
    BY <1>2, DeliveryAssumption
       DEF FetchConfig, FetchConfigFails, Wait, IInv, TypeOK, DeliveryAssumption
  <2> QED
    BY <1>2, <2>1
       DEF FetchConfig, FetchConfigFails, durable, IInv, TypeOK, RowIdsUnique,
           PendingIsPrefix, ReplyIsSound, Sound, Stored, NothingLost,
           DeadLettersDeserved
<1>3. ASSUME NEW s \in Subs, FetchPosts(s)
      PROVE  IInv'
  BY <1>3, FetchKeepsIInv
<1>4. ASSUME NEW s \in Subs, SkipSubscription(s)
      PROVE  IInv'
  BY <1>4
     DEF SkipSubscription, Visit, durable, backoff, IInv, TypeOK, RowIdsUnique,
         PendingIsPrefix, ReplyIsSound, Sound, Stored, NothingLost,
         DeadLettersDeserved
<1>5. ASSUME SendUpload
      PROVE  IInv'
  <2>1. Window \subseteq outbox
    BY DEF Window
  <2>2. \A r \in Window, q \in outbox : q.id < r.id => q \in Window
    BY WindowIsPrefix DEF IInv
  <2> QED
    BY <1>5, <2>1, <2>2
       DEF SendUpload, durable, backoff, NoReply, IInv, TypeOK, RowIdsUnique,
           PendingIsPrefix, ReplyIsSound, Stored, NothingLost,
           DeadLettersDeserved
<1>6. ASSUME SkipUpload \/ Heartbeat
      PROVE  IInv'
  BY <1>6
     DEF SkipUpload, Heartbeat, durable, backoff, IInv, TypeOK, RowIdsUnique,
         PendingIsPrefix, ReplyIsSound, Stored, NothingLost, DeadLettersDeserved
<1>7. ASSUME ServerHandles
      PROVE  IInv'
  BY <1>7, ServerKeepsIInv
<1>8. ASSUME ApplyUploadResults
      PROVE  IInv'
  BY <1>8, ApplyKeepsIInv
<1>9. ASSUME UploadFails \/ Crash
      PROVE  IInv'
  <2>1. lost' \subseteq SUBSET Rows
    BY <1>9 DEF UploadFails, Crash, GiveUp, IInv, TypeOK
  <2>2. retryDelay' \in 1..MaxRetryDelay /\ uploadWait' \in 0..MaxRetryDelay
    BY <1>9, DeliveryAssumption
       DEF UploadFails, Crash, IInv, TypeOK, DeliveryAssumption
  <2>3. crashes' \in 0..MaxCrashes
    BY <1>9, DeliveryAssumption
       DEF UploadFails, Crash, IInv, TypeOK, DeliveryAssumption
  <2>4. /\ UNCHANGED <<visible, durable, rawPosts>>
        /\ phase' \in {"heartbeat", "idle"} /\ todo' \subseteq Subs
        /\ pending' = {} /\ reply' = NoReply
    BY <1>9 DEF UploadFails, Crash, IInv, TypeOK
  <2> QED
    BY <2>1, <2>2, <2>3, <2>4
       DEF durable, NoReply, IInv, TypeOK, RowIdsUnique, PendingIsPrefix,
           ReplyIsSound, Stored, NothingLost, DeadLettersDeserved
<1>10. ASSUME NEW R \in lost, LateRequest(R)
       PROVE  IInv'
  <2>1. /\ UNCHANGED <<visible, durable, phase, todo, pending, backoff, reply,
                       crashes>>
        /\ rawPosts' = rawPosts \cup Accepted(R) /\ lost' = lost \ {R}
    BY <1>10 DEF LateRequest
  <2>2. rawPosts' \subseteq RawPosts
    BY <1>10, <2>1, AcceptedPosts DEF IInv, TypeOK
  <2>3. Stored \subseteq Stored'
    BY <2>1 DEF Stored
  <2> QED
    BY <2>1, <2>2, <2>3
       DEF durable, backoff, IInv, TypeOK, RowIdsUnique, PendingIsPrefix,
           ReplyIsSound, Sound, Item, NothingLost, DeadLettersDeserved
<1>11. ASSUME UNCHANGED vars
       PROVE  IInv'
  BY <1>11
     DEF vars, durable, backoff, IInv, TypeOK, RowIdsUnique, PendingIsPrefix,
         ReplyIsSound, Sound, Stored, NothingLost, DeadLettersDeserved
<1> QED
  BY <1>1, <1>2, <1>3, <1>4, <1>5, <1>6, <1>7, <1>8, <1>9, <1>10, <1>11 DEF Next

\* The inductive invariant holds in every reachable state.
THEOREM Invariance == Spec => []IInv
<1>1. IInv /\ [Next]_vars => IInv'
  BY StepKeepsIInv
<1> QED
  BY InitIInv, <1>1, PTL DEF Spec

\* The state keeps its shape: in particular the backoff never leaves its range.
THEOREM TypeCorrect == Spec => []TypeOK
BY Invariance, PTL DEF IInv

\* No post is lost between the outbox and the server, whatever requests and
\* answers are lost or late and wherever the collector crashes.
THEOREM NothingIsLost == Spec => []NothingLost
BY Invariance, PTL DEF IInv

\* Only posts the server refused become dead letters, although
\* apply_upload_results looks rows up by external id alone.
THEOREM DeadLettersAreDeserved == Spec => []DeadLettersDeserved
BY Invariance, PTL DEF IInv

-----------------------------------------------------------------------------
(* A post is queued once: what was handed lies below the checkpoint.       *)

HandedBelowCheckpoint == \A k \in handed : k[2] <= checkpoint[k[1]]

LEMMA CheckpointsAreNaturals ==
  ASSUME TypeOK
  PROVE  ExternalIds \subseteq Nat /\ checkpoint \in [Subs -> Nat]
<1>1. ExternalIds \subseteq Nat /\ ExternalIds \cup {NoCheckpoint} \subseteq Nat
  BY DeliveryAssumption DEF DeliveryAssumption, NoCheckpoint
<1>2. checkpoint \in [Subs -> ExternalIds \cup {NoCheckpoint}]
  BY DEF TypeOK
<1>3. \A t \in Subs : checkpoint[t] \in Nat
  BY <1>1, <1>2
<1> QED
  BY <1>1, <1>2, <1>3

\* A fetch brings posts above the checkpoint and moves it to the newest.
LEMMA FetchIsAbove ==
  ASSUME TypeOK, NEW s \in Subs, FetchPosts(s)
  PROVE  /\ \A r \in outbox' \ outbox : r.sub = s /\ r.ext > checkpoint[s]
         /\ \A r \in outbox' \ outbox : r.ext \in Nat
         /\ \A k \in handed' \ handed :
              /\ k[1] = s /\ k[2] \in Nat
              /\ k[2] > checkpoint[s] /\ k[2] <= checkpoint'[s]
         /\ checkpoint' \in [Subs -> Nat]
         /\ \A t \in Subs : checkpoint[t] <= checkpoint'[t]
<1> DEFINE E == Selected(s)
<1>1. PICK top \in {r.id : r \in outbox} \cup {0} :
        /\ outbox' = outbox \cup NewRows(s, E, top)
        /\ handed' = handed \cup {Key(r) : r \in NewRows(s, E, top)}
        /\ IF E = {} THEN checkpoint' = checkpoint
           ELSE \E latest \in E :
                  /\ \A e \in E : e <= latest
                  /\ checkpoint' = [checkpoint EXCEPT ![s] = latest]
  BY DEF FetchPosts, RecordFetch
<1> DEFINE N == NewRows(s, E, top)
<1>2. top \in Nat
  BY DEF TypeOK, Rows
<1>3. E \in SUBSET ExternalIds /\ \A e \in E : e > checkpoint[s]
  BY DEF Selected, Newest, TypeOK
<1>4. \A r \in N : r.sub = s /\ r.ext \in E
  BY <1>2, <1>3, NewRowsAreNew
<1>5. ExternalIds \subseteq Nat /\ checkpoint \in [Subs -> Nat]
  BY CheckpointsAreNaturals
<1> HIDE DEF E, N
<1>6. /\ checkpoint' \in [Subs -> Nat]
      /\ \A t \in Subs : checkpoint[t] <= checkpoint'[t]
      /\ \A e \in E : e <= checkpoint'[s]
  <2>1. CASE E = {}
    BY <2>1, <1>1, <1>5
  <2>2. CASE E # {}
    <3>1. PICK latest \in E : /\ \A e \in E : e <= latest
                              /\ checkpoint' = [checkpoint EXCEPT ![s] = latest]
      BY <2>2, <1>1
    <3>2. latest \in Nat /\ latest > checkpoint[s]
      BY <1>3, <1>5
    <3>3. \A t \in Subs : /\ checkpoint[t] \in Nat
                          /\ checkpoint'[t] = IF t = s THEN latest
                                                       ELSE checkpoint[t]
      BY <1>5, <3>1
    <3> QED
      BY <1>5, <3>1, <3>2, <3>3
  <2> QED
    BY <2>1, <2>2
<1>7. \A r \in outbox' \ outbox :
        r.sub = s /\ r.ext > checkpoint[s] /\ r.ext \in Nat
  BY <1>1, <1>3, <1>4, <1>5 DEF N
<1>8. \A k \in handed' \ handed :
        /\ k[1] = s /\ k[2] \in Nat
        /\ k[2] > checkpoint[s] /\ k[2] <= checkpoint'[s]
  <2> SUFFICES ASSUME NEW k \in handed' \ handed
               PROVE  k[1] = s /\ k[2] \in E
    BY <1>3, <1>5, <1>6
  <2>1. PICK r \in N : k = Key(r)
    BY <1>1 DEF N
  <2> QED
    BY <2>1, <1>4 DEF Key
<1> QED
  BY <1>6, <1>7, <1>8

\* Only a fetch inserts rows, hands posts out or moves a checkpoint.
LEMMA OnlyFetchInserts ==
  ASSUME [Next]_vars
  PROVE  \/ \E s \in Subs : FetchPosts(s)
         \/ outbox' \subseteq outbox /\ UNCHANGED <<handed, checkpoint>>
<1>1. CASE ApplyUploadResults
  BY <1>1 DEF ApplyUploadResults
<1>2. CASE ~ApplyUploadResults
  BY <1>2
     DEF Next, vars, durable, Publish, FetchConfig, FetchConfigFails,
         SkipSubscription, SendUpload, SkipUpload, ServerHandles, UploadFails,
         LateRequest, Heartbeat, Crash
<1> QED
  BY <1>1, <1>2

LEMMA StepKeepsCheckpoints ==
  ASSUME TypeOK, HandedBelowCheckpoint, [Next]_vars
  PROVE  HandedBelowCheckpoint'
<1>1. CASE UNCHANGED <<handed, checkpoint>>
  BY <1>1 DEF HandedBelowCheckpoint
<1>2. ASSUME NEW s \in Subs, FetchPosts(s)
      PROVE  HandedBelowCheckpoint'
  <2>1. ExternalIds \subseteq Nat /\ checkpoint \in [Subs -> Nat]
    BY CheckpointsAreNaturals
  <2>2. ASSUME NEW k \in handed' PROVE k[2] <= checkpoint'[k[1]]
    <3>1. CASE k \in handed
      <4>1. k[1] \in Subs /\ k[2] \in Nat
        BY <3>1, <2>1 DEF TypeOK
      <4>2. k[2] <= checkpoint[k[1]] /\ checkpoint[k[1]] <= checkpoint'[k[1]]
        BY <3>1, <4>1, <1>2, FetchIsAbove DEF HandedBelowCheckpoint
      <4>3. checkpoint[k[1]] \in Nat /\ checkpoint'[k[1]] \in Nat
        BY <4>1, <2>1, <1>2, FetchIsAbove
      <4> QED
        BY <4>1, <4>2, <4>3
    <3>2. CASE k \notin handed
      BY <3>2, <2>2, <1>2, FetchIsAbove
    <3> QED
      BY <3>1, <3>2
  <2> QED
    BY <2>2 DEF HandedBelowCheckpoint
<1> QED
  BY <1>1, <1>2, OnlyFetchInserts

\* A post that left the outbox is never fetched into it again, however often the
\* collector crashes and whatever the provider lists.
THEOREM QueuedOnce == Spec => NeverRequeued
<1> DEFINE Step == \A r \in outbox' \ outbox : Key(r) \notin handed
<1>1. Init => HandedBelowCheckpoint
  BY DEF Init, HandedBelowCheckpoint
<1>2. TypeOK /\ HandedBelowCheckpoint /\ [Next]_vars => HandedBelowCheckpoint'
  BY StepKeepsCheckpoints
<1>3. TypeOK /\ HandedBelowCheckpoint /\ [Next]_vars => [Step]_vars
  <2> SUFFICES ASSUME TypeOK, HandedBelowCheckpoint, [Next]_vars,
                      NEW r \in outbox' \ outbox
               PROVE  Key(r) \notin handed
    OBVIOUS
  <2>1. PICK s \in Subs : FetchPosts(s)
    BY OnlyFetchInserts
  <2>2. r.sub = s /\ r.ext > checkpoint[s] /\ r.ext \in Nat
    BY <2>1, FetchIsAbove
  <2>3. checkpoint[s] \in Nat
    BY CheckpointsAreNaturals
  <2>4. ~(r.ext <= checkpoint[s])
    BY <2>2, <2>3
  <2> QED
    BY <2>2, <2>4 DEF HandedBelowCheckpoint, Key
<1> QED
  BY <1>1, <1>2, <1>3, TypeCorrect, PTL DEF Spec, NeverRequeued

-----------------------------------------------------------------------------
(* The posts of a subscription reach the server oldest first, also through *)
(* requests that arrive late: a request is followed from the window it was *)
(* cut from, and is closed under older posts, up to those the server       *)
(* already has.                                                            *)

Good(k) == <<Platform[k[1]], k[2]>> \notin Malformed
Known(k) == <<Platform[k[1]], k[2]>> \in Stored

OutboxHanded == \A r \in outbox : Key(r) \in handed

RowsInOrder ==
  \A r, q \in outbox : r.sub = q.sub /\ r.ext < q.ext => r.id < q.id

\* With a row, request R brings every older good post of the subscription
\* that the server does not have yet.
Closed(R) ==
  /\ \A r \in R : Key(r) \in handed
  /\ \A r \in R, k \in handed :
       k[1] = r.sub /\ k[2] < r.ext /\ Good(k) =>
         Known(k) \/ \E q \in R : Key(q) = k

InFlight == lost \cup {pending}

RequestsClosed == \A R \in InFlight : Closed(R)

PostsHanded ==
  \A p \in rawPosts : p.platform = Platform[p.sub] /\ <<p.sub, p.ext>> \in handed

OInv == /\ OutboxHanded
        /\ RowsInOrder
        /\ RequestsClosed
        /\ PostsHanded
        /\ OldestFirst

\* What the steps may rely on beside OInv.
Base == IInv /\ HandedBelowCheckpoint

-----------------------------------------------------------------------------
\* What is handed later is newer, so a fetch leaves the requests closed and
\* the posts of the server in order.
LEMMA FetchKeepsOInv ==
  ASSUME Base, OInv, NEW s \in Subs, FetchPosts(s)
  PROVE  OInv'
<1> DEFINE E == Selected(s)
<1>1. PICK top \in {r.id : r \in outbox} \cup {0} :
        /\ IsTopId(top)
        /\ outbox' = outbox \cup NewRows(s, E, top)
        /\ handed' = handed \cup {Key(r) : r \in NewRows(s, E, top)}
  BY DEF FetchPosts, RecordFetch
<1> DEFINE N == NewRows(s, E, top)
<1>2. top \in Nat
  BY DEF Base, IInv, TypeOK, Rows
<1>3. E \in SUBSET ExternalIds /\ \A e \in E : e > checkpoint[s]
  BY DEF Selected, Newest, Base, IInv, TypeOK
<1>4. /\ \A r \in N : r \in Rows /\ r.sub = s /\ r.ext \in E /\ r.id > top
      /\ \A r, q \in N : r.ext < q.ext => r.id < q.id
  BY <1>2, <1>3, NewRowsAreNew DEF Base, IInv
<1>5. ExternalIds \subseteq Nat /\ checkpoint \in [Subs -> Nat]
  BY CheckpointsAreNaturals DEF Base, IInv
<1>6. UNCHANGED <<pending, lost, rawPosts>>
  BY DEF FetchPosts
<1> HIDE DEF E, N
<1>7. \A k \in handed : k[1] \in Subs /\ k[2] \in Nat /\ k[2] <= checkpoint[k[1]]
  BY <1>5 DEF Base, IInv, TypeOK, HandedBelowCheckpoint
<1>8. \A k \in handed' \ handed :
        k[1] = s /\ k[2] \in Nat /\ k[2] > checkpoint[s]
  BY FetchIsAbove DEF Base, IInv
\* A post handed now is older than none that was handed before.
<1>9. ASSUME NEW k \in handed', NEW h \in handed, k[1] = h[1], k[2] < h[2]
      PROVE  k \in handed
  BY <1>5, <1>7, <1>8, <1>9
<1>10. OutboxHanded'
  BY <1>1 DEF OInv, OutboxHanded, N, Key
<1>11. RowsInOrder'
  <2>1. \A r \in outbox :
          /\ r.id \in Nat /\ r.id <= top
          /\ r.ext \in Nat /\ r.ext <= checkpoint[r.sub]
    BY <1>1, <1>5, <1>7 DEF IsTopId, Base, IInv, TypeOK, Rows, OInv,
                            OutboxHanded, Key
  <2>2. \A r \in N : /\ r.id \in Nat /\ r.id > top
                     /\ r.sub = s /\ r.ext \in Nat /\ r.ext > checkpoint[s]
    BY <1>3, <1>4, <1>5 DEF Rows
  <2>3. ASSUME NEW r \in outbox', NEW q \in outbox', r.sub = q.sub, r.ext < q.ext
        PROVE  r.id < q.id
    <3>1. CASE r \in outbox /\ q \in outbox
      BY <3>1, <2>3 DEF OInv, RowsInOrder
    <3>2. CASE r \in N /\ q \in N
      BY <3>2, <2>3, <1>4
    <3>3. CASE r \in outbox /\ q \in N
      BY <3>3, <2>1, <2>2, <1>2
    <3>4. CASE r \in N /\ q \in outbox
      BY <3>4, <2>1, <2>2, <2>3, <1>5
    <3> QED
      BY <3>1, <3>2, <3>3, <3>4, <1>1 DEF N
  <2> QED
    BY <2>3 DEF RowsInOrder
<1>12. RequestsClosed'
  <2> SUFFICES ASSUME NEW R \in InFlight
               PROVE  Closed(R)'
    BY <1>6 DEF RequestsClosed, InFlight
  <2>1. Closed(R)
    BY DEF OInv, RequestsClosed
  <2>2. \A r \in R : Key(r)' = Key(r) /\ Key(r) \in handed /\ Key(r) \in handed'
    BY <2>1, <1>1 DEF Closed, Key
  <2>3. ASSUME NEW r \in R, NEW k \in handed', k[1] = r.sub, k[2] < r.ext, Good(k)
        PROVE  Known(k)' \/ \E q \in R : Key(q) = k
    <3>1. k \in handed
      BY <2>2, <2>3, <1>9 DEF Key
    <3> QED
      BY <2>1, <2>3, <3>1, <1>6 DEF Closed, Known, Stored
  <2> QED
    BY <2>2, <2>3 DEF Closed, Good, Key
<1>13. PostsHanded'
  BY <1>1, <1>6 DEF OInv, PostsHanded
<1>14. OldestFirst'
  <2> SUFFICES ASSUME NEW p \in rawPosts, NEW k \in handed',
                      k[1] = p.sub, k[2] < p.ext,
                      <<p.platform, k[2]>> \notin Malformed
               PROVE  <<p.platform, k[2]>> \in Stored
    BY <1>6 DEF OldestFirst, Stored
  <2>1. k \in handed
    BY <1>9 DEF OInv, PostsHanded
  <2> QED
    BY <2>1 DEF OInv, OldestFirst
<1> QED
  BY <1>10, <1>11, <1>12, <1>13, <1>14 DEF OInv

\* The window is a closed request: the older posts of a subscription have
\* lower row ids, are at the server, or were refused by it.
LEMMA WindowIsClosed ==
  ASSUME Base, OInv
  PROVE  Closed(Window)
<1>1. Window \subseteq outbox
  BY DEF Window
<1>2. ASSUME NEW r \in Window, NEW k \in handed,
             k[1] = r.sub, k[2] < r.ext, Good(k), ~Known(k)
      PROVE  \E q \in Window : Key(q) = k
  <2>1. k \notin deadLetters
    BY <1>2 DEF Base, IInv, DeadLettersDeserved, Good
  <2>2. PICK q \in outbox : Key(q) = k
    BY <2>1, <1>2 DEF Base, IInv, NothingLost, Known
  <2>3. q.id < r.id
    BY <1>1, <1>2, <2>2 DEF OInv, RowsInOrder, Key
  <2>4. q \in Window
    BY <2>3, WindowIsPrefix DEF Base, IInv
  <2> QED
    BY <2>2, <2>4
<1> QED
  BY <1>1, <1>2 DEF Closed, OInv, OutboxHanded

\* The server commits a closed request in one transaction: what it gains is in
\* order.
LEMMA HandlingKeepsOrder ==
  ASSUME Base, OInv, NEW R \in InFlight,
         rawPosts' = rawPosts \cup Accepted(R),
         UNCHANGED <<outbox, handed>>,
         InFlight' \subseteq InFlight
  PROVE  OInv'
<1>1. Closed(R) /\ R \in SUBSET Rows
  BY DEF OInv, RequestsClosed, InFlight, Base, IInv, TypeOK
<1>2. Stored \subseteq Stored'
  BY DEF Stored
<1>3. \A p \in rawPosts' :
        p \in rawPosts \/ \E r \in R : p = [platform |-> Platform[r.sub],
                                            ext |-> r.ext, sub |-> r.sub]
  BY DEF Accepted
<1>4. OutboxHanded' /\ RowsInOrder'
  BY DEF OInv, OutboxHanded, RowsInOrder, Key
<1>5. RequestsClosed'
  <2> SUFFICES ASSUME NEW Q \in InFlight
               PROVE  Closed(Q)'
    BY DEF RequestsClosed
  <2> QED
    BY <1>2 DEF OInv, RequestsClosed, Closed, Known, Good, Key
<1>6. PostsHanded'
  <2> SUFFICES ASSUME NEW p \in rawPosts'
               PROVE  p.platform = Platform[p.sub] /\ <<p.sub, p.ext>> \in handed
    BY DEF PostsHanded
  <2>1. CASE p \in rawPosts
    BY <2>1 DEF OInv, PostsHanded
  <2>2. CASE p \notin rawPosts
    <3>1. PICK r \in R : p = [platform |-> Platform[r.sub],
                              ext |-> r.ext, sub |-> r.sub]
      BY <2>2, <1>3
    <3> QED
      BY <3>1, <1>1 DEF Closed, Key
  <2> QED
    BY <2>1, <2>2
<1>7. OldestFirst'
  <2> SUFFICES ASSUME NEW p \in rawPosts', NEW k \in handed,
                      k[1] = p.sub, k[2] < p.ext,
                      <<p.platform, k[2]>> \notin Malformed
               PROVE  <<p.platform, k[2]>> \in Stored'
    BY DEF OldestFirst
  <2>1. CASE p \in rawPosts
    BY <2>1, <1>2 DEF OInv, OldestFirst
  <2>2. CASE p \notin rawPosts
    <3>1. PICK r \in R : p = [platform |-> Platform[r.sub],
                              ext |-> r.ext, sub |-> r.sub]
      BY <2>2, <1>3
    <3>2. p.platform = Platform[k[1]] /\ k[1] = r.sub /\ k[2] < r.ext /\ Good(k)
      BY <3>1 DEF Good
    <3>3. CASE Known(k)
      BY <3>2, <3>3, <1>2 DEF Known
    <3>4. CASE \E q \in R : Key(q) = k
      <4>1. PICK q \in R : Key(q) = k
        BY <3>4
      <4>2. Item(q) = <<p.platform, k[2]>>
        BY <4>1, <3>2 DEF Item, Key
      <4> QED
        BY <4>2, <1>1, HandledMeansStored
    <3> QED
      BY <1>1, <3>2, <3>3, <3>4 DEF Closed
  <2> QED
    BY <2>1, <2>2
<1> QED
  BY <1>4, <1>5, <1>6, <1>7 DEF OInv

\* A step that only drops rows or requests changes nothing about the order.
LEMMA DroppingKeepsOInv ==
  ASSUME OInv, outbox' \subseteq outbox, UNCHANGED <<handed, rawPosts>>,
         \A R \in InFlight' : R \in InFlight \/ Closed(R)
  PROVE  OInv'
<1>1. OutboxHanded' /\ RowsInOrder' /\ PostsHanded'
  BY DEF OInv, OutboxHanded, RowsInOrder, PostsHanded, Key
<1>2. \A R : Closed(R) => Closed(R)'
  BY DEF Closed, Known, Stored, Good, Key
<1>3. RequestsClosed'
  BY <1>2 DEF OInv, RequestsClosed
<1>4. OldestFirst'
  BY DEF OInv, OldestFirst, Stored
<1> QED
  BY <1>1, <1>3, <1>4 DEF OInv

LEMMA StepKeepsOInv ==
  ASSUME Base, OInv, [Next]_vars
  PROVE  OInv'
<1>1. ASSUME NEW s \in Subs, FetchPosts(s)
      PROVE  OInv'
  BY <1>1, FetchKeepsOInv
<1>2. ASSUME SendUpload
      PROVE  OInv'
  <2>1. \A R \in InFlight' : R \in InFlight \/ Closed(R)
    BY <1>2, WindowIsClosed DEF SendUpload, InFlight
  <2> QED
    BY <1>2, <2>1, DroppingKeepsOInv DEF SendUpload, durable
<1>3. ASSUME ServerHandles
      PROVE  OInv'
  <2>1. pending \in InFlight /\ InFlight' \subseteq InFlight
    BY <1>3 DEF ServerHandles, InFlight
  <2> QED
    BY <1>3, <2>1, HandlingKeepsOrder DEF ServerHandles, durable
<1>4. ASSUME NEW R \in lost, LateRequest(R)
      PROVE  OInv'
  <2>1. R \in InFlight /\ InFlight' \subseteq InFlight
    BY <1>4 DEF LateRequest, InFlight
  <2> QED
    BY <1>4, <2>1, HandlingKeepsOrder DEF LateRequest, durable
<1>5. Closed({})
  BY DEF Closed
<1>6. ASSUME ApplyUploadResults
      PROVE  OInv'
  <2>1. \A R \in InFlight' : R \in InFlight \/ Closed(R)
    BY <1>5, <1>6 DEF ApplyUploadResults, InFlight
  <2>2. outbox' \subseteq outbox /\ UNCHANGED <<handed, rawPosts>>
    BY <1>6 DEF ApplyUploadResults
  <2> QED
    BY <2>1, <2>2, DroppingKeepsOInv
<1>7. ASSUME UploadFails \/ Crash
      PROVE  OInv'
  <2>1. \A R \in InFlight' : R \in InFlight \/ Closed(R)
    BY <1>5, <1>7 DEF UploadFails, Crash, GiveUp, InFlight
  <2>2. outbox' \subseteq outbox /\ UNCHANGED <<handed, rawPosts>>
    BY <1>7 DEF UploadFails, Crash, durable
  <2> QED
    BY <2>1, <2>2, DroppingKeepsOInv
<1>8. ASSUME UNCHANGED <<outbox, handed, rawPosts, lost, pending>>
      PROVE  OInv'
  BY <1>8, DroppingKeepsOInv DEF InFlight
<1>9. \/ \E s \in Subs : FetchPosts(s)
      \/ SendUpload \/ ServerHandles \/ ApplyUploadResults
      \/ UploadFails \/ Crash
      \/ \E R \in lost : LateRequest(R)
      \/ UNCHANGED <<outbox, handed, rawPosts, lost, pending>>
  BY DEF Next, vars, durable, Publish, FetchConfig, FetchConfigFails,
         SkipSubscription, SkipUpload, Heartbeat
<1> QED
  BY <1>1, <1>2, <1>3, <1>4, <1>6, <1>7, <1>8, <1>9

\* When the server took a post from a subscription, every older good post the
\* collector had queued for it is there too, whatever was lost, late or
\* interrupted in between.
THEOREM PostsArriveOldestFirst == Spec => []OldestFirst
<1>1. Init => HandedBelowCheckpoint /\ OInv
  BY DEF Init, HandedBelowCheckpoint, OInv, OutboxHanded, RowsInOrder,
         RequestsClosed, InFlight, Closed, PostsHanded, OldestFirst
<1>2. IInv /\ HandedBelowCheckpoint /\ [Next]_vars => HandedBelowCheckpoint'
  BY StepKeepsCheckpoints DEF IInv
<1>3. IInv /\ HandedBelowCheckpoint /\ OInv /\ [Next]_vars => OInv'
  BY StepKeepsOInv DEF Base
<1>4. OInv => OldestFirst
  BY DEF OInv
<1> QED
  BY <1>1, <1>2, <1>3, <1>4, Invariance, PTL DEF Spec

-----------------------------------------------------------------------------
(* Refinement: the outbox pipeline implements ReliableHandoff.  Every step *)
(* moves some posts one stage on, all from the same stage to the same      *)
(* stage, or none.                                                         *)

Items == Platforms \X ExternalIds

StoredAreGood == Stored \cap Malformed = {}

Queued == {Item(r) : r \in outbox}
Rejected == {<<Platform[k[1]], k[2]>> : k \in deadLetters}

HInv == IInv /\ HandedBelowCheckpoint /\ OInv /\ StoredAreGood

\* The stage of an item, by the three places it may be in.
LEMMA Stages ==
  ASSUME NEW i \in Items
  PROVE  /\ i \in Stored => handoff[i] = "delivered"
         /\ i \notin Stored /\ i \in Rejected => handoff[i] = "rejected"
         /\ i \notin Stored /\ i \notin Rejected /\ i \in Queued =>
              handoff[i] = "queued"
         /\ i \notin Stored /\ i \notin Rejected /\ i \notin Queued =>
              handoff[i] = "unseen"
<1>1. handoff[i] = IF i \in Stored THEN "delivered"
                   ELSE IF \E k \in deadLetters : <<Platform[k[1]], k[2]>> = i
                        THEN "rejected"
                   ELSE IF \E r \in outbox : Item(r) = i THEN "queued"
                   ELSE "unseen"
  BY DEF handoff, Items
<1>2. i \in Rejected <=> \E k \in deadLetters : <<Platform[k[1]], k[2]>> = i
  BY DEF Rejected
<1>3. i \in Queued <=> \E r \in outbox : Item(r) = i
  BY DEF Queued
<1> QED
  BY <1>1, <1>2, <1>3

\* The same after a step.
LEMMA NextStages ==
  ASSUME NEW i \in Items
  PROVE  /\ i \in Stored' => handoff'[i] = "delivered"
         /\ i \notin Stored' /\ i \in Rejected' => handoff'[i] = "rejected"
         /\ i \notin Stored' /\ i \notin Rejected' /\ i \in Queued' =>
              handoff'[i] = "queued"
         /\ i \notin Stored' /\ i \notin Rejected' /\ i \notin Queued' =>
              handoff'[i] = "unseen"
<1>1. handoff'[i] = IF i \in Stored' THEN "delivered"
                    ELSE IF \E k \in deadLetters' : <<Platform[k[1]], k[2]>> = i
                         THEN "rejected"
                    ELSE IF \E r \in outbox' : Item(r) = i THEN "queued"
                    ELSE "unseen"
  BY DEF handoff, Items, Item, Stored
<1>2. i \in Rejected' <=> \E k \in deadLetters' : <<Platform[k[1]], k[2]>> = i
  BY DEF Rejected
<1>3. i \in Queued' <=> \E r \in outbox' : Item(r) = i
  BY DEF Queued, Item
<1> QED
  BY <1>1, <1>2, <1>3

\* An item in the outbox is there after the step, or stored, or rejected.
LEMMA QueuedIsKept ==
  ASSUME HInv, NothingLost', handed \subseteq handed', NEW i \in Queued
  PROVE  i \in Queued' \cup Stored' \cup Rejected'
<1>1. PICK r \in outbox : i = Item(r)
  BY DEF Queued
<1>2. Key(r) \in handed'
  BY DEF HInv, OInv, OutboxHanded
<1>3. \/ \E q \in outbox' : Key(q)' = Key(r)
      \/ i \in Stored'
      \/ Key(r) \in deadLetters'
  BY <1>1, <1>2 DEF NothingLost, Key, Item
<1>4. ASSUME NEW q \in outbox', Key(q)' = Key(r)
      PROVE  i \in Queued'
  <2>1. Item(q)' = i
    BY <1>1, <1>4 DEF Key, Item
  <2> QED
    BY <2>1 DEF Queued, Item
<1>5. CASE Key(r) \in deadLetters'
  BY <1>1, <1>5 DEF Rejected, Key, Item
<1> QED
  BY <1>3, <1>4, <1>5

\* One move of the specification from one stage to another.
LEMMA MoveByPoints ==
  ASSUME NEW from, NEW to, NEW I \in SUBSET Items,
         \A i \in I : handoff[i] = from /\ handoff'[i] = to,
         \A i \in Items \ I : handoff'[i] = handoff[i]
  PROVE  Handoff!Move(I, from, to)
<1>1. handoff' = [i \in Items |-> handoff'[i]]
  BY DEF handoff, Items
<1>2. handoff' = [i \in Items |-> IF i \in I THEN to ELSE handoff[i]]
  BY <1>1
<1> QED
  BY <1>2 DEF Handoff!Move, Items

-----------------------------------------------------------------------------
LEMMA FetchQueues ==
  ASSUME HInv, NEW s \in Subs, FetchPosts(s)
  PROVE  \E I \in SUBSET Items : Handoff!Queue(I)
<1> DEFINE I == {i \in Items : /\ i \notin Stored /\ i \notin Rejected
                               /\ i \notin Queued /\ i \in Queued'}
<1>1. /\ outbox \subseteq outbox' /\ UNCHANGED <<rawPosts, deadLetters>>
  BY DEF FetchPosts, RecordFetch
<1>2. Stored' = Stored /\ Rejected' = Rejected /\ Queued \subseteq Queued'
  BY <1>1 DEF Stored, Rejected, Queued, Item
<1>3. \A i \in I : handoff[i] = "unseen" /\ handoff'[i] = "queued"
  BY <1>2, Stages, NextStages
<1>4. \A i \in Items \ I : handoff'[i] = handoff[i]
  BY <1>2, Stages, NextStages
<1>5. Handoff!Move(I, "unseen", "queued")
  BY <1>3, <1>4, MoveByPoints
<1> QED
  BY <1>5 DEF Handoff!Queue

\* What the server stores of a request was queued: it was handed, is not lost, and
\* is no dead letter.
LEMMA HandlingDelivers ==
  ASSUME HInv, StoredAreGood', NEW R \in InFlight,
         rawPosts' = rawPosts \cup Accepted(R),
         UNCHANGED <<outbox, deadLetters>>
  PROVE  \E I \in SUBSET Items : Handoff!Deliver(I)
<1> DEFINE I == {i \in Items : i \notin Stored /\ i \in Stored'}
<1>1. Rejected' = Rejected /\ Queued' = Queued /\ Stored \subseteq Stored'
  BY DEF Stored, Rejected, Queued, Item
<1>2. I \cap Malformed = {}
  BY DEF StoredAreGood
<1>3. ASSUME NEW i \in I
      PROVE  i \in Queued /\ i \notin Rejected
  <2>1. PICK r \in R : i = Item(r)
    BY DEF Stored, Accepted, Item
  <2>2. Key(r) \in handed
    BY DEF HInv, OInv, RequestsClosed, Closed
  <2>3. i \notin Rejected
    BY <1>2 DEF HInv, IInv, DeadLettersDeserved, Rejected
  <2>4. Key(r) \notin deadLetters
    BY <2>1, <2>3 DEF Rejected, Key, Item
  <2>5. PICK q \in outbox : Key(q) = Key(r)
    BY <2>1, <2>2, <2>4 DEF HInv, IInv, NothingLost, Key, Item
  <2>6. Item(q) = i
    BY <2>1, <2>5 DEF Key, Item
  <2> QED
    BY <2>3, <2>6 DEF Queued
<1>4. \A i \in I : handoff[i] = "queued" /\ handoff'[i] = "delivered"
  BY <1>3, Stages, NextStages
<1>5. \A i \in Items \ I : handoff'[i] = handoff[i]
  BY <1>1, Stages, NextStages
<1>6. Handoff!Move(I, "queued", "delivered")
  BY <1>4, <1>5, MoveByPoints
<1> QED
  BY <1>2, <1>6 DEF Handoff!Deliver

\* The posts that leave the outbox with an upload's results are stored already,
\* or filed as dead letters.
LEMMA ApplyingRejects ==
  ASSUME HInv, NothingLost', DeadLettersDeserved', ApplyUploadResults
  PROVE  \E I \in SUBSET Items : Handoff!Reject(I)
<1> DEFINE I == {i \in Items : i \notin Rejected /\ i \in Rejected'}
<1>1. /\ outbox' \subseteq outbox /\ deadLetters \subseteq deadLetters'
      /\ deadLetters' \subseteq deadLetters \cup {Key(r) : r \in outbox}
      /\ UNCHANGED <<rawPosts, handed>>
  BY DEF ApplyUploadResults, RowsWith
<1>2. /\ Stored' = Stored /\ Rejected \subseteq Rejected'
      /\ Queued' \subseteq Queued
  BY <1>1 DEF Stored, Rejected, Queued, Item
<1>3. I \subseteq Malformed
  BY DEF DeadLettersDeserved, Rejected
<1>4. ASSUME NEW i \in I
      PROVE  i \in Queued /\ i \notin Stored
  <2>1. PICK r \in outbox : i = <<Platform[Key(r)[1]], Key(r)[2]>>
    BY <1>1 DEF Rejected
  <2>2. i \in Queued
    BY <2>1 DEF Queued, Key, Item
  <2> QED
    BY <2>2, <1>3 DEF HInv, StoredAreGood
<1>5. \A i \in I : handoff[i] = "queued" /\ handoff'[i] = "rejected"
  BY <1>2, <1>4, Stages, NextStages
<1>6. ASSUME NEW i \in Items \ I
      PROVE  handoff'[i] = handoff[i]
  <2>1. i \in Rejected' <=> i \in Rejected
    BY <1>2
  <2>2. i \in Queued /\ i \notin Stored /\ i \notin Rejected => i \in Queued'
    BY <1>1, <1>2, <2>1, QueuedIsKept
  <2> QED
    BY <1>2, <2>1, <2>2, Stages, NextStages
<1>7. Handoff!Move(I, "queued", "rejected")
  BY <1>5, <1>6, MoveByPoints
<1> QED
  BY <1>3, <1>7 DEF Handoff!Reject

\* The server stores nothing it refuses.
LEMMA StepKeepsStoredGood ==
  ASSUME StoredAreGood, [Next]_vars
  PROVE  StoredAreGood'
<1>1. \/ \E R : rawPosts' = rawPosts \cup Accepted(R)
      \/ UNCHANGED rawPosts
  BY DEF Next, vars, durable, Publish, FetchConfig, FetchConfigFails, FetchPosts,
         SkipSubscription, SendUpload, SkipUpload, ServerHandles,
         ApplyUploadResults, UploadFails, LateRequest, Heartbeat, Crash
<1>2. CASE UNCHANGED rawPosts
  BY <1>2 DEF StoredAreGood, Stored
<1>3. ASSUME NEW R, rawPosts' = rawPosts \cup Accepted(R)
      PROVE  StoredAreGood'
  <2> SUFFICES ASSUME NEW p \in rawPosts'
               PROVE  <<p.platform, p.ext>> \notin Malformed
    BY DEF StoredAreGood, Stored
  <2>1. CASE p \in rawPosts
    BY <2>1 DEF StoredAreGood, Stored
  <2>2. CASE p \in Accepted(R)
    <3>1. PICK r \in R : /\ Verdict(r, R).status = "accepted"
                         /\ p = [platform |-> Platform[r.sub],
                                 ext |-> r.ext, sub |-> r.sub]
      BY <2>2 DEF Accepted
    <3>2. Item(r) \notin Malformed
      BY <3>1 DEF Verdict
    <3> QED
      BY <3>1, <3>2 DEF Item
  <2> QED
    BY <1>3, <2>1, <2>2
<1> QED
  BY <1>1, <1>2, <1>3

LEMMA StepMapsToStep ==
  ASSUME HInv, IInv', StoredAreGood', [Next]_vars
  PROVE  [Handoff!Next]_handoff
<1>1. ASSUME NEW s \in Subs, FetchPosts(s)
      PROVE  Handoff!Next
  BY <1>1, FetchQueues DEF Handoff!Next, Items
<1>2. ASSUME NEW R \in InFlight, rawPosts' = rawPosts \cup Accepted(R),
             UNCHANGED <<outbox, deadLetters>>
      PROVE  Handoff!Next
  BY <1>2, HandlingDelivers DEF Handoff!Next, Items
<1>3. ASSUME ApplyUploadResults
      PROVE  Handoff!Next
  BY <1>3, ApplyingRejects DEF IInv, Handoff!Next, Items
<1>4. ASSUME UNCHANGED <<outbox, deadLetters, rawPosts>>
      PROVE  UNCHANGED handoff
  BY <1>4 DEF handoff, Stored, Item
<1>5. ASSUME ServerHandles \/ \E R \in lost : LateRequest(R)
      PROVE  Handoff!Next
  BY <1>2, <1>5 DEF ServerHandles, LateRequest, InFlight, durable
<1>6. \/ \E s \in Subs : FetchPosts(s)
      \/ ServerHandles \/ \E R \in lost : LateRequest(R)
      \/ ApplyUploadResults
      \/ UNCHANGED <<outbox, deadLetters, rawPosts>>
  BY DEF Next, vars, durable, Publish, FetchConfig, FetchConfigFails,
         SkipSubscription, SendUpload, SkipUpload, UploadFails, Heartbeat, Crash
<1> QED
  BY <1>1, <1>3, <1>4, <1>5, <1>6

LEMMA InitMapsToInit == Init => Handoff!Init
<1> SUFFICES ASSUME Init PROVE Handoff!Init
  OBVIOUS
<1>1. outbox = {} /\ deadLetters = {} /\ Stored = {}
  BY DEF Init, Stored
<1> QED
  BY <1>1 DEF handoff, Handoff!Init

\* Whatever the network and the crashes do, a post goes from unseen to queued and
\* from there, once and for ever, to delivered or rejected.
THEOREM DeliveryImplementsHandoff == Spec => HandoffSpec
<1>1. Init => HInv
  BY InitIInv
     DEF Init, HInv, HandedBelowCheckpoint, OInv, OutboxHanded, RowsInOrder,
         RequestsClosed, InFlight, Closed, PostsHanded, OldestFirst,
         StoredAreGood, Stored
<1>2. HInv /\ [Next]_vars => HInv'
  BY StepKeepsIInv, StepKeepsCheckpoints, StepKeepsOInv, StepKeepsStoredGood
     DEF HInv, Base, IInv
<1>3. HInv /\ HInv' /\ [Next]_vars => [Handoff!Next]_handoff
  BY StepMapsToStep DEF HInv
<1> QED
  BY <1>1, <1>2, <1>3, InitMapsToInit, PTL DEF Spec, HandoffSpec, Handoff!Spec

=============================================================================
