--------------------------- MODULE ServingProofs ---------------------------
(***************************************************************************)
(* Proofs about module Serving, for any site, any number of requests and   *)
(* releases, and any bounds.                                               *)
(***************************************************************************)
EXTENDS Serving, HasherPoolProofs, FiniteSetTheorems

USE DEF worker, page, surroundings

----------------------------------------------------------------------------
(* The inductive invariant.                                                *)

\* From here on a request has an entry of a signed release to check against.
Checked == {"lookup", "fetch", "judge", "stream", "put"}

\* The stream of a request has fed its hasher a first part of its body.
Feeds(r, body) == /\ Len(fed[r]) <= Len(body)
                  /\ \A i \in 1 .. Len(fed[r]) : fed[r][i] = body[i]

EntryOf(q) == Releases[q.under][q.path]

\* What handle() knows of its request at each step.
Sound(r, q) ==
    /\ q.step \in Checked => q.under \in signed /\ Listed(q.under, q.path)
    /\ q.step \in {"judge", "stream", "put"} => q.response \in Response
    /\ q.step = "put" => q.response.file.body = EntryOf(q).body
    /\ q.step = "stream" => Feeds(r, Parts[q.response.file.body])
    /\ q.step = "stream" <=> Live(r)
    /\ q.step = "answered" /\ q.outcome \in {"cached", "verified"} =>
         /\ q.under \in signed /\ q.response \in Response
         /\ q.response.file.body = EntryOf(q).body

RequestsSound == \A r \in Requests : Sound(r, request[r])

\* A cache entry answers to the digest it is kept under.
CacheSound == \A b \in Bodies : cache[b] # NoFile => cache[b].body = b

MemorySigned == memory.manifest # NoManifest => memory.manifest \in signed

SignedInOrder == Latest \in Nat \ {0} /\ signed = 1 .. Latest

SInv == /\ TypeOK /\ PoolInv /\ SignedInOrder /\ MemorySigned
        /\ CacheSound /\ RequestsSound

----------------------------------------------------------------------------
(* Values.                                                                 *)

LEMMA FilesHaveBodies ==
    ASSUME NEW f \in Files
    PROVE  f.body \in Bodies /\ Parts[f.body] \in Seq(Chunks)
  BY ServingAssumption DEF Bodies

LEMMA ReplyTyped ==
    ASSUME TypeOK, NEW p \in Paths
    PROVE  Reply(p) \in Response
  BY ServingAssumption DEF TypeOK, Reply, Response, Statuses

\* What has been fed is a first part of the body, one chunk longer or not.
LEMMA OneChunkMore ==
    ASSUME NEW body \in Seq(Chunks), NEW done \in Seq(Chunks),
           Len(done) < Len(body), \A i \in 1 .. Len(done) : done[i] = body[i],
           NEW more, more = Append(done, body[Len(done) + 1])
    PROVE  /\ body[Len(done) + 1] \in Chunks
           /\ Len(more) <= Len(body) /\ \A i \in 1 .. Len(more) : more[i] = body[i]
<1>1. body[Len(done) + 1] \in Chunks
  OBVIOUS
<1>2. /\ Len(more) = Len(done) + 1 /\ more[Len(done) + 1] = body[Len(done) + 1]
      /\ \A i \in 1 .. Len(done) : more[i] = done[i]
  BY <1>1
<1> QED BY <1>1, <1>2

LEMMA IdleTyped == IdleRequest \in Request
  BY ServingAssumption DEF IdleRequest, Request, Steps, Manifests, Outcomes

LEMMA EntryTyped ==
    ASSUME TypeOK, NEW q \in Request, q.under \in signed, Listed(q.under, q.path)
    PROVE  EntryOf(q) \in Files /\ EntryOf(q).body \in Bodies
  BY ServingAssumption, FilesHaveBodies DEF TypeOK, Listed, EntryOf

\* Messages only raise or lower the overlay, and tell the page of a manifest once.
LEMMA PostTyped ==
    ASSUME TypeOK, NEW ui \in {"none", "notice", "retry", "unsupported", "security"},
           NEW valid \in BOOLEAN, NEW n \in Manifests, Post(ui, valid, n)
    PROVE  /\ overlay' \in {"none", "security", "unsupported"}
           /\ known' \in Manifests /\ asking' \in BOOLEAN
           /\ known' \in {known, n}
           /\ ui \in {"none", "notice", "retry"} => overlay' \in {overlay, "none"}
  BY DEF TypeOK, Post

LEMMA PresentationTyped ==
    ASSUME NEW s
    PROVE  PresentationFor(s) \in {"none", "notice", "retry", "unsupported", "security"}
  BY DEF PresentationFor

PageTyped == /\ overlay \in {"none", "security", "unsupported"}
             /\ known \in Manifests /\ asking \in BOOLEAN

\* An answer is a request record.
LEMMA AnswerTyped ==
    ASSUME TypeOK, NEW r \in Requests, NEW o \in Outcomes,
           NEW response \in Response \cup {NoResponse}, Answer(r, o, response)
    PROVE  \E q \in Request :
             /\ request' = [request EXCEPT ![r] = q]
             /\ q.step = "answered" /\ q.outcome = o /\ q.response = response
             /\ response # NoResponse => q.under = request[r].under
                                         /\ q.path = request[r].path
<1> DEFINE base == IF response = NoResponse THEN IdleRequest ELSE request[r]
           q == [base EXCEPT !.step = "answered", !.outcome = o,
                             !.response = response]
<1>1. base \in Request
  BY IdleTyped DEF TypeOK
<1>2. response # NoResponse => base = request[r]
  OBVIOUS
<1>3. request' = [request EXCEPT ![r] = q]
  BY DEF Answer
<1> HIDE DEF base
<1>4. /\ q \in Request /\ q.step = "answered" /\ q.outcome = o
      /\ q.response = response /\ q.under = base.under /\ q.path = base.path
  BY <1>1 DEF Request, Steps
<1> HIDE DEF q
<1> QED BY <1>2, <1>3, <1>4

LEMMA GotoTyped ==
    ASSUME TypeOK, NEW r \in Requests, NEW s \in Steps, Goto(r, s)
    PROVE  \E q \in Request :
             /\ request' = [request EXCEPT ![r] = q]
             /\ q.step = s /\ q.path = request[r].path /\ q.under = request[r].under
             /\ q.response = request[r].response /\ q.outcome = request[r].outcome
<1> DEFINE q == [request[r] EXCEPT !.step = s]
<1>1. request[r] \in Request
  BY DEF TypeOK
<1>2. request' = [request EXCEPT ![r] = q]
  BY <1>1 DEF Goto, TypeOK
<1>3. /\ q \in Request /\ q.step = s /\ q.path = request[r].path
      /\ q.under = request[r].under
      /\ q.response = request[r].response /\ q.outcome = request[r].outcome
  BY <1>1 DEF Request
<1> HIDE DEF q
<1> QED BY <1>2, <1>3

----------------------------------------------------------------------------
(* One step of one request.                                                *)

\* The request goes on to something sound, and no other stream is touched.
GoesOn(r) ==
    /\ \E q \in Request : request' = [request EXCEPT ![r] = q] /\ Sound(r, q)'
    /\ \A h \in Requests \ {r} : slot'[h] = slot[h] /\ fed'[h] = fed[h]

LEMMA AnswerGoesOn ==
    ASSUME SInv, NEW r \in Requests, NEW o \in Outcomes,
           NEW response \in Response \cup {NoResponse}, Answer(r, o, response),
           o \in {"cached", "verified"} =>
             /\ response # NoResponse /\ request[r].under \in signed
             /\ response.file.body = Entry(r).body,
           slot'[r] = NoHasher, signed' = signed,
           \A h \in Requests \ {r} : slot'[h] = slot[h] /\ fed'[h] = fed[h]
    PROVE  GoesOn(r)
<1>1. PICK q \in Request :
         /\ request' = [request EXCEPT ![r] = q]
         /\ q.step = "answered" /\ q.outcome = o /\ q.response = response
         /\ response # NoResponse => q.under = request[r].under
                                     /\ q.path = request[r].path
  BY AnswerTyped DEF SInv
<1>2. Sound(r, q)'
  BY <1>1 DEF Sound, Checked, Live, EntryOf, Entry
<1> QED BY <1>1, <1>2 DEF GoesOn

LEMMA GotoGoesOn ==
    ASSUME SInv, NEW r \in Requests, NEW s \in Steps \ {"stream", "answered"},
           Goto(r, s), ~Live(r), UNCHANGED <<slot, fed>>, signed' = signed,
           s \in Checked => request[r].under \in signed
                            /\ Listed(request[r].under, request[r].path),
           s \in {"judge", "put"} => request[r].response \in Response,
           s = "put" => request[r].response.file.body = Entry(r).body
    PROVE  GoesOn(r)
<1>1. PICK q \in Request :
         /\ request' = [request EXCEPT ![r] = q]
         /\ q.step = s /\ q.path = request[r].path /\ q.under = request[r].under
         /\ q.response = request[r].response /\ q.outcome = request[r].outcome
  BY GotoTyped DEF SInv
<1>2. Sound(r, q)'
  BY <1>1 DEF Sound, Checked, Live, EntryOf, Entry
<1> QED BY <1>1, <1>2 DEF GoesOn

\* What every step of handle() leaves in order, whichever it is.
HandleStep(r) ==
    /\ GoesOn(r) /\ PageTyped' /\ incidents' \subseteq Incidents
    /\ cache' \in [Bodies -> Files \cup {NoFile}] /\ CacheSound'
    /\ UNCHANGED <<asked, signed, origin, memory>> /\ [PoolNext]_pool

LEMMA PageKept ==
    ASSUME TypeOK
    PROVE  /\ Quiet => PageTyped'
           /\ \A r \in Requests : Block(r) \/ Refuse(r) => PageTyped'
           /\ Calm => incidents' \subseteq Incidents
           /\ \A kind : Incident(kind) => incidents' \subseteq Incidents
           /\ NoManifest \in Manifests
<1>1. ASSUME NEW r \in Requests, Block(r) \/ Refuse(r) PROVE PageTyped'
  <2>1. PICK ui \in {"none", "notice", "retry", "unsupported", "security"} :
          Post(ui, FALSE, NoManifest)
    BY <1>1, PresentationTyped DEF Block, Refuse
  <2> QED BY <2>1, PostTyped DEF Manifests, PageTyped
<1> QED BY <1>1 DEF Quiet, Calm, Incident, TypeOK, PageTyped, Manifests

\* The request was not at a stream, and is answered without a response.
LEMMA BareAnswer ==
    ASSUME SInv, NEW r \in Requests, ~Live(r), UNCHANGED <<slot, fed, signed>>,
           \/ Answer(r, "failed", NoResponse)
           \/ Block(r) \/ Refuse(r)
    PROVE  GoesOn(r)
<1>1. PICK o \in {"failed", "blocked", "unavailable"} : Answer(r, o, NoResponse)
  BY DEF Block, Refuse
<1> QED BY <1>1, AnswerGoesOn DEF Outcomes, Live

LEMMA HandleSound ==
    ASSUME SInv, NEW r \in Requests, Handle(r)
    PROVE  HandleStep(r)
<1> DEFINE q0 == request[r]
<1> USE DEF At
<1>0. /\ TypeOK /\ q0 \in Request /\ Sound(r, q0) /\ CacheSound
      /\ cache \in [Bodies -> Files \cup {NoFile}]
      /\ q0.path \in Paths /\ q0.response \in Response \cup {NoResponse}
  BY DEF SInv, RequestsSound, TypeOK, Request
<1>a. ASSUME UNCHANGED <<surroundings, cache, pool>>, GoesOn(r), PageTyped',
             incidents' \subseteq Incidents
      PROVE  HandleStep(r)
  BY <1>0, <1>a DEF HandleStep, CacheSound, pool
<1>b. UNCHANGED pool => UNCHANGED <<slot, fed>>
  BY DEF pool
<1>1. CASE Join(r)
  <2>1. GoesOn(r)
    BY <1>0, <1>1, <1>b, GotoGoesOn DEF Join, Steps, Checked, Sound
  <2> QED BY <1>0, <1>1, <1>a, <2>1, PageKept DEF Join
<1>2. CASE Decide(r)
  <2> DEFINE d == DecideRequest(q0.path)
  <2>1. q0.step \in {"decide", "ready"} /\ ~Live(r)
    BY <1>0, <1>2 DEF Decide, Sound
  <2>2. CASE d = "CHECK"
    <3>1. PICK q : q = [q0 EXCEPT !.step = "lookup", !.under = memory.manifest]
      OBVIOUS
    <3>2. memory.manifest \in signed /\ Listed(memory.manifest, q0.path)
      BY <2>2 DEF DecideRequest, SInv, MemorySigned
    <3>3. /\ q \in Request /\ q.step = "lookup" /\ q.under = memory.manifest
          /\ q.path = q0.path
      BY <1>0, <3>1 DEF Request, Steps, TypeOK
    <3>4. request' = [request EXCEPT ![r] = q] /\ UNCHANGED <<slot, fed, signed>>
      BY <1>0, <1>2, <2>2, <3>1 DEF Decide, pool, TypeOK
    <3>5. Sound(r, q)'
      BY <2>1, <3>2, <3>3, <3>4 DEF Sound, Checked, Live, Listed
    <3>6. GoesOn(r)
      BY <3>3, <3>4, <3>5 DEF GoesOn
    <3> QED BY <1>0, <1>2, <1>a, <2>2, <3>6, PageKept DEF Decide
  <2>3. CASE d = "PASSTHROUGH"
    <3>1. GoesOn(r)
      BY <1>2, <1>b, <2>1, <2>3, GotoGoesOn DEF Decide, Steps, Checked
    <3> QED BY <1>0, <1>2, <1>a, <2>3, <3>1, PageKept DEF Decide
  <2>4. CASE d \notin {"CHECK", "PASSTHROUGH"}
    <3>1. Block(r) \/ Refuse(r)
      BY <1>2, <2>4 DEF Decide
    <3>2. GoesOn(r)
      BY <1>2, <1>b, <2>1, <3>1, BareAnswer DEF Decide
    <3> QED BY <1>0, <1>2, <1>a, <3>1, <3>2, PageKept DEF Decide
  <2> QED BY <2>2, <2>3, <2>4
<1>3. CASE PassThrough(r)
  <2>1. ~Live(r) /\ Reply(q0.path) \in Response
    BY <1>0, <1>3, ReplyTyped DEF PassThrough, Sound
  <2>2. GoesOn(r)
    BY <1>3, <1>b, <2>1, AnswerGoesOn, BareAnswer DEF PassThrough, Outcomes, Live
  <2> QED BY <1>0, <1>3, <1>a, <2>2, PageKept DEF PassThrough
<1>4. CASE Lookup(r)
  <2> DEFINE hit == cache[Entry(r).body]
  <2>1. ~Live(r) /\ q0.under \in signed /\ Listed(q0.under, q0.path)
        /\ Entry(r).body \in Bodies
    BY <1>0, <1>4, EntryTyped DEF Lookup, Sound, Checked, Entry, EntryOf
  <2>0. UNCHANGED <<slot, fed, signed>>
    BY <1>4, <1>b DEF Lookup
  <2>2. ASSUME hit # NoFile, Answer(r, "cached", [status |-> "200", file |-> hit])
        PROVE  GoesOn(r)
    <3> DEFINE response == [status |-> "200", file |-> hit]
    <3>1. response \in Response /\ response # NoResponse
          /\ response.file.body = Entry(r).body
      BY <1>0, <2>1, <2>2, ServingAssumption DEF Response, Statuses, CacheSound
    <3> HIDE DEF response
    <3> QED BY <2>0, <2>1, <2>2, <3>1, AnswerGoesOn DEF Outcomes, Live, response
  <2>3. Goto(r, "fetch") => GoesOn(r)
    BY <2>0, <2>1, GotoGoesOn DEF Steps
  <2>4. Answer(r, "failed", NoResponse) => GoesOn(r)
    BY <2>0, <2>1, BareAnswer
  <2>5. GoesOn(r)
    BY <1>4, <2>2, <2>3, <2>4 DEF Lookup
  <2> QED BY <1>0, <1>4, <1>a, <2>5, PageKept DEF Lookup
<1>5. CASE Fetch(r)
  <2> DEFINE partial == [status |-> "206", file |-> origin[q0.path]]
             unreached == [status |-> "other", file |-> ErrorPage]
  <2>1. /\ ~Live(r) /\ q0.under \in signed /\ Listed(q0.under, q0.path)
        /\ UNCHANGED <<slot, fed, signed>>
    BY <1>0, <1>5, <1>b DEF Fetch, Sound, Checked
  <2>2. ASSUME NEW response \in Response, Responded(r, response) PROVE GoesOn(r)
    <3>1. PICK q : q = [q0 EXCEPT !.step = "judge", !.response = response]
      OBVIOUS
    <3>2. /\ q \in Request /\ q.step = "judge" /\ q.response = response
          /\ q.under = q0.under /\ q.path = q0.path
      BY <1>0, <3>1 DEF Request, Steps
    <3>3. request' = [request EXCEPT ![r] = q]
      BY <1>0, <2>2, <3>1 DEF Responded, TypeOK
    <3>4. Sound(r, q)'
      BY <2>1, <3>2 DEF Sound, Checked, Live, Listed
    <3> QED BY <2>1, <3>2, <3>3, <3>4 DEF GoesOn
  <2>3. Reply(q0.path) \in Response /\ unreached \in Response
    BY <1>0, ReplyTyped, ServingAssumption DEF Response, Statuses
  <2>4. ASSUME origin[q0.path] # NoFile, Answer(r, "passed", partial)
        PROVE  GoesOn(r)
    <3>1. partial \in Response
      BY <1>0, <2>4 DEF TypeOK, Response, Statuses
    <3> QED BY <2>1, <2>4, <3>1, AnswerGoesOn DEF Outcomes, Live
  <2>5. Refuse(r) => GoesOn(r)
    BY <2>1, BareAnswer
  <2> HIDE DEF partial, unreached
  <2>6. GoesOn(r)
    BY <1>5, <2>2, <2>3, <2>4, <2>5 DEF Fetch, partial, unreached
  <2>7. PageTyped' /\ incidents' \subseteq Incidents
    BY <1>0, <1>5, PageKept DEF Fetch, Responded
  <2> QED BY <1>5, <1>a, <2>6, <2>7 DEF Fetch
<1>c. ASSUME NEW verdict, Unserved(r, verdict), ~Live(r), q0.response \in Response,
             UNCHANGED <<slot, fed, signed>>
      PROVE  GoesOn(r) /\ PageTyped'
  <2>1. CASE Block(r)
    BY <1>0, <1>c, <2>1, BareAnswer, PageKept
  <2>2. CASE /\ Answer(r, "passed", q0.response)
             /\ Post(PresentationFor("NETWORK_FAIL"), FALSE, NoManifest)
    <3>1. GoesOn(r)
      BY <1>c, <2>2, AnswerGoesOn DEF Outcomes, Live
    <3>2. PageTyped'
      BY <1>0, <2>2, PresentationTyped, PostTyped, PageKept DEF PageTyped
    <3> QED BY <3>1, <3>2
  <2> QED BY <1>c, <2>1, <2>2 DEF Unserved
<1>6. CASE Buffer(r)
  <2> DEFINE verdict == DecideResponse(q0.response, Entry(r), q0.response.file.body)
  <2>1. /\ ~Live(r) /\ q0.under \in signed /\ Listed(q0.under, q0.path)
        /\ q0.response \in Response /\ UNCHANGED <<slot, fed, signed>>
    BY <1>0, <1>6, <1>b DEF Buffer, Sound, Checked
  <2>2. CASE Unserved(r, verdict)
    <3>1. GoesOn(r) /\ PageTyped'
      BY <1>c, <2>1, <2>2
    <3> QED BY <1>0, <1>6, <1>a, <3>1, PageKept DEF Buffer
  <2>3. CASE verdict = "SERVE_VERIFIED" /\ Goto(r, "put") /\ Quiet
    <3>1. q0.response.file.body = Entry(r).body
      BY <2>3 DEF DecideResponse
    <3>2. GoesOn(r)
      BY <2>1, <2>3, <3>1, GotoGoesOn DEF Steps
    <3> QED BY <1>0, <1>6, <1>a, <2>3, <3>2, PageKept DEF Buffer
  <2> QED BY <1>6, <2>2, <2>3 DEF Buffer
<1>7. CASE ReadFails(r)
  <2>1. GoesOn(r)
    BY <1>0, <1>7, <1>b, BareAnswer DEF ReadFails, Sound
  <2> QED BY <1>0, <1>7, <1>a, <2>1, PageKept DEF ReadFails
<1>8. CASE Put(r)
  <2>1. /\ ~Live(r) /\ q0.under \in signed /\ q0.response \in Response
        /\ q0.response # NoResponse /\ q0.response.file \in Files
        /\ q0.response.file.body = Entry(r).body
        /\ UNCHANGED <<slot, fed, signed, pool>>
    BY <1>0, <1>8, <1>b, ServingAssumption DEF Put, Sound, Checked, Response, Entry,
       EntryOf
  <2>2. GoesOn(r)
    <3>1. Answer(r, "verified", q0.response) => GoesOn(r)
      BY <2>1, AnswerGoesOn DEF Outcomes, Live
    <3>2. Answer(r, "failed", NoResponse) => GoesOn(r)
      BY <2>1, BareAnswer
    <3> QED BY <1>8, <3>1, <3>2 DEF Put
  <2>3. cache' \in [Bodies -> Files \cup {NoFile}] /\ CacheSound'
    <3>1. CASE cache' = cache
      BY <1>0, <3>1 DEF CacheSound
    <3>2. CASE cache' = [cache EXCEPT ![Entry(r).body] = q0.response.file]
      BY <1>0, <2>1, <3>2 DEF CacheSound
    <3> QED BY <1>8, <3>1, <3>2 DEF Put
  <2> QED BY <1>0, <1>8, <2>1, <2>2, <2>3, PageKept DEF Put, HandleStep
<1>d. /\ \A h \in Requests \ {r} : New(r) \/ Finalize(r) \/ Dispose(r) =>
           slot'[h] = slot[h] /\ fed'[h] = fed[h]
      /\ Finalize(r) \/ Dispose(r) => slot'[r] = NoHasher
  BY DEF New, Finalize, Dispose, Release, SInv, PoolInv, PoolTypeOK
<1>9. CASE StartStream(r)
  <2> DEFINE head == DecideHead(q0.response, Entry(r))
  <2>1. /\ ~Live(r) /\ q0.under \in signed /\ Listed(q0.under, q0.path)
        /\ q0.response \in Response /\ signed' = signed
    BY <1>0, <1>9 DEF StartStream, Sound, Checked
  <2>2. CASE Unserved(r, head) /\ UNCHANGED pool
    <3>1. GoesOn(r) /\ PageTyped'
      BY <1>b, <1>c, <2>1, <2>2
    <3> QED BY <1>0, <1>9, <1>a, <2>2, <3>1, PageKept DEF StartStream
  <2>3. CASE New(r) /\ Goto(r, "stream") /\ Quiet
    <3>1. PICK q \in Request :
             /\ request' = [request EXCEPT ![r] = q]
             /\ q.step = "stream" /\ q.path = q0.path /\ q.under = q0.under
             /\ q.response = q0.response
      BY <1>0, <2>3, GotoTyped DEF Steps
    <3>2. slot'[r] # NoHasher /\ fed'[r] = <<>>
      <4>1. Taken \in Nat
        BY TakenIsFresh DEF SInv, PoolInv, PoolTypeOK, Slots
      <4> QED BY <2>3, <4>1, PoolAssumption DEF New, SInv, PoolInv, PoolTypeOK
    <3>3. Len(Parts[q.response.file.body]) \in Nat
      BY <2>1, <3>1, FilesHaveBodies DEF Response
    <3>4. Feeds(r, Parts[q.response.file.body])'
      BY <3>2, <3>3 DEF Feeds
    <3>5. Sound(r, q)'
      BY <2>1, <3>1, <3>2, <3>4 DEF Sound, Checked, Live, Listed
    <3>6. GoesOn(r)
      BY <1>d, <2>3, <3>1, <3>5 DEF GoesOn
    <3> QED BY <1>0, <1>9, <2>3, <3>6, PageKept DEF StartStream, HandleStep, PoolNext,
            CacheSound
  <2>4. CASE NewFails /\ Answer(r, "failed", NoResponse) /\ Quiet
    <3>1. GoesOn(r)
      BY <2>1, <2>4, BareAnswer DEF NewFails
    <3> QED BY <1>0, <1>9, <2>4, <3>1, PageKept DEF StartStream, HandleStep, PoolNext,
            CacheSound
  <2> QED BY <1>9, <2>2, <2>3, <2>4 DEF StartStream
<1>e. CASE q0.step = "stream"
  <2>1. /\ Live(r) /\ q0.under \in signed /\ Listed(q0.under, q0.path)
        /\ q0.response \in Response /\ q0.response \in Response \cup {NoResponse}
        /\ q0.response # NoResponse
        /\ q0.response.file.body \in Bodies
        /\ Body(r) = Parts[q0.response.file.body] /\ Body(r) \in Seq(Chunks)
        /\ Feeds(r, Body(r)) /\ fed[r] \in Seq(Chunks) /\ Digest(r) = fed[r]
    BY <1>0, <1>e, FilesHaveBodies, ServingAssumption
    DEF Sound, Checked, Response, Body, SInv, PoolInv, PoolTypeOK, DigestsAreOwn
  <2>2. CASE Transform(r)
    <3> DEFINE chunk == Body(r)[Len(fed[r]) + 1]
    <3>0. /\ Len(fed[r]) < Len(Body(r)) /\ Update(r, chunk)
          /\ UNCHANGED <<surroundings, cache, request, page, incidents>>
      BY <2>2 DEF Transform, Quiet, Calm
    <3>1. /\ chunk \in Chunks /\ Update(r, chunk)
          /\ UNCHANGED <<surroundings, cache, request, page, incidents>>
      <4>1. \A i \in 1 .. Len(fed[r]) : fed[r][i] = Body(r)[i]
        BY <2>1 DEF Feeds
      <4>2. /\ fed[r] \in Seq(Chunks) /\ Body(r) \in Seq(Chunks)
            /\ Len(fed[r]) < Len(Body(r))
        BY <2>1, <3>0
      <4>3. chunk \in Chunks
        BY <4>1, <4>2, OneChunkMore
      <4> QED BY <3>0, <4>3
    <3>2. /\ fed' = [fed EXCEPT ![r] = Append(fed[r], chunk)] /\ slot' = slot
      BY <3>1 DEF Update, SInv, PoolInv, PoolTypeOK
    <3>3. fed'[r] = Append(fed[r], chunk) /\ \A h \in Requests \ {r} : fed'[h] = fed[h]
      BY <3>2 DEF SInv, PoolInv, PoolTypeOK
    <3>4. /\ Len(fed'[r]) <= Len(Body(r))
          /\ \A i \in 1 .. Len(fed'[r]) : fed'[r][i] = Body(r)[i]
      <4>1. \A i \in 1 .. Len(fed[r]) : fed[r][i] = Body(r)[i]
        BY <2>1 DEF Feeds
      <4>2. /\ fed[r] \in Seq(Chunks) /\ Body(r) \in Seq(Chunks)
            /\ Len(fed[r]) < Len(Body(r))
        BY <2>1, <3>0
      <4> QED BY <3>3, <4>1, <4>2, OneChunkMore
    <3>5. PICK q \in Request : q = q0
      BY <1>0
    <3>6. Sound(r, q)'
      BY <1>0, <1>e, <2>1, <3>1, <3>2, <3>4, <3>5 DEF Sound, Feeds, Live, Listed
    <3>7. request' = [request EXCEPT ![r] = q]
      BY <1>0, <3>1, <3>5 DEF TypeOK
    <3>8. GoesOn(r)
      BY <3>2, <3>3, <3>6, <3>7 DEF GoesOn
    <3> HIDE DEF chunk
    <3> QED BY <1>0, <3>1, <3>8 DEF HandleStep, PoolNext, CacheSound, TypeOK, PageTyped
  <2>3. CASE Flush(r)
    <3>1. GoesOn(r) /\ PageTyped'
      <4>1. CASE Digest(r) = Parts[Entry(r).body]
        <5>1. fed[r] = Body(r)
          BY <2>1, <2>3 DEF Flush, Feeds
        <5>2. q0.response.file.body = Entry(r).body
          BY <1>0, <2>1, <4>1, <5>1, EntryTyped, ServingAssumption DEF Entry, EntryOf
        <5>3. Answer(r, "verified", q0.response) /\ Finalize(r) /\ Quiet /\ signed' = signed
          BY <2>3, <4>1 DEF Flush
        <5> QED BY <1>0, <1>d, <2>1, <5>2, <5>3, AnswerGoesOn, PageKept DEF Outcomes
      <4>2. CASE Digest(r) # Parts[Entry(r).body]
        <5>1. Block(r) /\ Finalize(r) /\ signed' = signed
          BY <2>3, <4>2 DEF Flush
        <5> QED BY <1>0, <1>d, <5>1, AnswerGoesOn, PageKept DEF Block, Outcomes
      <4> QED BY <4>1, <4>2
    <3> QED BY <1>0, <2>3, <3>1, PageKept DEF Flush, HandleStep, PoolNext, CacheSound
  <2>4. CASE Cancel(r)
    <3>1. GoesOn(r)
      BY <1>d, <2>4, AnswerGoesOn DEF Cancel, Outcomes
    <3> QED BY <1>0, <2>4, <3>1, PageKept DEF Cancel, HandleStep, PoolNext, CacheSound
  <2>5. Transform(r) \/ Flush(r) \/ Cancel(r)
    BY <1>e DEF Handle, Join, Decide, PassThrough, Lookup, Fetch, Buffer, ReadFails,
       Put, StartStream
  <2> QED BY <2>2, <2>3, <2>4, <2>5
<1> QED BY <1>1, <1>2, <1>3, <1>4, <1>5, <1>6, <1>7, <1>8, <1>9, <1>e
        DEF Handle, Transform, Flush, Cancel


----------------------------------------------------------------------------
(* One step of anything else.                                              *)

MemoryTyped == memory \in [state: HardStates \cup {"VALID", "EXPIRED", "NETWORK_FAIL"},
                           manifest: Manifests]

LEMMA SettledSound ==
    ASSUME TypeOK, MemorySigned, Settled
    PROVE  /\ MemoryTyped' /\ MemorySigned' /\ signed' = signed
           /\ PageTyped' /\ incidents' \subseteq Incidents
<1>1. Environment!Accept => MemoryTyped' /\ MemorySigned' /\ signed' = signed
  BY DEF Environment!Accept, TypeOK, MemoryTyped, MemorySigned, Manifests
<1>2. Environment!Refuse => MemoryTyped' /\ MemorySigned' /\ signed' = signed
  BY DEF Environment!Refuse, TypeOK, MemoryTyped, MemorySigned, Manifests
<1>3. Environment!Unreachable => MemoryTyped' /\ MemorySigned' /\ signed' = signed
  BY DEF Environment!Unreachable, TypeOK, MemoryTyped, MemorySigned, Manifests
<1>4. PICK ui \in {"none", "notice", "retry", "unsupported", "security"},
           valid \in BOOLEAN : Post(ui, valid, NoManifest)
  BY PresentationTyped DEF Settled
<1>5. PageTyped' /\ incidents' \subseteq Incidents
  BY <1>4, PostTyped, PageKept DEF PageTyped, Settled
<1> QED BY <1>1, <1>2, <1>3, <1>5 DEF Settled

\* What keeps every request sound: it stays as it is, or goes where nothing is
\* asked of it.
LEMMA RequestsFramed ==
    ASSUME RequestsSound, signed \subseteq signed', UNCHANGED <<slot, fed>>,
           \A r \in Requests :
             \/ request'[r] = request[r]
             \/ /\ request[r].step # "stream"
                /\ request'[r].step \notin Checked
                /\ request'[r].step = "answered" =>
                     request'[r].outcome \notin {"cached", "verified"}
    PROVE  RequestsSound'
<1> SUFFICES ASSUME NEW r \in Requests PROVE Sound(r, request[r])'
  BY DEF RequestsSound
<1>1. Sound(r, request[r]) /\ Live(r)' = Live(r)
  BY DEF RequestsSound, Live
<1>2. CASE request'[r] = request[r]
  BY <1>1, <1>2 DEF Sound, Feeds, EntryOf, Listed
<1>3. CASE request'[r] # request[r]
  BY <1>1, <1>3 DEF Sound, Checked
<1> QED BY <1>2, <1>3

LEMMA OneRequestTyped ==
    ASSUME TypeOK, NEW r \in Requests, NEW q \in Request,
           request' = [request EXCEPT ![r] = q]
    PROVE  /\ request' \in [Requests -> Request] /\ request'[r] = q
           /\ \A h \in Requests \ {r} : request'[h] = request[h]
  BY DEF TypeOK

LEMMA RequestsGoOn ==
    ASSUME SInv, NEW r \in Requests, GoesOn(r), signed' = signed
    PROVE  request' \in [Requests -> Request] /\ RequestsSound'
<1>1. PICK q \in Request : request' = [request EXCEPT ![r] = q] /\ Sound(r, q)'
  BY DEF GoesOn
<1>2. /\ request' \in [Requests -> Request] /\ request'[r] = q
      /\ \A h \in Requests \ {r} : request'[h] = request[h]
  BY <1>1, OneRequestTyped DEF SInv
<1>3. ASSUME NEW h \in Requests \ {r} PROVE Sound(h, request[h])'
  BY <1>2, <1>3 DEF GoesOn, SInv, RequestsSound, Sound, Feeds, Live, EntryOf, Listed
<1>4. Sound(r, request[r])'
  BY <1>1, <1>2 DEF Sound, Feeds, Live, EntryOf, Listed
<1> QED BY <1>2, <1>3, <1>4 DEF RequestsSound

\* The parts of SInv that are not about requests.
Around == /\ signed \subseteq Numbers /\ SignedInOrder /\ MemoryTyped /\ MemorySigned
          /\ origin \in [Paths -> Files \cup {NoFile}]
          /\ cache \in [Bodies -> Files \cup {NoFile}] /\ CacheSound
          /\ PageTyped /\ asked \in Nat /\ incidents \subseteq Incidents

LEMMA AroundIsPart ==
    /\ SInv <=> /\ PoolInv /\ Around /\ RequestsSound
                /\ request \in [Requests -> Request]
  BY DEF SInv, TypeOK, Around, MemoryTyped, PageTyped, PoolInv

LEMMA AroundStays ==
    ASSUME Around, UNCHANGED <<signed, memory, origin, cache, overlay, known, asking>>,
           asked' \in Nat, incidents' \subseteq Incidents
    PROVE  Around'
  BY DEF Around, SignedInOrder, Latest, MemoryTyped, MemorySigned, CacheSound, PageTyped

LEMMA StepSound ==
    ASSUME SInv, [Next]_vars
    PROVE  SInv' /\ [PoolNext]_pool
<1>0. /\ TypeOK /\ PoolInv /\ Around /\ RequestsSound
      /\ request \in [Requests -> Request]
      /\ MemorySigned /\ SignedInOrder /\ CacheSound
  BY AroundIsPart DEF SInv
<1>a. ASSUME Around', RequestsSound', request' \in [Requests -> Request],
             [PoolNext]_pool
      PROVE  SInv' /\ [PoolNext]_pool
  <2>1. PoolInv'
    BY <1>0, <1>a, PoolInductive
  <2> QED BY <2>1, <1>a DEF SInv, TypeOK, Around, MemoryTyped, PageTyped, PoolInv
<1>b. ASSUME UNCHANGED <<pool, request>>, signed \subseteq signed'
      PROVE  RequestsSound' /\ request' \in [Requests -> Request] /\ [PoolNext]_pool
  BY <1>0, <1>b, RequestsFramed DEF pool
<1>1. CASE Deploy
  <2>1. SignedInOrder' /\ signed \subseteq signed' /\ signed' \subseteq Numbers
    <3>1. /\ Latest \in Nat \ {0} /\ signed = 1 .. Latest
          /\ signed' = 1 .. Latest + 1 /\ Latest + 1 \in Nat
      BY <1>0, <1>1 DEF Deploy, SignedInOrder
    <3>2. Cardinality(1 .. Latest + 1) = Latest + 1
      <4> DEFINE n == Latest + 1
      <4>1. n \in Nat /\ 1 \in Int
        BY <3>1
      <4> HIDE DEF n
      <4>2. Cardinality(1 .. n) = IF 1 > n THEN 0 ELSE n - 1 + 1
        BY <4>1, FS_Interval
      <4>3. n >= 1
        BY <3>1 DEF n
      <4> QED BY <4>1, <4>2, <4>3 DEF n
    <3>3. Latest' = Latest + 1
      BY <3>1, <3>2 DEF Latest
    <3> QED BY <1>0, <1>1, <3>1, <3>3 DEF SignedInOrder, Deploy, Around
  <2>2. Around'
    BY <1>0, <1>1, <2>1 DEF Deploy, Calm, Around, MemoryTyped, MemorySigned, CacheSound,
                            PageTyped
  <2> QED BY <1>1, <1>a, <1>b, <2>1, <2>2 DEF Deploy
<1>2. CASE Refresh
  <2>1. Around'
    BY <1>0, <1>2, SettledSound DEF Refresh, AskOnce, Around, SignedInOrder, Latest,
                                    CacheSound
  <2>2. signed' = signed
    BY <1>0, <1>2, SettledSound DEF Refresh
  <2> QED BY <1>2, <1>a, <1>b, <2>1, <2>2 DEF Refresh
<1>3. CASE FlightThrows
  <2>1. request' \in [Requests -> Request] /\ RequestsSound'
    <3>1. \A r \in Requests :
            \/ request'[r] = request[r]
            \/ /\ request[r].step = "waiting"
               /\ request'[r] = [request[r] EXCEPT !.step = "answered",
                                                   !.outcome = "failed"]
      BY <1>3 DEF FlightThrows, Waiting, At
    <3>2. ASSUME NEW r \in Requests, request'[r] # request[r]
          PROVE  /\ request'[r] \in Request /\ request[r].step # "stream"
                 /\ request'[r].step = "answered" /\ request'[r].outcome = "failed"
      BY <1>0, <3>1, <3>2 DEF Request, Steps, Outcomes
    <3>3. request' \in [Requests -> Request]
      BY <1>0, <1>3, <3>2 DEF FlightThrows
    <3> QED BY <1>0, <1>3, <3>2, <3>3, RequestsFramed DEF FlightThrows, Checked, pool
  <2>2. Around'
    BY <1>0, <1>3, AroundStays, PageKept DEF FlightThrows, Around
  <2> QED BY <1>3, <1>a, <2>1, <2>2 DEF FlightThrows
<1>4. CASE FlightLands
  <2>0. signed' = signed
    BY <1>0, <1>4, SettledSound DEF FlightLands
  <2>1. request' \in [Requests -> Request] /\ RequestsSound'
    <3>1. \A r \in Requests :
            \/ request'[r] = request[r]
            \/ /\ request[r].step = "waiting"
               /\ request'[r] = [request[r] EXCEPT !.step = "decide"]
      BY <1>4 DEF FlightLands, Waiting, At
    <3>2. ASSUME NEW r \in Requests, request'[r] # request[r]
          PROVE  /\ request'[r] \in Request /\ request[r].step # "stream"
                 /\ request'[r].step = "decide"
      BY <1>0, <3>1, <3>2 DEF Request, Steps
    <3>3. request' \in [Requests -> Request]
      BY <1>0, <1>4, <3>2 DEF FlightLands
    <3> QED BY <1>0, <1>4, <2>0, <3>2, <3>3, RequestsFramed DEF FlightLands, Checked, pool
  <2>2. Around'
    BY <1>0, <1>4, SettledSound DEF FlightLands, Around, SignedInOrder, Latest, CacheSound
  <2> QED BY <1>4, <1>a, <2>1, <2>2 DEF FlightLands
<1>5. CASE Restart
  <2>1. /\ memory' = [state |-> "NETWORK_FAIL", manifest |-> NoManifest]
        /\ signed' = signed /\ slot' = [h \in Requests |-> NoHasher]
    BY <1>5 DEF Restart, Environment!Restart, Environment!Cold, PoolRestart
  <2>2. \A r \in Requests :
          request'[r] = IF request[r].step \in {"idle", "answered"} THEN request[r]
                        ELSE [request[r] EXCEPT !.step = "answered",
                                 !.outcome = "failed", !.response = NoResponse]
    BY <1>5 DEF Restart
  <2>3. ASSUME NEW r \in Requests
        PROVE  /\ request'[r] \in Request
               /\ \/ request'[r] = request[r] /\ request[r].step \in {"idle", "answered"}
                  \/ request'[r].step = "answered" /\ request'[r].outcome = "failed"
    BY <1>0, <2>2 DEF Request, Steps, Outcomes
  <2>4. request' \in [Requests -> Request]
    BY <1>5, <2>3 DEF Restart
  <2>5. ASSUME NEW r \in Requests PROVE Sound(r, request[r])'
    BY <1>0, <2>1, <2>3, PoolAssumption
    DEF RequestsSound, Sound, Live, Checked, EntryOf, Listed
  <2>6. Around'
    BY <1>0, <1>5, <2>1, PageKept
    DEF Restart, Quiet, Around, SignedInOrder, Latest, MemoryTyped, MemorySigned, CacheSound,
        PageTyped, Manifests
  <2>7. PoolNext
    BY <1>5 DEF Restart, PoolNext
  <2> QED BY <1>a, <2>4, <2>5, <2>6, <2>7 DEF RequestsSound
<1>6. CASE Status
  <2>1. PageTyped'
    <3>1. memory.manifest \in Manifests
      BY <1>0 DEF Around, MemoryTyped
    <3>2. PICK ui \in {"none", "notice", "retry", "unsupported", "security"},
               valid \in BOOLEAN :
            ui = PresentationFor(memory.state) /\ valid = (memory.state = "VALID")
      BY PresentationTyped
    <3>3. Post(ui, valid, memory.manifest)
      BY <1>6, <3>2 DEF Status
    <3> QED BY <1>0, <3>1, <3>3, PostTyped DEF PageTyped
  <2>2. Around'
    BY <1>0, <1>6, <2>1 DEF Status, AskOnce, Around, SignedInOrder, Latest, MemoryTyped,
                            MemorySigned, CacheSound
  <2> QED BY <1>6, <1>a, <1>b, <2>2 DEF Status
<1>7. CASE FetchManifest
  <2>1. Latest \in Manifests
    BY <1>0 DEF SignedInOrder, Around, Manifests
  <2>2. Around'
    BY <1>0, <1>7, <2>1 DEF FetchManifest, Around, SignedInOrder, Latest, MemoryTyped,
                            MemorySigned, CacheSound, PageTyped
  <2> QED BY <1>7, <1>a, <1>b, <2>2 DEF FetchManifest
<1>8. ASSUME NEW p \in Paths, Upload(p) \/ \E f \in Files : Corrupt(p, f)
      PROVE  SInv' /\ [PoolNext]_pool
  <2>1. /\ incidents' \subseteq Incidents /\ UNCHANGED <<signed, worker, request, asked, page>>
    BY <1>0, <1>8, PageKept DEF Upload, Corrupt, Calm, Around
  <2>2. origin' \in [Paths -> Files \cup {NoFile}]
    <3>1. CASE Upload(p)
      <4>1. Releases[Latest][p] \in Files
        BY <1>0, <3>1, ServingAssumption DEF Upload, Listed, SignedInOrder, Around
      <4> QED BY <1>0, <3>1, <4>1 DEF Upload, Around
    <3>2. CASE \E f \in Files : Corrupt(p, f)
      BY <1>0, <3>2 DEF Corrupt, Around
    <3> QED BY <1>8, <3>1, <3>2
  <2>3. Around'
    BY <1>0, <2>1, <2>2 DEF Around, SignedInOrder, Latest, MemoryTyped, MemorySigned,
                            CacheSound, PageTyped
  <2> QED BY <1>a, <1>b, <2>1, <2>3
<1>9. ASSUME NEW b \in Bodies, Evict(b) PROVE SInv' /\ [PoolNext]_pool
  <2>1. cache' \in [Bodies -> Files \cup {NoFile}] /\ CacheSound'
    BY <1>0, <1>9 DEF Evict, CacheSound, Around
  <2>2. Around'
    BY <1>0, <1>9, <2>1, PageKept DEF Evict, Around, SignedInOrder, Latest, MemoryTyped,
                                      MemorySigned, PageTyped
  <2> QED BY <1>9, <1>a, <1>b, <2>2 DEF Evict
<1>10. ASSUME NEW r \in Requests, Handle(r) PROVE SInv' /\ [PoolNext]_pool
  <2>1. HandleStep(r)
    BY <1>10, HandleSound
  <2>2. request' \in [Requests -> Request] /\ RequestsSound'
    BY <2>1, RequestsGoOn DEF HandleStep
  <2>3. Around'
    BY <1>0, <2>1 DEF HandleStep, Around, SignedInOrder, Latest, MemoryTyped, MemorySigned
  <2> QED BY <1>a, <2>1, <2>2, <2>3 DEF HandleStep
<1>11. ASSUME NEW r \in Requests, Wrapper(r) PROVE SInv' /\ [PoolNext]_pool
  <2>1. PICK q : q = [request[r] EXCEPT !.outcome = "refused"]
    OBVIOUS
  <2>2. q \in Request /\ q.step = "answered" /\ q.outcome = "refused"
    BY <1>0, <1>11, <2>1 DEF Wrapper, At, Request, Outcomes
  <2>3. request' = [request EXCEPT ![r] = q] /\ request[r].step = "answered"
    BY <1>0, <1>11, <2>1 DEF Wrapper, At
  <2>4. /\ request' \in [Requests -> Request] /\ request'[r] = q
        /\ \A h \in Requests \ {r} : request'[h] = request[h]
    BY <1>0, <2>2, <2>3, OneRequestTyped
  <2>5. RequestsSound' /\ [PoolNext]_pool
    BY <1>0, <1>11, <2>2, <2>3, <2>4, RequestsFramed DEF Wrapper, pool, Checked
  <2>6. PageTyped'
    BY <1>0, <1>11, PresentationTyped, PostTyped, PageKept DEF Wrapper, PageTyped
  <2>7. Around'
    BY <1>0, <1>11, <2>6 DEF Wrapper, Around, SignedInOrder, Latest, MemoryTyped,
                             MemorySigned, CacheSound
  <2> QED BY <1>a, <2>4, <2>5, <2>7
<1>12. ASSUME NEW r \in Requests, NEW p \in Paths, Ask(r, p)
       PROVE  SInv' /\ [PoolNext]_pool
  <2>1. PICK q : q = [IdleRequest EXCEPT !.step = "ready", !.path = p]
    OBVIOUS
  <2>2. q \in Request /\ q.step = "ready"
    BY <2>1, IdleTyped DEF Request, Steps
  <2>3. request' = [request EXCEPT ![r] = q] /\ request[r].step # "stream"
    BY <1>12, <2>1 DEF Ask
  <2>4. /\ request' \in [Requests -> Request] /\ request'[r] = q
        /\ \A h \in Requests \ {r} : request'[h] = request[h]
    BY <1>0, <2>2, <2>3, OneRequestTyped
  <2>5. RequestsSound' /\ [PoolNext]_pool
    BY <1>0, <1>12, <2>2, <2>3, <2>4, RequestsFramed DEF Ask, pool, Checked
  <2>6. asked' \in Nat /\ incidents' \subseteq Incidents
    BY <1>0, <1>12, PageKept DEF Ask, AskOnce, Around
  <2>7. Around'
    BY <1>0, <1>12, <2>6, AroundStays DEF Ask, Quiet
  <2> QED BY <1>a, <2>4, <2>5, <2>7
<1>13. CASE UNCHANGED vars
  <2>1. Around'
    BY <1>0, <1>13, AroundStays DEF vars, Around
  <2> QED BY <1>13, <1>a, <1>b, <2>1 DEF vars
<1> QED BY <1>1, <1>2, <1>3, <1>4, <1>5, <1>6, <1>7, <1>8, <1>9, <1>10, <1>11,
           <1>12, <1>13 DEF Next


LEMMA InitSound == Init => SInv
<1> SUFFICES ASSUME Init PROVE SInv
  OBVIOUS
<1>1. PoolInv
  BY PoolInitially DEF Init
<1>2. RequestsSound /\ request \in [Requests -> Request]
  BY IdleTyped, PoolAssumption
  DEF Init, PoolInit, RequestsSound, Sound, IdleRequest, Checked, Live
<1>3. SignedInOrder
  <2>1. Latest = 1
    BY FS_Singleton DEF Init, Latest
  <2> QED BY <2>1 DEF Init, SignedInOrder
<1>4. origin \in [Paths -> Files \cup {NoFile}]
  BY ServingAssumption DEF Init, Listed
<1>5. MemoryTyped /\ MemorySigned
  BY DEF Init, Environment!Init, Environment!Cold, MemoryTyped, MemorySigned, Manifests
<1>6. Around
  BY <1>3, <1>4, <1>5, ServingAssumption DEF Init, Around, CacheSound, PageTyped, Manifests
<1> QED BY <1>1, <1>2, <1>6, AroundIsPart

LEMMA SoundInvariant == Spec => []SInv
<1>1. SInv /\ [Next]_vars => SInv'
  BY StepSound
<1> QED BY <1>1, InitSound, PTL DEF Spec

\* TypeOK: the worker, its hashers, the page and the origin stay in the values the
\* code can put in them.
THEOREM ServingTyping == Spec => []TypeOK
<1>1. SInv => TypeOK
  BY DEF SInv
<1> QED BY <1>1, SoundInvariant, PTL

\* ServesSigned: whatever is deployed, refreshed, evicted, cancelled or restarted
\* while a request waits, what it is answered as checked with is what a signed
\* release has at its path.
THEOREM ServedIsSigned == Spec => []ServesSigned
<1>1. SInv => ServesSigned
  BY DEF SInv, RequestsSound, Sound, ServesSigned, At, Entry, EntryOf
<1> QED BY <1>1, SoundInvariant, PTL

\* UsesThePool: all that requests, aborted streams and restarts do to the hashers is
\* a sequence of steps of HasherPool.
THEOREM ServingUsesThePool == Spec => UsesThePool
<1>1. SInv /\ [Next]_vars => [PoolNext]_pool
  BY StepSound
<1> QED BY <1>1, SoundInvariant, PTL DEF Spec, UsesThePool

\* DigestsAreOwn, where the streams are those of requests that overlap.
THEOREM ServedStreamsDoNotMix == Spec => []DigestsAreOwn
<1>1. SInv => DigestsAreOwn
  BY DEF SInv, PoolInv
<1> QED BY <1>1, SoundInvariant, PTL

----------------------------------------------------------------------------
(* The page and the worker.                                                *)

\* Only the wrapper makes a refusal of an answer.
LEMMA OnlyWrapperRefuses ==
    ASSUME SInv, [Next]_vars, NEW r \in Requests, At(r, "answered"),
           request[r].outcome # "refused", request'[r].outcome = "refused"
    PROVE  Wrapper(r)
<1> USE DEF At
<1>0. request \in [Requests -> Request] /\ ~Live(r)
  BY DEF SInv, TypeOK, RequestsSound, Sound
<1>1. ASSUME NEW h \in Requests, Handle(h) PROVE FALSE
  <2>1. PICK q \in Request : request' = [request EXCEPT ![h] = q]
    BY <1>1, HandleSound DEF HandleStep, GoesOn
  <2>2. h = r
    BY <1>0, <2>1
  <2> QED BY <1>0, <1>1, <2>2
      DEF Handle, Join, Decide, PassThrough, Lookup, Fetch, Buffer, ReadFails, Put,
          StartStream, Transform, Flush, Cancel
<1>2. ASSUME NEW h \in Requests, h # r, Wrapper(h) \/ \E p \in Paths : Ask(h, p)
      PROVE  FALSE
  BY <1>0, <1>2 DEF Wrapper, Ask
<1>3. ASSUME NEW p \in Paths, Ask(r, p) PROVE FALSE
  BY <1>0, <1>3, IdleTyped DEF Ask, IdleRequest, Request
<1>4. CASE request' = request
  BY <1>4
<1>5. CASE FlightLands \/ FlightThrows \/ Restart
  BY <1>0, <1>5 DEF FlightLands, FlightThrows, Restart, Waiting
<1> QED BY <1>1, <1>2, <1>3, <1>4, <1>5
        DEF Next, vars, Deploy, Refresh, Status, FetchManifest, Upload, Corrupt, Evict

\* RefusedByOtherRelease: the second check, in the page, never contradicts the first
\* one over the same release.
THEOREM PageAgreesWithWorker == Spec => RefusedByOtherRelease
<1>1. ASSUME SInv, [Next]_vars, NEW r \in Requests, At(r, "answered"),
             request[r].outcome \in {"cached", "verified"},
             request'[r].outcome = "refused"
      PROVE  known # request[r].under
  <2>1. Wrapper(r)
    BY <1>1, OnlyWrapperRefuses
  <2>2. request[r].response.file.body = EntryOf(request[r]).body
    BY <1>1 DEF SInv, RequestsSound, Sound, At
  <2> QED BY <2>1, <2>2 DEF Wrapper, EntryOf
<1>2. SInv /\ [Next]_vars =>
        [\A r \in Requests :
           /\ At(r, "answered") /\ request[r].outcome \in {"cached", "verified"}
           /\ request'[r].outcome = "refused"
           => known # request[r].under]_vars
  BY <1>1
<1> QED BY <1>2, SoundInvariant, PTL DEF Spec, RefusedByOtherRelease


----------------------------------------------------------------------------
(* The slots of the hashers.                                               *)

Streaming == {r \in Requests : Live(r)}

\* What a step may do to the slots that are handed out.
SlotStep ==
    \/ UNCHANGED <<next, free, slot>>
    \/ next' = 0 /\ free' = <<>> /\ slot' = [h \in Requests |-> NoHasher]
    \/ \E r \in Requests : New(r) \/ Finalize(r) \/ Dispose(r)

\* Only a failing allocation spends a slot without a stream, and it is recorded.
LEMMA SlotsStep ==
    ASSUME [Next]_vars
    PROVE  incidents \subseteq incidents' /\ ("wasm" \in incidents' \/ SlotStep)
<1> USE DEF Calm, Incident, SlotStep
<1>1. CASE UNCHANGED <<pool, incidents>>
  BY <1>1 DEF pool
<1>2. ASSUME NEW r \in Requests, Handle(r)
      PROVE  incidents \subseteq incidents' /\ ("wasm" \in incidents' \/ SlotStep)
  <2>1. CASE StartStream(r)
    BY <2>1 DEF StartStream, pool
  <2>2. CASE Transform(r)
    BY <2>2 DEF Transform, Update
  <2>3. CASE Flush(r) \/ Cancel(r)
    BY <2>3 DEF Flush, Cancel
  <2>4. CASE ~StartStream(r) /\ ~Transform(r) /\ ~Flush(r) /\ ~Cancel(r)
    BY <1>2, <2>4 DEF Handle, Join, Decide, PassThrough, Lookup, Fetch, Buffer,
       ReadFails, Put, pool
  <2> QED BY <2>1, <2>2, <2>3, <2>4
<1>3. CASE Restart
  BY <1>3 DEF Restart, PoolRestart
<1>4. CASE Deploy \/ Refresh \/ FlightLands \/ FlightThrows
  BY <1>4 DEF Deploy, Refresh, FlightLands, FlightThrows, Settled, pool
<1>5. ASSUME NEW r \in Requests, Wrapper(r) \/ \E p \in Paths : Ask(r, p)
      PROVE  incidents \subseteq incidents' /\ ("wasm" \in incidents' \/ SlotStep)
  BY <1>5 DEF Wrapper, Ask, pool
<1>6. CASE \/ \E p \in Paths : Upload(p) \/ \E f \in Files : Corrupt(p, f)
           \/ \E b \in Bodies : Evict(b)
  BY <1>6 DEF Upload, Corrupt, Evict, pool
<1> QED BY <1>1, <1>2, <1>3, <1>4, <1>5, <1>6 DEF Next, vars, Status, FetchManifest, pool

LEMMA LenOfFirst ==
    ASSUME NEW S, NEW list \in Seq(S), Len(list) > 0
    PROVE  Len(SubSeq(list, 1, Len(list) - 1)) = Len(list) - 1
<1>1. PICK n \in Nat : n = Len(list) - 1
  OBVIOUS
<1>2. \A i \in 1 .. n : list[i] \in S
  BY <1>1
<1>3. Len(SubSeq(list, 1, n)) = n
  BY <1>1, <1>2
<1> QED BY <1>1, <1>3

LEMMA SlotStepCounts ==
    ASSUME PoolInv, next = Len(free) + Cardinality(Streaming), SlotStep
    PROVE  (next = Len(free) + Cardinality(Streaming))'
<1>0. IsFiniteSet(Streaming) /\ Cardinality(Streaming) \in Nat
  BY ServingAssumption, FS_Subset, FS_CardinalityType DEF Streaming
<1>1. CASE UNCHANGED <<next, free, slot>>
  BY <1>1 DEF Streaming, Live
<1>2. CASE next' = 0 /\ free' = <<>> /\ slot' = [h \in Requests |-> NoHasher]
  <2>1. Streaming' = {}
    BY <1>2 DEF Streaming, Live
  <2> QED BY <1>2, <2>1, FS_EmptySet
<1>3. ASSUME NEW r \in Requests, New(r)
      PROVE  (next = Len(free) + Cardinality(Streaming))'
  <2>1. Taken # NoHasher
    BY TakenIsFresh, PoolAssumption DEF PoolInv, PoolTypeOK, Slots
  <2>2. Streaming' = Streaming \cup {r} /\ r \notin Streaming
    <3>1. slot[r] = NoHasher /\ slot' = [slot EXCEPT ![r] = Taken]
      BY <1>3 DEF New, Live
    <3>2. slot'[r] = Taken /\ \A h \in Requests \ {r} : slot'[h] = slot[h]
      BY <3>1 DEF PoolInv, PoolTypeOK
    <3> QED BY <2>1, <3>1, <3>2 DEF Streaming, Live
  <2>3. Cardinality(Streaming') = Cardinality(Streaming) + 1
    BY <1>0, <2>2, FS_AddElement
  <2>4. CASE free = <<>>
    BY <1>0, <1>3, <2>3, <2>4 DEF New, Popped
  <2>5. CASE free # <<>>
    <3>1. Len(free) \in Nat /\ Len(free) > 0 /\ free \in Seq(Slots(next))
      BY <2>5 DEF PoolInv, PoolTypeOK
    <3>2. Len(SubSeq(free, 1, Len(free) - 1)) = Len(free) - 1
      BY <3>1, LenOfFirst
    <3>3. next' = next /\ free' = SubSeq(free, 1, Len(free) - 1)
      BY <1>3, <2>5 DEF New, Popped
    <3> QED BY <1>0, <2>3, <3>1, <3>2, <3>3
  <2> QED BY <2>4, <2>5
<1>4. ASSUME NEW r \in Requests, Finalize(r) \/ Dispose(r)
      PROVE  (next = Len(free) + Cardinality(Streaming))'
  <2>1. Live(r) /\ Release(r)
    BY <1>4 DEF Finalize, Dispose
  <2>2. Streaming' = Streaming \ {r} /\ r \in Streaming
    BY <2>1 DEF Release, Streaming, Live, PoolInv, PoolTypeOK
  <2>3. Cardinality(Streaming') = Cardinality(Streaming) - 1
    BY <1>0, <2>2, FS_RemoveElement
  <2>4. Len(free') = Len(free) + 1 /\ Len(free) \in Nat /\ next' = next
    BY <2>1 DEF Release, PoolInv, PoolTypeOK
  <2> QED BY <1>0, <2>3, <2>4
<1> QED BY <1>1, <1>2, <1>3, <1>4 DEF SlotStep

\* NoSlotLost: every way a stream can end gives its slot back, so that a worker that
\* streams for ever needs no more memory than its requests at once.
THEOREM SlotsComeBack == Spec => []NoSlotLost
<1>1. Init => NoSlotLost
  <2> SUFFICES ASSUME Init PROVE next = Len(free) + Cardinality(Streaming)
    BY DEF NoSlotLost, Streaming
  <2>1. next = 0 /\ free = <<>> /\ Streaming = {}
    BY DEF Init, PoolInit, Streaming, Live
  <2> QED BY <2>1, FS_EmptySet
<1>2. SInv /\ NoSlotLost /\ [Next]_vars => NoSlotLost'
  BY SlotsStep, SlotStepCounts DEF SInv, NoSlotLost, Streaming
<1> QED BY <1>1, <1>2, SoundInvariant, PTL DEF Spec


----------------------------------------------------------------------------
(* Alarms.                                                                 *)

Cause == Latest > 1 \/ incidents \cap {"corrupt", "refused", "unlisted"} # {}

First(path) == Releases[1][path]

\* A request of a page whose one release is served as it was signed.
Plain(q) ==
    /\ q.step \notin {"idle", "answered"} => Listed(1, q.path) \/ q.path \in OutOfScope
    /\ q.step = "judge" /\ q.response.status = "200" => q.response.file = First(q.path)
    /\ q.step = "stream" => q.response.file = First(q.path)
    /\ /\ q.step = "answered" /\ q.outcome = "passed"
       /\ q.response.status = "200" /\ Listed(1, q.path)
       => q.response.file.body = First(q.path).body

\* Until there is a cause, nothing is refused and nobody sees an alarm.
PlainWorld ==
    /\ origin = [p \in Paths |-> IF Listed(1, p) THEN First(p) ELSE NoFile]
    /\ memory.state \in {"VALID", "EXPIRED", "NETWORK_FAIL"}
    /\ known \in {NoManifest, 1} /\ overlay = "none"
    /\ \A r \in Requests : Plain(request[r])

Uncaused == ~Cause => PlainWorld

LEMMA OnlyFirstSigned ==
    ASSUME SInv, ~Cause
    PROVE  signed = {1} /\ Latest = 1
  BY DEF SInv, SignedInOrder, Cause

\* What a file that belongs there is decided to be.
LEMMA FirstIsServed ==
    ASSUME NEW response \in Response, NEW f \in Files,
           response.status = "200" => response.file = f
    PROVE  /\ DecideResponse(response, f, response.file.body) # "BLOCK_TAMPER"
           /\ DecideHead(response, f) # "BLOCK_TAMPER"
           /\ DecideResponse(response, f, response.file.body) = "NETWORK_FAIL"
                => response.status = "other"
           /\ DecideHead(response, f) = "NETWORK_FAIL" => response.status = "other"
           /\ DecideHead(response, f) = "SERVE_VERIFIED" => response.status = "200"
<1>1. f = [type |-> f.type, body |-> f.body]
  BY ServingAssumption
<1> QED BY <1>1 DEF DecideHead, DecideResponse, Response, Statuses

\* A step of a request on which no alarm follows.
StaysPlain(r) ==
    /\ \E q \in Request : request' = [request EXCEPT ![r] = q] /\ Plain(q)
    /\ overlay' = "none" /\ known' = known

LEMMA AnswerPlain ==
    ASSUME TypeOK, NEW r \in Requests, NEW o \in Outcomes,
           NEW response \in Response \cup {NoResponse}, Answer(r, o, response),
           o = "passed" =>
             /\ response # NoResponse
             /\ response.status = "200" /\ Listed(1, request[r].path) =>
                  response.file.body = First(request[r].path).body
    PROVE  \E q \in Request : request' = [request EXCEPT ![r] = q] /\ Plain(q)
<1>1. PICK q \in Request :
         /\ request' = [request EXCEPT ![r] = q]
         /\ q.step = "answered" /\ q.outcome = o /\ q.response = response
         /\ response # NoResponse => q.under = request[r].under
                                     /\ q.path = request[r].path
  BY AnswerTyped
<1>2. Plain(q)
  BY <1>1 DEF Plain
<1> QED BY <1>1, <1>2

LEMMA GotoPlain ==
    ASSUME TypeOK, NEW r \in Requests, NEW s \in Steps \ {"judge", "answered"}, Goto(r, s),
           Plain(request[r]), request[r].step \notin {"idle", "answered"},
           s = "stream" => request[r].response.file = First(request[r].path)
    PROVE  \E q \in Request : request' = [request EXCEPT ![r] = q] /\ Plain(q)
<1>1. PICK q \in Request :
         /\ request' = [request EXCEPT ![r] = q]
         /\ q.step = s /\ q.path = request[r].path /\ q.under = request[r].under
         /\ q.response = request[r].response /\ q.outcome = request[r].outcome
  BY GotoTyped
<1>2. Plain(q)
  BY <1>1 DEF Plain
<1> QED BY <1>1, <1>2

LEMMA QuietRefusal ==
    ASSUME TypeOK, overlay = "none", NEW r \in Requests, Refuse(r)
    PROVE  StaysPlain(r)
<1>1. overlay' = "none" /\ known' = known
  BY DEF Refuse, Post, PresentationFor
<1>2. Answer(r, "unavailable", NoResponse)
  BY DEF Refuse
<1> QED BY <1>1, <1>2, AnswerPlain DEF StaysPlain, Outcomes

LEMMA HandlePlain ==
    ASSUME SInv, ~Cause, PlainWorld, NEW r \in Requests, Handle(r)
    PROVE  StaysPlain(r)
<1> DEFINE q0 == request[r]
<1> USE DEF At
<1>0. /\ TypeOK /\ q0 \in Request /\ Sound(r, q0) /\ Plain(q0) /\ q0.path \in Paths
      /\ signed = {1} /\ overlay = "none" /\ q0.response \in Response \cup {NoResponse}
  BY OnlyFirstSigned DEF SInv, RequestsSound, PlainWorld, TypeOK, Request
<1>a. ASSUME Quiet, \E q \in Request : request' = [request EXCEPT ![r] = q] /\ Plain(q)
      PROVE  StaysPlain(r)
  BY <1>0, <1>a DEF StaysPlain, Quiet
<1>b. ASSUME Quiet, Answer(r, "failed", NoResponse) PROVE StaysPlain(r)
  BY <1>0, <1>a, <1>b, AnswerPlain DEF Outcomes
<1>c. q0.step \in Checked =>
        /\ q0.under = 1 /\ Listed(1, q0.path) /\ Entry(r) = First(q0.path)
        /\ First(q0.path) \in Files
  BY <1>0, EntryTyped DEF Sound, Entry, EntryOf, First
<1>d. Reply(q0.path).status = "200" /\ Listed(1, q0.path)
        => Reply(q0.path).file = First(q0.path)
  BY <1>0 DEF Reply, PlainWorld
<1>1. CASE Join(r)
  BY <1>0, <1>1, <1>a, GotoPlain DEF Join, Steps
<1>2. CASE Decide(r)
  <2> DEFINE d == DecideRequest(q0.path)
  <2>1. q0.step \in {"decide", "ready"}
    BY <1>2 DEF Decide
  <2>2. d \in {"CHECK", "PASSTHROUGH", "BLOCK_NO_MANIFEST"}
    <3>1. ~IsHardFailure(memory.state)
      BY ServingAssumption DEF PlainWorld, IsHardFailure
    <3>2. memory.manifest # NoManifest => memory.manifest = 1
      BY <1>0 DEF SInv, MemorySigned
    <3>3. Listed(1, q0.path) \/ q0.path \in OutOfScope
      BY <1>0, <2>1 DEF Plain
    <3>4. q0.path \notin Illegal
      BY <3>3, ServingAssumption
    <3> QED BY <3>1, <3>2, <3>3, <3>4 DEF DecideRequest
  <2>3. CASE d = "CHECK"
    <3>1. PICK q : q = [q0 EXCEPT !.step = "lookup", !.under = memory.manifest]
      OBVIOUS
    <3>2. q \in Request /\ q.step = "lookup" /\ q.path = q0.path
      BY <1>0, <3>1 DEF Request, Steps, TypeOK
    <3>3. request' = [request EXCEPT ![r] = q] /\ Quiet
      BY <1>0, <1>2, <2>3, <3>1 DEF Decide, TypeOK
    <3>4. Plain(q)
      BY <1>0, <2>1, <3>2 DEF Plain
    <3> QED BY <1>a, <3>2, <3>3, <3>4
  <2>4. CASE d = "PASSTHROUGH"
    <3>1. Goto(r, "pass") /\ Quiet
      BY <1>2, <2>4 DEF Decide
    <3> QED BY <1>0, <1>a, <2>1, <3>1, GotoPlain DEF Steps
  <2>5. CASE d = "BLOCK_NO_MANIFEST"
    <3>1. Refuse(r)
      BY <1>2, <2>5 DEF Decide
    <3> QED BY <1>0, <3>1, QuietRefusal
  <2> QED BY <2>2, <2>3, <2>4, <2>5
<1>3. CASE PassThrough(r)
  <2>1. Reply(q0.path) \in Response /\ Reply(q0.path) # NoResponse
    BY <1>0, ReplyTyped, ServingAssumption
  <2>2. Answer(r, "passed", Reply(q0.path)) /\ Quiet => StaysPlain(r)
    BY <1>0, <1>a, <1>d, <2>1, AnswerPlain DEF Outcomes
  <2> QED BY <1>3, <1>b, <2>2 DEF PassThrough
<1>4. CASE Lookup(r)
  <2> DEFINE hit == cache[Entry(r).body]
             response == [status |-> "200", file |-> hit]
  <2>1. hit # NoFile => response \in Response
    BY <1>0, <1>4, <1>c, FilesHaveBodies DEF Lookup, TypeOK, Response, Statuses, Checked
  <2>2. Quiet
    BY <1>4 DEF Lookup
  <2>3. hit # NoFile /\ Answer(r, "cached", response) => StaysPlain(r)
    <3> HIDE DEF response
    <3> QED BY <1>0, <1>a, <2>1, <2>2, AnswerPlain DEF Outcomes
  <2>4. Goto(r, "fetch") => StaysPlain(r)
    BY <1>0, <1>4, <1>a, <2>2, GotoPlain DEF Lookup, Steps
  <2> QED BY <1>4, <1>b, <2>2, <2>3, <2>4 DEF Lookup
<1>5. CASE Fetch(r)
  <2> DEFINE partial == [status |-> "206", file |-> origin[q0.path]]
             unreached == [status |-> "other", file |-> ErrorPage]
  <2>1. ASSUME NEW response \in Response, Responded(r, response),
               response.status = "200" => response.file = First(q0.path)
        PROVE  StaysPlain(r)
    <3>1. PICK q : q = [q0 EXCEPT !.step = "judge", !.response = response]
      OBVIOUS
    <3>2. /\ q \in Request /\ q.step = "judge" /\ q.response = response
          /\ q.path = q0.path
      BY <1>0, <3>1 DEF Request, Steps
    <3>3. request' = [request EXCEPT ![r] = q] /\ Quiet
      BY <1>0, <2>1, <3>1 DEF Responded, TypeOK
    <3>4. Plain(q)
      BY <1>0, <1>5, <2>1, <3>2 DEF Plain, Fetch
    <3> QED BY <1>a, <3>2, <3>3, <3>4
  <2>2. /\ Reply(q0.path) \in Response /\ unreached \in Response
        /\ unreached.status = "other" /\ Listed(1, q0.path)
    BY <1>0, <1>5, <1>c, ReplyTyped, ServingAssumption DEF Response, Statuses, Fetch, Checked
  <2>3. ASSUME origin[q0.path] # NoFile, Answer(r, "passed", partial), Quiet
        PROVE  StaysPlain(r)
    <3>1. partial \in Response /\ partial # NoResponse /\ partial.status = "206"
      BY <1>0, <2>3, ServingAssumption DEF TypeOK, Response, Statuses
    <3> HIDE DEF partial
    <3> QED BY <1>0, <1>a, <2>3, <3>1, AnswerPlain DEF Outcomes
  <2>4. Refuse(r) => StaysPlain(r)
    BY <1>0, QuietRefusal
  <2> HIDE DEF partial, unreached
  <2> QED BY <1>5, <1>d, <2>1, <2>2, <2>3, <2>4 DEF Fetch, partial, unreached
<1>e. ASSUME NEW verdict, Unserved(r, verdict), verdict # "BLOCK_TAMPER",
             q0.response \in Response, q0.response.status = "other"
      PROVE  StaysPlain(r)
  <2>1. /\ Answer(r, "passed", q0.response) /\ q0.response # NoResponse
        /\ overlay' = "none" /\ known' = known
    BY <1>0, <1>e, ServingAssumption DEF Unserved, Post, PresentationFor
  <2> QED BY <1>0, <1>e, <2>1, AnswerPlain DEF StaysPlain, Outcomes
<1>6. CASE Buffer(r)
  <2> DEFINE verdict == DecideResponse(q0.response, Entry(r), q0.response.file.body)
  <2>1. /\ q0.step = "judge" /\ q0.response \in Response
        /\ verdict # "BLOCK_TAMPER"
        /\ verdict = "NETWORK_FAIL" => q0.response.status = "other"
    BY <1>0, <1>6, <1>c, FirstIsServed DEF Buffer, Sound, Plain, Checked
  <2>2. Goto(r, "put") /\ Quiet => StaysPlain(r)
    BY <1>0, <1>a, <2>1, GotoPlain DEF Steps
  <2>3. Unserved(r, verdict) => StaysPlain(r)
    <3>1. Unserved(r, verdict) => verdict = "NETWORK_FAIL"
      BY <2>1 DEF Unserved
    <3> HIDE DEF verdict
    <3> QED BY <1>e, <2>1, <3>1
  <2> QED BY <1>6, <2>2, <2>3 DEF Buffer
<1>7. CASE ReadFails(r) \/ Cancel(r)
  BY <1>7, <1>b DEF ReadFails, Cancel
<1>8. CASE Put(r)
  <2>1. Answer(r, "verified", q0.response) /\ Quiet => StaysPlain(r)
    BY <1>0, <1>a, AnswerPlain DEF Outcomes
  <2> QED BY <1>8, <1>b, <2>1 DEF Put
<1>9. CASE StartStream(r)
  <2> DEFINE head == DecideHead(q0.response, Entry(r))
  <2>1. /\ q0.step = "judge" /\ q0.response \in Response
        /\ head # "BLOCK_TAMPER"
        /\ head = "NETWORK_FAIL" => q0.response.status = "other"
        /\ head = "SERVE_VERIFIED" => q0.response.status = "200"
    BY <1>0, <1>9, <1>c, FirstIsServed DEF StartStream, Sound, Plain, Checked
  <2>2. head = "SERVE_VERIFIED" /\ Goto(r, "stream") /\ Quiet => StaysPlain(r)
    <3>1. head = "SERVE_VERIFIED" => q0.response.file = First(q0.path)
      BY <1>0, <2>1 DEF Plain
    <3> QED BY <1>0, <1>a, <2>1, <3>1, GotoPlain DEF Steps
  <2>3. Unserved(r, head) => StaysPlain(r)
    <3>1. Unserved(r, head) => head = "NETWORK_FAIL"
      BY <2>1 DEF Unserved
    <3> HIDE DEF head
    <3> QED BY <1>e, <2>1, <3>1
  <2> QED BY <1>9, <1>b, <2>2, <2>3 DEF StartStream
<1>10. CASE Transform(r)
  <2>1. PICK q \in Request : q = q0
    BY <1>0
  <2>2. request' = [request EXCEPT ![r] = q] /\ Plain(q) /\ Quiet
    BY <1>0, <1>10, <2>1 DEF Transform, TypeOK
  <2> QED BY <1>a, <2>2
<1>11. CASE Flush(r)
  <2>1. /\ q0.step = "stream" /\ q0.response.file = First(q0.path)
        /\ Entry(r) = First(q0.path)
    BY <1>0, <1>11, <1>c DEF Flush, Plain, Checked
  <2>2. Digest(r) = Parts[Entry(r).body]
    <3>1. /\ Live(r) /\ q0.response \in Response /\ q0.response.file.body \in Bodies
          /\ Body(r) = Parts[Entry(r).body] /\ Body(r) \in Seq(Chunks)
          /\ Feeds(r, Body(r)) /\ fed[r] \in Seq(Chunks) /\ Digest(r) = fed[r]
      BY <1>0, <2>1, FilesHaveBodies, ServingAssumption
      DEF Sound, Response, Body, SInv, PoolInv, PoolTypeOK, DigestsAreOwn
    <3>2. Len(fed[r]) = Len(Body(r))
      BY <1>11 DEF Flush
    <3> QED BY <3>1, <3>2 DEF Feeds
  <2>3. Answer(r, "verified", q0.response) /\ Quiet
    BY <1>11, <2>2 DEF Flush
  <2> QED BY <1>0, <1>a, <2>3, AnswerPlain DEF Outcomes
<1> QED BY <1>1, <1>2, <1>3, <1>4, <1>5, <1>6, <1>7, <1>8, <1>9, <1>10, <1>11 DEF Handle


LEMMA StepSignsOn ==
    ASSUME SInv, [Next]_vars
    PROVE  signed \subseteq signed'
<1>1. Settled => signed' = signed
  BY SettledSound DEF SInv
<1>2. \A r \in Requests : Handle(r) => signed' = signed
  BY HandleSound DEF HandleStep
<1> QED BY <1>1, <1>2
        DEF Next, vars, Deploy, Refresh, FlightLands, FlightThrows, Restart,
            Environment!Restart, Status, FetchManifest, Upload, Corrupt, Evict, Wrapper, Ask

LEMMA CauseStays ==
    ASSUME SInv, SInv', [Next]_vars, Cause
    PROVE  Cause'
<1>1. incidents \subseteq incidents'
  BY SlotsStep
<1>2. signed \subseteq signed'
  BY StepSignsOn
<1>3. Latest > 1 => Latest' > 1
  BY <1>2 DEF SInv, SignedInOrder
<1> QED BY <1>1, <1>3 DEF Cause


\* A message without an alarm leaves the page as it is, or learns it the release.
LEMMA PostPlain ==
    ASSUME TypeOK, PlainWorld, NEW ui \in {"none", "notice", "retry"},
           NEW valid \in BOOLEAN, NEW n \in {NoManifest, 1}, Post(ui, valid, n)
    PROVE  overlay' = "none" /\ known' \in {NoManifest, 1}
  BY DEF Post, PlainWorld

LEMMA NextUncaused ==
    ASSUME SInv, SInv', Uncaused, [Next]_vars
    PROVE  Uncaused'
<1> SUFFICES ASSUME ~Cause' PROVE PlainWorld'
  BY DEF Uncaused
<1>0. /\ ~Cause /\ PlainWorld /\ signed = {1} /\ Latest = 1 /\ TypeOK
      /\ (signed = {1})' /\ request \in [Requests -> Request]
  <2>1. ~Cause
    BY CauseStays
  <2>2. (signed = {1})'
    BY DEF SInv, SignedInOrder, Cause
  <2> QED BY <2>1, <2>2, OnlyFirstSigned DEF Uncaused, SInv, TypeOK
<1>a. \A kind \in {"corrupt", "refused", "unlisted"} : ~Incident(kind)
  BY DEF Incident, Cause
<1>b. PresentationFor(memory.state) \in {"none", "notice", "retry"}
  BY <1>0 DEF PlainWorld, PresentationFor
<1>c. ASSUME NEW s \in {"VALID", "EXPIRED", "NETWORK_FAIL"}
      PROVE  PresentationFor(s) \in {"none", "notice", "retry"}
  BY DEF PresentationFor
<1>d. Settled => /\ memory'.state \in {"VALID", "EXPIRED", "NETWORK_FAIL"}
                 /\ overlay' = "none" /\ known' \in {NoManifest, 1}
  <2> SUFFICES ASSUME Settled
               PROVE  /\ memory'.state \in {"VALID", "EXPIRED", "NETWORK_FAIL"}
                      /\ overlay' = "none" /\ known' \in {NoManifest, 1}
    OBVIOUS
  <2>1. memory'.state \in {"VALID", "EXPIRED", "NETWORK_FAIL"}
    <3>1. Environment!Accept \/ Environment!Unreachable
      BY <1>a DEF Settled
    <3>2. CASE Environment!Accept
      BY <3>2 DEF Environment!Accept
    <3>3. CASE Environment!Unreachable
      BY <1>0, <3>3 DEF Environment!Unreachable, PlainWorld, TypeOK
    <3> QED BY <3>1, <3>2, <3>3
  <2>2. PICK ui \in {"none", "notice", "retry"}, valid \in BOOLEAN :
          Post(ui, valid, NoManifest)
    BY <1>a, <1>c, <2>1 DEF Settled
  <2> QED BY <1>0, <2>1, <2>2, PostPlain
<1>1. CASE Deploy
  BY <1>0, <1>1 DEF Deploy
<1>2. CASE Refresh
  BY <1>0, <1>2, <1>d DEF Refresh, PlainWorld, Plain
<1>3. CASE FlightLands
  <2>1. ASSUME NEW r \in Requests PROVE Plain(request[r])'
    BY <1>0, <1>3 DEF FlightLands, Waiting, At, PlainWorld, Plain, Request
  <2> QED BY <1>0, <1>3, <1>d, <2>1 DEF FlightLands, PlainWorld
<1>4. CASE FlightThrows \/ Restart
  <2>1. ASSUME NEW r \in Requests PROVE Plain(request[r])'
    <3>1. \/ request'[r] = request[r]
          \/ request'[r].step = "answered" /\ request'[r].outcome = "failed"
      <4>1. request[r] \in Request
        BY <1>0 DEF SInv, TypeOK
      <4>2. CASE FlightThrows
        BY <4>1, <4>2 DEF FlightThrows, Request
      <4>3. CASE Restart
        BY <4>1, <4>3 DEF Restart, Request
      <4> QED BY <1>4, <4>2, <4>3
    <3> QED BY <1>0, <3>1 DEF PlainWorld, Plain
  <2>2. memory'.state \in {"VALID", "EXPIRED", "NETWORK_FAIL"}
    <3>1. CASE FlightThrows
      BY <1>0, <3>1 DEF FlightThrows, PlainWorld
    <3>2. CASE Restart
      BY <3>2 DEF Restart, Environment!Restart, Environment!Cold
    <3> QED BY <1>4, <3>1, <3>2
  <2> QED BY <1>0, <1>4, <2>1, <2>2 DEF FlightThrows, Restart, Quiet, PlainWorld
<1>5. CASE Status
  <2>1. memory.manifest \in {NoManifest, 1}
    BY <1>0 DEF SInv, MemorySigned
  <2>2. overlay' = "none" /\ known' \in {NoManifest, 1}
    BY <1>0, <1>5, <1>b, <2>1, PostPlain DEF Status
  <2> QED BY <1>0, <1>5, <2>2 DEF Status, PlainWorld, Plain
<1>6. CASE FetchManifest
  BY <1>0, <1>6 DEF FetchManifest, PlainWorld, Plain
<1>7. ASSUME NEW p \in Paths, Upload(p) PROVE PlainWorld'
  <2>1. origin' = origin
    BY <1>0, <1>7 DEF Upload, PlainWorld, First, Listed
  <2> QED BY <1>0, <1>7, <2>1 DEF Upload, PlainWorld, Plain
<1>8. ASSUME NEW p \in Paths, NEW f \in Files, Corrupt(p, f) PROVE PlainWorld'
  BY <1>8, <1>a DEF Corrupt
<1>9. ASSUME NEW b \in Bodies, Evict(b) PROVE PlainWorld'
  BY <1>0, <1>9 DEF Evict, PlainWorld, Plain
<1>10. ASSUME NEW r \in Requests, Handle(r) PROVE PlainWorld'
  <2>1. PICK q \in Request : request' = [request EXCEPT ![r] = q] /\ Plain(q)
    BY <1>0, <1>10, HandlePlain DEF StaysPlain
  <2>2. \A h \in Requests : request'[h] \in {q, request[h]}
    BY <1>0, <2>1
  <2>3. overlay' = "none" /\ known' = known /\ UNCHANGED <<origin, memory>>
    BY <1>0, <1>10, HandlePlain, HandleSound DEF StaysPlain, HandleStep
  <2> QED BY <1>0, <2>1, <2>2, <2>3 DEF PlainWorld, Plain
<1>11. ASSUME NEW r \in Requests, Wrapper(r) PROVE PlainWorld'
  <2> DEFINE q0 == request[r]
  <2>1. /\ q0.step = "answered" /\ q0.outcome \in {"cached", "verified", "passed"}
        /\ q0.response.status = "200" /\ known = 1 /\ Listed(1, q0.path)
        /\ q0.response.file.body # First(q0.path).body
    BY <1>0, <1>11 DEF Wrapper, At, PlainWorld, First
  <2>2. CASE q0.outcome = "passed"
    BY <1>0, <2>1, <2>2 DEF PlainWorld, Plain
  <2>3. CASE q0.outcome \in {"cached", "verified"}
    BY <1>0, <2>1, <2>3 DEF SInv, RequestsSound, Sound, EntryOf, First
  <2> QED BY <2>1, <2>2, <2>3
<1>12. ASSUME NEW r \in Requests, NEW p \in Paths, Ask(r, p) PROVE PlainWorld'
  <2>1. PICK q : q = [IdleRequest EXCEPT !.step = "ready", !.path = p]
    OBVIOUS
  <2>2. q.step = "ready" /\ q.path = p
    BY <2>1, IdleTyped DEF Request
  <2>3. Plain(q)
    BY <1>12, <1>a, <2>2 DEF Ask, Plain
  <2>4. \A h \in Requests : request'[h] \in {q, request[h]}
    BY <1>0, <1>12, <2>1 DEF Ask
  <2>5. \A h \in Requests : Plain(request'[h])
    BY <1>0, <2>3, <2>4 DEF PlainWorld
  <2>6. UNCHANGED <<signed, origin, worker, page>>
    BY <1>12 DEF Ask, Quiet
  <2> QED BY <1>0, <2>5, <2>6 DEF PlainWorld, Plain
<1>13. CASE UNCHANGED vars
  BY <1>0, <1>13 DEF vars, PlainWorld, Plain
<1> QED BY <1>1, <1>2, <1>3, <1>4, <1>5, <1>6, <1>7, <1>8, <1>9, <1>10, <1>11,
           <1>12, <1>13 DEF Next

\* AlarmHasCause: as long as nothing was deployed, corrupted, refused or asked for
\* that nobody signed, every path through handle(), streamVerify() and the page,
\* with whatever fails on the way, ends without the word "tampered".
THEOREM NoAlarmWithoutCause == Spec => []AlarmHasCause
<1>1. Init => Uncaused
  BY IdleTyped DEF Init, Environment!Init, Environment!Cold, Uncaused, PlainWorld, First,
                   Plain, IdleRequest
<1>2. SInv /\ SInv' /\ Uncaused /\ [Next]_vars => Uncaused'
  BY NextUncaused
<1>3. Uncaused => AlarmHasCause
  BY DEF Uncaused, PlainWorld, Cause, AlarmHasCause
<1> QED BY <1>1, <1>2, <1>3, SoundInvariant, PTL DEF Spec

=============================================================================
