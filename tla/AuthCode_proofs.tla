---------------------------- MODULE AuthCode_proofs ----------------------------
(***************************************************************************)
(* Theorems about AuthCode, for any requests, codes, browsers, handlers and *)
(* faults. The properties speak of what was granted and completed; what     *)
(* makes them inductive is what each request in flight may rely on although *)
(* the row it holds is old: the redirects and logins that took place, which *)
(* are never undone, and who else holds a row of the same request.          *)
(***************************************************************************)
EXTENDS AuthCode, TLAPS

(* What took place *)

Started(q, c) == \E r \in begun : r.request = q /\ r.client = c
Redirected(q, s, b) ==
  \E r \in begun : r.request = q /\ r.source = s /\ r.browser = b
LoggedIn(q) == \E l \in logins : l.request = q
LoginBy(q, u) == \E l \in logins : l.request = q /\ l.user = u

TypeOK ==
  /\ authreq \in [Request -> RequestRow \cup {None}]
  /\ codes \in [Code -> Request \cup {None}]
  /\ pending \in [Flow -> PendingRow \cup {None}]
  /\ flowCookie \in [Browser -> FlowState \cup {None}]
  /\ binding \in [Browser -> Flow \cup {None}]
  /\ job \in [Handler -> Job]
  /\ begun \subseteq Redirection /\ logins \subseteq Login
  /\ granted \subseteq Grant /\ consumed \subseteq Flow

\* Redirects are to requests that exist, and always for the same client.
BegunOK ==
  /\ \A r \in begun : r.request \in minted
  /\ \A r1, r2 \in begun : r1.request = r2.request => r1.client = r2.client

\* A stored request is done exactly if a login has completed it.
StoreOK ==
  \A q \in Request : authreq[q] # None =>
    /\ q \in minted
    /\ \A r \in begun : r.request = q => r.client = authreq[q].client
    /\ LoggedIn(q) => authreq[q].user # None
    /\ authreq[q].user # None =>
         LoginBy(q, authreq[q].user) /\ Started(q, authreq[q].client)

CodesOK == \A c \in Code : codes[c] # None => LoggedIn(codes[c])

\* What a browser's cookies and pending logins promise.
CookiesOK ==
  /\ \A b \in Browser : flowCookie[b] # None =>
       Redirected(flowCookie[b].request, flowCookie[b].source, b)
  /\ \A f \in Flow : pending[f] # None =>
       /\ f \in minted
       /\ \A b \in Browser : binding[b] = f =>
            Redirected(pending[f].request, pending[f].source, b)
  /\ \A b \in Browser : binding[b] # None => binding[b] \in minted

\* What a request in flight may rely on.
JobOK(j) ==
  /\ j.pc \in {"consume", "load", "complete"} =>
       /\ Redirected(j.request, j.source, j.browser)
       /\ j.flow # None => j.flow \in minted
  /\ j.pc \in {"consume", "load"} => j.flow \in Flow /\ j.browser \in Browser
  /\ j.pc = "consume" =>
       pending[j.flow] = None \/ pending[j.flow].request = j.request
  /\ j.pc \in {"consume", "load", "complete", "saveCode", "readBack", "writeBack",
               "request", "dropRead", "dropCode", "dropRequest"} =>
       j.request \in Request
  /\ j.pc = "complete" =>
       /\ j.user \in Subject /\ j.source \in Source /\ j.browser \in Browser
       /\ j.row \in RequestRow /\ Started(j.request, j.row.client)
  /\ j.pc \in {"saveCode", "readBack", "writeBack"} => j.code \in Code
  /\ j.pc \in {"saveCode", "readBack", "request"} => LoggedIn(j.request)
  /\ j.pc = "writeBack" =>
       /\ j.row \in RequestRow /\ j.row.user # None
       /\ LoginBy(j.request, j.row.user) /\ Started(j.request, j.row.client)
  /\ j.pc = "request" => j.client \in Client
  /\ j.pc \in {"dropRead", "dropCode", "dropRequest"} =>
       /\ j.client \in Client /\ j.user \in Subject
       /\ Started(j.request, j.client) /\ LoginBy(j.request, j.user)
  /\ j.pc = "dropCode" => j.row \in RequestRow /\ j.row.code \in Code

Holds(j, q) ==
  j.request = q /\ j.pc \in {"complete", "writeBack", "dropRead", "dropCode",
                             "dropRequest"}

GrantsOK ==
  \A g \in granted : Started(g.request, g.client) /\ LoginBy(g.request, g.user)

\* After a token response the request is gone and nobody can bring it back,
\* unless a handler that held its row was seen when it was deleted.
Sealed ==
  /\ \A g \in granted : g.request \notin raced =>
       /\ authreq[g.request] = None
       /\ \A h \in Handler : ~Holds(job[h], g.request)
  /\ again \subseteq raced

Reads(j, f) == j.flow = f /\ j.pc = "consume"
Uses(j, f) == j.flow = f /\ j.pc \in {"load", "complete"}

\* After a pending login is used up one handler goes on with it, once.
FlowsSealed ==
  /\ \A f \in Flow : f \notin flowRaced =>
       /\ \A h \in Handler : Uses(job[h], f) =>
            /\ pending[f] = None /\ f \notin consumed
            /\ \A k \in Handler : ~Reads(job[k], f) /\ (Uses(job[k], f) => k = h)
       /\ f \in consumed =>
            /\ pending[f] = None
            /\ \A k \in Handler : ~Reads(job[k], f) /\ ~Uses(job[k], f)
  /\ reused \subseteq flowRaced
  /\ consumed \subseteq minted

Facts ==
  /\ BegunOK /\ StoreOK /\ CodesOK /\ CookiesOK /\ LoginBoundToBrowser /\ GrantsOK
  /\ \A h \in Handler : JobOK(job[h])

IInv == TypeOK /\ Facts /\ Sealed /\ FlowsSealed

-----------------------------------------------------------------------------
(* What a step does to these facts *)

Grow == begun \subseteq begun' /\ logins \subseteq logins' /\ minted \subseteq minted'

\* A pending login is written once, and then only deleted.
PendingKept ==
  \A f \in Flow : f \in minted => pending'[f] = pending[f] \/ pending'[f] = None

SafeJob(h) == job'[h] = job[h] \/ JobOK(job[h])'

\* Nobody comes to hold a row that is not there, or a pending login.
NoNewHolder(h) ==
  \A q \in Request : Holds(job[h], q)' => Holds(job[h], q) \/ authreq[q] # None
NoNewUser(h) ==
  \A f \in Flow : /\ Reads(job[h], f)' => Reads(job[h], f) \/ pending[f] # None
                  /\ Uses(job[h], f)' => Uses(job[h], f)

\* A request that is gone comes back only from a handler that holds its row.
NoRevival ==
  \A q \in Request : authreq[q] = None /\ authreq'[q] # None =>
    q \notin minted \/ \E h \in Handler : Holds(job[h], q)

\* Redirects and logins are never forgotten.
LEMMA Kept ==
  ASSUME Grow
  PROVE  /\ \A q, c : Started(q, c) => Started(q, c)'
         /\ \A q, s, b : Redirected(q, s, b) => Redirected(q, s, b)'
         /\ \A q : LoggedIn(q) => LoggedIn(q)'
         /\ \A q, u : LoginBy(q, u) => LoginBy(q, u)'
BY DEF Grow, Started, Redirected, LoggedIn, LoginBy

\* What a request relies on stays true when others move.
LEMMA JobsKept ==
  ASSUME IInv, Grow, PendingKept, \A h \in Handler : SafeJob(h)
  PROVE  (\A h \in Handler : JobOK(job[h]))'
<1>1. SUFFICES ASSUME NEW h \in Handler, job'[h] = job[h]
               PROVE  JobOK(job[h])'
  BY DEF SafeJob
<1>2. JobOK(job[h])
  BY DEF IInv, Facts
<1>3. job[h].pc = "consume" =>
        pending'[job[h].flow] = None \/ pending'[job[h].flow] = pending[job[h].flow]
  BY <1>2, ConstantsAssumption DEF JobOK, PendingKept
<1>4. minted \subseteq minted'
  BY DEF Grow
<1> QED
  BY <1>1, <1>2, <1>3, <1>4, Kept DEF JobOK

LEMMA SealedKept ==
  ASSUME IInv, NoRevival, \A h \in Handler : NoNewHolder(h),
         UNCHANGED <<granted, again, raced>>
  PROVE  Sealed'
<1>1. SUFFICES ASSUME NEW g \in granted, g.request \notin raced
               PROVE  /\ authreq'[g.request] = None
                      /\ \A h \in Handler : ~Holds(job[h], g.request)'
  BY DEF IInv, Sealed
<1>2. authreq[g.request] = None /\ \A h \in Handler : ~Holds(job[h], g.request)
  BY <1>1 DEF IInv, Sealed
<1>3. g.request \in Request
  BY <1>1 DEF IInv, TypeOK, Grant
<1>4. g.request \in minted
  BY <1>1 DEF IInv, Facts, GrantsOK, BegunOK, Started
<1> QED
  BY <1>2, <1>3, <1>4 DEF NoRevival, NoNewHolder

LEMMA FlowsKept ==
  ASSUME IInv, \A h \in Handler : NoNewUser(h), PendingKept,
         UNCHANGED flowVars, minted \subseteq minted'
  PROVE  FlowsSealed'
<1>1. SUFFICES ASSUME NEW f \in Flow, f \notin flowRaced
      PROVE  (/\ \A h \in Handler : Uses(job[h], f) =>
                   /\ pending[f] = None /\ f \notin consumed
                   /\ \A k \in Handler : ~Reads(job[k], f) /\ (Uses(job[k], f) => k = h)
              /\ f \in consumed =>
                   /\ pending[f] = None
                   /\ \A k \in Handler : ~Reads(job[k], f) /\ ~Uses(job[k], f))'
  BY DEF IInv, FlowsSealed, flowVars
<1>2. ASSUME pending[f] = None, f \in minted
      PROVE  pending'[f] = None /\ \A k \in Handler : Reads(job[k], f)' => Reads(job[k], f)
  BY <1>2 DEF PendingKept, NoNewUser
<1>3. \A h \in Handler : Uses(job[h], f) => f \in minted
  BY ConstantsAssumption DEF IInv, Facts, JobOK, Uses
<1>4. \A h \in Handler : Uses(job[h], f)' => Uses(job[h], f)
  BY DEF NoNewUser
<1>5. consumed' = consumed /\ consumed \subseteq minted
  BY DEF flowVars, IInv, FlowsSealed
<1>6. ASSUME NEW h \in Handler, Uses(job[h], f)'
      PROVE  (/\ pending[f] = None /\ f \notin consumed
              /\ \A k \in Handler : ~Reads(job[k], f) /\ (Uses(job[k], f) => k = h))'
  <2>1. Uses(job[h], f)
    BY <1>4, <1>6
  <2>2. /\ pending[f] = None /\ f \notin consumed
        /\ \A k \in Handler : ~Reads(job[k], f) /\ (Uses(job[k], f) => k = h)
    BY <1>1, <2>1 DEF IInv, FlowsSealed
  <2> QED
    BY <1>2, <1>3, <1>4, <1>5, <2>1, <2>2
<1>7. ASSUME f \in consumed'
      PROVE  (/\ pending[f] = None
              /\ \A k \in Handler : ~Reads(job[k], f) /\ ~Uses(job[k], f))'
  <2>1. /\ pending[f] = None
        /\ \A k \in Handler : ~Reads(job[k], f) /\ ~Uses(job[k], f)
    BY <1>1, <1>5, <1>7 DEF IInv, FlowsSealed
  <2> QED
    BY <1>2, <1>4, <1>5, <1>7, <2>1
<1> QED
  BY <1>6, <1>7

\* A request that ends relies on nothing.
LEMMA Finished ==
  ASSUME IInv, NEW h \in Handler, Finish(h)
  PROVE  /\ job' \in [Handler -> Job]
         /\ \A k \in Handler : SafeJob(k) /\ NoNewHolder(k) /\ NoNewUser(k)
<1>1. Idle \in Job /\ Idle.pc = "idle"
  BY DEF Idle, Job, PC
<1>2. job \in [Handler -> Job]
  BY DEF IInv, TypeOK
<1>3. job'[h] = Idle /\ \A k \in Handler \ {h} : job'[k] = job[k]
  BY <1>2 DEF Finish
<1>4. JobOK(job[h])'
  BY <1>1, <1>3 DEF JobOK
<1> QED
  BY <1>1, <1>2, <1>3, <1>4 DEF Finish, SafeJob, NoNewHolder, NoNewUser, Holds, Reads, Uses

\* One request moves, from what it was to j.
LEMMA Moved ==
  ASSUME IInv, NEW h \in Handler, NEW j \in Job, job' = [job EXCEPT ![h] = j]
  PROVE  job' \in [Handler -> Job] /\ job'[h] = j
         /\ \A k \in Handler : k # h => job'[k] = job[k]
BY DEF IInv, TypeOK

\* Steps that write no item.
Reading ==
  /\ UNCHANGED <<authreq, codes, pending, begun, logins, granted, again, raced>>
  /\ UNCHANGED flowVars
  /\ minted \subseteq minted'
  /\ flowCookie' \in [Browser -> FlowState \cup {None}]
  /\ binding' \in [Browser -> Flow \cup {None}]
  /\ \A b \in Browser : /\ flowCookie'[b] \in {flowCookie[b], None}
                        /\ binding'[b] \in {binding[b], None}

LEMMA ReadingOK ==
  ASSUME IInv, Reading, job' \in [Handler -> Job],
         \A h \in Handler : SafeJob(h) /\ NoNewHolder(h) /\ NoNewUser(h)
  PROVE  IInv'
<1>1. Grow /\ PendingKept /\ NoRevival
  BY DEF Reading, Grow, PendingKept, NoRevival
<1>2. TypeOK'
  BY DEF Reading, IInv, TypeOK, flowVars
<1>3. (BegunOK /\ StoreOK /\ CodesOK /\ LoginBoundToBrowser /\ GrantsOK)'
  BY DEF Reading, IInv, Facts, BegunOK, StoreOK, CodesOK, LoginBoundToBrowser, GrantsOK,
         Started, LoggedIn, LoginBy
<1>4. CookiesOK'
  BY ConstantsAssumption
     DEF Reading, IInv, TypeOK, Facts, CookiesOK, Redirected
<1>5. (\A h \in Handler : JobOK(job[h]))'
  BY <1>1, JobsKept
<1>6. Sealed' /\ FlowsSealed'
  BY <1>1, SealedKept, FlowsKept DEF Reading
<1> QED
  BY <1>2, <1>3, <1>4, <1>5, <1>6 DEF IInv, Facts

-----------------------------------------------------------------------------
(* Logins *)

LEMMA HandleCallbackOK ==
  ASSUME IInv, NEW h \in Handler, NEW b \in Browser, NEW q \in Request, NEW u \in Subject,
         HandleCallback(h, b, q, u)
  PROVE  IInv'
<1> DEFINE j == [Idle EXCEPT !.pc = "complete", !.request = q, !.row = authreq[q],
                             !.browser = b, !.source = CallbackSource(b, q), !.user = u]
<1>1. /\ flowCookie[b] # None /\ flowCookie[b].request = q /\ authreq[q] # None
      /\ job' = [job EXCEPT ![h] = j] /\ job[h].pc = "idle"
      /\ UNCHANGED <<store, browserVars, history>>
  BY DEF HandleCallback, CallbackAccepted, Begin
<1>2. authreq[q] \in RequestRow /\ CallbackSource(b, q) \in Source
  BY <1>1 DEF IInv, TypeOK, CallbackSource, FlowState
<1>3. j \in Job
  BY <1>2 DEF Idle, Job, PC
<1>4. job' \in [Handler -> Job] /\ job'[h] = j /\ \A k \in Handler : k # h => job'[k] = job[k]
  BY <1>1, <1>3, Moved
<1>5. Redirected(q, CallbackSource(b, q), b) /\ Started(q, authreq[q].client)
  BY <1>1, <1>2 DEF IInv, Facts, CookiesOK, StoreOK, CallbackSource, Redirected, Started
<1>6. JobOK(job[h])'
  BY <1>1, <1>2, <1>4, <1>5 DEF JobOK, Idle, history, Redirected, Started
<1>7. \A k \in Handler : SafeJob(k) /\ NoNewHolder(k) /\ NoNewUser(k)
  BY <1>1, <1>4, <1>6, ConstantsAssumption
     DEF SafeJob, NoNewHolder, NoNewUser, Holds, Reads, Uses, Idle
<1> QED
  BY <1>1, <1>4, <1>7, ReadingOK
     DEF Reading, store, browserVars, history, flowVars, IInv, TypeOK

LEMMA HandleLoginCompleteOK ==
  ASSUME IInv, NEW h \in Handler, NEW b \in Browser, NEW f \in Flow, NEW s \in Source,
         NEW u \in Subject, HandleLoginComplete(h, b, f, s, u)
  PROVE  IInv'
<1> DEFINE v == IF s = pending[f].source THEN u ELSE None
           j == [Idle EXCEPT !.pc = "consume", !.request = pending[f].request, !.flow = f,
                             !.browser = b, !.source = pending[f].source, !.user = v]
<1>1. /\ binding[b] = f /\ pending[f] # None
      /\ job' = [job EXCEPT ![h] = j] /\ job[h].pc = "idle"
      /\ UNCHANGED <<store, browserVars, history>>
  BY DEF HandleLoginComplete, Bound, Begin
<1>2. pending[f] \in PendingRow /\ pending[f].request \in Request
      /\ pending[f].source \in Source
  BY <1>1 DEF IInv, TypeOK, PendingRow
<1>3. j \in Job
  BY <1>2 DEF Idle, Job, PC
<1>4. job' \in [Handler -> Job] /\ job'[h] = j /\ \A k \in Handler : k # h => job'[k] = job[k]
  BY <1>1, <1>3, Moved
<1>5. Redirected(pending[f].request, pending[f].source, b) /\ f \in minted
  BY <1>1 DEF IInv, Facts, CookiesOK
<1>6. JobOK(job[h])'
  BY <1>1, <1>2, <1>4, <1>5 DEF JobOK, Idle, history, store, Redirected
<1>7. \A k \in Handler : SafeJob(k) /\ NoNewHolder(k) /\ NoNewUser(k)
  BY <1>1, <1>4, <1>6, ConstantsAssumption
     DEF SafeJob, NoNewHolder, NoNewUser, Holds, Reads, Uses, Idle
<1> QED
  BY <1>1, <1>4, <1>7, ReadingOK
     DEF Reading, store, browserVars, history, flowVars, IInv, TypeOK

LEMMA LoadRequestOK ==
  ASSUME IInv, NEW h \in Handler, LoadRequest(h)
  PROVE  IInv'
<1>1. JobOK(job[h]) /\ job[h] \in Job /\ job[h].pc = "load" /\ job[h].browser \in Browser
      /\ job[h].request \in Request
  BY DEF IInv, TypeOK, Facts, LoadRequest, JobOK
<1>2. CASE job[h].user = None \/ authreq[job[h].request] = None
  <2>1. Finish(h) /\ binding' = [binding EXCEPT ![job[h].browser] = None]
        /\ UNCHANGED <<store, flowCookie, history>>
    BY <1>2 DEF LoadRequest
  <2>2. Reading
    BY <1>1, <2>1 DEF Reading, store, history, flowVars, IInv, TypeOK
  <2> QED
    BY <2>1, <2>2, Finished, ReadingOK
<1>3. CASE ~(job[h].user = None \/ authreq[job[h].request] = None)
  <2> DEFINE j == [job[h] EXCEPT !.pc = "complete", !.row = authreq[job[h].request]]
  <2>1. /\ job' = [job EXCEPT ![h].pc = "complete", ![h].row = authreq[job[h].request]]
        /\ UNCHANGED <<store, browserVars, history>>
    BY <1>3 DEF LoadRequest, browserVars
  <2>2. authreq[job[h].request] \in RequestRow
    BY <1>1, <1>3 DEF IInv, TypeOK
  <2>3. j \in Job /\ job' = [job EXCEPT ![h] = j]
    BY <1>1, <2>1, <2>2 DEF Job, PC, IInv, TypeOK
  <2>4. job' \in [Handler -> Job] /\ job'[h] = j /\ \A k \in Handler : k # h => job'[k] = job[k]
    BY <2>3, Moved
  <2>5. /\ j.pc = "complete" /\ j.row = authreq[job[h].request] /\ j.request = job[h].request
        /\ j.user = job[h].user /\ j.flow = job[h].flow /\ j.source = job[h].source
        /\ j.browser = job[h].browser
    BY <1>1 DEF Job
  <2>6. Redirected(job[h].request, job[h].source, job[h].browser)
        /\ (job[h].flow # None => job[h].flow \in minted)
    BY <1>1 DEF JobOK
  <2>7. Started(job[h].request, authreq[job[h].request].client) /\ job[h].source \in Source
        /\ job[h].user \in Subject
    BY <1>1, <1>3, <2>6 DEF IInv, TypeOK, Facts, StoreOK, Redirected, Started, Redirection, Job
  <2>8. JobOK(job[h])'
    BY <1>1, <2>1, <2>2, <2>4, <2>5, <2>6, <2>7 DEF JobOK, history, Redirected, Started
  <2> HIDE DEF j
  <2>9. SafeJob(h) /\ NoNewHolder(h) /\ NoNewUser(h)
    BY <1>1, <1>3, <2>4, <2>5, <2>8 DEF SafeJob, NoNewHolder, NoNewUser, Holds, Reads, Uses
  <2>10. \A k \in Handler : SafeJob(k) /\ NoNewHolder(k) /\ NoNewUser(k)
    BY <2>4, <2>9 DEF SafeJob, NoNewHolder, NoNewUser, Holds, Reads, Uses
  <2> QED
    BY <2>1, <2>4, <2>10, ReadingOK
       DEF Reading, store, browserVars, history, flowVars, IInv, TypeOK
<1> QED
  BY <1>2, <1>3

-----------------------------------------------------------------------------
(* Codes and their exchange: the steps that only read *)

LEMMA AuthorizeCallbackOK ==
  ASSUME IInv, NEW h \in Handler, NEW q \in Request, NEW c \in Code,
         AuthorizeCallback(h, q, c)
  PROVE  IInv'
<1> DEFINE j == [Idle EXCEPT !.pc = "saveCode", !.request = q, !.code = c]
<1>1. /\ authreq[q] # None /\ authreq[q].user # None /\ minted \subseteq minted'
      /\ job' = [job EXCEPT ![h] = j]
      /\ UNCHANGED <<store, browserVars, begun, logins, granted, again, raced, flowVars>>
  BY DEF AuthorizeCallback, Completed, Begin
<1>2. j \in Job
  BY DEF Idle, Job, PC
<1>3. job' \in [Handler -> Job] /\ job'[h] = j /\ \A k \in Handler : k # h => job'[k] = job[k]
  BY <1>1, <1>2, Moved
<1>4. LoggedIn(q)
  BY <1>1 DEF IInv, Facts, StoreOK, LoginBy, LoggedIn
<1>5. JobOK(job[h])'
  BY <1>1, <1>3, <1>4 DEF JobOK, Idle, LoggedIn
<1>6. \A k \in Handler : SafeJob(k) /\ NoNewHolder(k) /\ NoNewUser(k)
  BY <1>3, <1>5 DEF SafeJob, NoNewHolder, NoNewUser, Holds, Reads, Uses, Idle
<1> QED
  BY <1>1, <1>3, <1>6, ReadingOK
     DEF Reading, store, browserVars, flowVars, IInv, TypeOK

LEMMA ReadBackOK ==
  ASSUME IInv, NEW h \in Handler, ReadBack(h)
  PROVE  IInv'
<1>1. /\ JobOK(job[h]) /\ job[h] \in Job /\ job[h].pc = "readBack"
      /\ job[h].request \in Request /\ job[h].code \in Code /\ LoggedIn(job[h].request)
  BY DEF IInv, TypeOK, Facts, ReadBack, JobOK
<1>2. Reading
  BY DEF ReadBack, Reading, store, browserVars, flowVars, IInv, TypeOK
<1>3. CASE Finish(h)
  BY <1>2, <1>3, Finished, ReadingOK
<1>4. CASE /\ authreq[job[h].request] # None
           /\ job' = [job EXCEPT ![h].pc = "writeBack", ![h].row = authreq[job[h].request]]
  <2> DEFINE j == [job[h] EXCEPT !.pc = "writeBack", !.row = authreq[job[h].request]]
  <2>1. authreq[job[h].request] \in RequestRow
    BY <1>1, <1>4 DEF IInv, TypeOK
  <2>2. j \in Job /\ job' = [job EXCEPT ![h] = j]
    BY <1>1, <1>4, <2>1 DEF Job, PC, IInv, TypeOK
  <2>3. job' \in [Handler -> Job] /\ job'[h] = j /\ \A k \in Handler : k # h => job'[k] = job[k]
    BY <2>2, Moved
  <2>4. /\ j.pc = "writeBack" /\ j.row = authreq[job[h].request]
        /\ j.request = job[h].request /\ j.code = job[h].code
    BY <1>1 DEF Job
  <2> HIDE DEF j
  <2>5. /\ authreq[job[h].request].user # None
        /\ LoginBy(job[h].request, authreq[job[h].request].user)
        /\ Started(job[h].request, authreq[job[h].request].client)
    BY <1>1, <1>4 DEF IInv, Facts, StoreOK
  <2>6. JobOK(job[h])'
    BY <1>1, <1>2, <2>1, <2>3, <2>4, <2>5 DEF JobOK, Reading, LoginBy, Started
  <2>7. SafeJob(h) /\ NoNewHolder(h) /\ NoNewUser(h)
    BY <1>1, <1>4, <2>3, <2>4, <2>6 DEF SafeJob, NoNewHolder, NoNewUser, Holds, Reads, Uses
  <2>8. \A k \in Handler : SafeJob(k) /\ NoNewHolder(k) /\ NoNewUser(k)
    BY <2>3, <2>7 DEF SafeJob, NoNewHolder, NoNewUser, Holds, Reads, Uses
  <2> QED
    BY <1>2, <2>3, <2>8, ReadingOK
<1> QED
  BY <1>3, <1>4 DEF ReadBack

LEMMA StartExchangeOK ==
  ASSUME IInv, NEW h \in Handler, NEW client \in Client, NEW c \in Code,
         StartExchange(h, client, c)
  PROVE  IInv'
<1> DEFINE j == [Idle EXCEPT !.pc = "request", !.request = codes[c], !.code = c,
                             !.client = client]
<1>1. /\ codes[c] # None /\ job' = [job EXCEPT ![h] = j]
      /\ UNCHANGED <<store, browserVars, history>>
  BY DEF StartExchange, Begin
<1>2. codes[c] \in Request /\ LoggedIn(codes[c])
  BY <1>1 DEF IInv, TypeOK, Facts, CodesOK
<1>3. j \in Job
  BY <1>2 DEF Idle, Job, PC
<1>4. job' \in [Handler -> Job] /\ job'[h] = j /\ \A k \in Handler : k # h => job'[k] = job[k]
  BY <1>1, <1>3, Moved
<1>5. JobOK(job[h])'
  BY <1>1, <1>2, <1>4 DEF JobOK, Idle, LoggedIn, history
<1>6. \A k \in Handler : SafeJob(k) /\ NoNewHolder(k) /\ NoNewUser(k)
  BY <1>4, <1>5 DEF SafeJob, NoNewHolder, NoNewUser, Holds, Reads, Uses, Idle
<1> QED
  BY <1>1, <1>4, <1>6, ReadingOK
     DEF Reading, store, browserVars, history, flowVars, IInv, TypeOK

LEMMA ReadRequestOK ==
  ASSUME IInv, NEW h \in Handler, ReadRequest(h)
  PROVE  IInv'
<1> DEFINE q == job[h].request
           row == authreq[q]
           j == [job[h] EXCEPT !.pc = "dropRead", !.user = row.user]
<1>1. /\ JobOK(job[h]) /\ job[h] \in Job /\ job[h].pc = "request"
      /\ q \in Request /\ job[h].client \in Client /\ LoggedIn(q)
  BY DEF IInv, TypeOK, Facts, ReadRequest, JobOK
<1>2. Reading /\ UNCHANGED history
  BY DEF ReadRequest, Reading, store, browserVars, history, flowVars, IInv, TypeOK
<1>3. CASE Finish(h)
  BY <1>2, <1>3, Finished, ReadingOK
<1>4. CASE /\ row # None /\ row.client = job[h].client
           /\ job' = [job EXCEPT ![h].pc = "dropRead", ![h].user = row.user]
  <2>1. row \in RequestRow /\ row.user # None /\ LoginBy(q, row.user) /\ Started(q, row.client)
    BY <1>1, <1>4 DEF IInv, TypeOK, Facts, StoreOK
  <2>2. row.user \in Subject
    BY <2>1 DEF RequestRow
  <2>3. j \in Job /\ job' = [job EXCEPT ![h] = j]
    BY <1>1, <1>4, <2>2 DEF Job, PC, IInv, TypeOK
  <2>4. job' \in [Handler -> Job] /\ job'[h] = j /\ \A k \in Handler : k # h => job'[k] = job[k]
    BY <2>3, Moved
  <2>5. /\ j.pc = "dropRead" /\ j.user = row.user /\ j.request = q
        /\ j.client = row.client
    BY <1>1, <1>4 DEF Job
  <2> HIDE DEF j
  <2>6. JobOK(job[h])'
    BY <1>1, <1>2, <1>4, <2>1, <2>2, <2>4, <2>5 DEF JobOK, history, LoginBy, Started
  <2>7. SafeJob(h) /\ NoNewHolder(h) /\ NoNewUser(h)
    BY <1>1, <1>4, <2>4, <2>5, <2>6 DEF SafeJob, NoNewHolder, NoNewUser, Holds, Reads, Uses
  <2>8. \A k \in Handler : SafeJob(k) /\ NoNewHolder(k) /\ NoNewUser(k)
    BY <2>4, <2>7 DEF SafeJob, NoNewHolder, NoNewUser, Holds, Reads, Uses
  <2> QED
    BY <1>2, <2>4, <2>8, ReadingOK
<1> QED
  BY <1>3, <1>4 DEF ReadRequest, SameClient

LEMMA DropReadOK ==
  ASSUME IInv, NEW h \in Handler, DropRead(h)
  PROVE  IInv'
<1> DEFINE q == job[h].request
           row == authreq[q]
           j == IF row # None /\ row.code # None
                THEN [job[h] EXCEPT !.pc = "dropCode", !.row = row]
                ELSE [job[h] EXCEPT !.pc = "dropRequest"]
<1>1. /\ JobOK(job[h]) /\ job[h] \in Job /\ job[h].pc = "dropRead"
      /\ q \in Request /\ job[h].client \in Client /\ job[h].user \in Subject
      /\ Started(q, job[h].client) /\ LoginBy(q, job[h].user)
  BY DEF IInv, TypeOK, Facts, DropRead, JobOK
<1>2. Reading /\ UNCHANGED history
  BY DEF DropRead, Reading, store, browserVars, history, flowVars, IInv, TypeOK
<1>3. row # None => row \in RequestRow
  BY <1>1 DEF IInv, TypeOK
<1>4. j \in Job
  BY <1>1, <1>3 DEF Job, PC
<1>5. job' = [job EXCEPT ![h] = j]
  BY <1>1 DEF DropRead, IInv, TypeOK
<1>6. job' \in [Handler -> Job] /\ job'[h] = j /\ \A k \in Handler : k # h => job'[k] = job[k]
  BY <1>4, <1>5, Moved
<1>7. /\ j.pc \in {"dropCode", "dropRequest"} /\ j.user = job[h].user /\ j.request = q
      /\ j.client = job[h].client
      /\ j.pc = "dropCode" => j.row \in RequestRow /\ j.row.code \in Code
  BY <1>1, <1>3 DEF Job, RequestRow
<1> HIDE DEF j
<1>8. JobOK(job[h])'
  BY <1>1, <1>2, <1>6, <1>7 DEF JobOK, history, LoginBy, Started
<1>9. SafeJob(h) /\ NoNewHolder(h) /\ NoNewUser(h)
  BY <1>1, <1>6, <1>7, <1>8 DEF SafeJob, NoNewHolder, NoNewUser, Holds, Reads, Uses
<1>10. \A k \in Handler : SafeJob(k) /\ NoNewHolder(k) /\ NoNewUser(k)
  BY <1>6, <1>9 DEF SafeJob, NoNewHolder, NoNewUser, Holds, Reads, Uses
<1> QED
  BY <1>2, <1>6, <1>10, ReadingOK

\* Pass, DropCookies and a step of anything else leave the requests in flight alone.
LEMMA CalmOK ==
  ASSUME IInv, Reading, UNCHANGED job
  PROVE  IInv'
<1>1. \A k \in Handler : SafeJob(k) /\ NoNewHolder(k) /\ NoNewUser(k)
  BY DEF SafeJob, NoNewHolder, NoNewUser, Holds, Reads, Uses
<1> QED
  BY <1>1, ReadingOK DEF IInv, TypeOK

LEMMA QuietOK ==
  ASSUME IInv,
         \/ \E h \in Handler : Crash(h)
         \/ \E f \in Flow : Pass(f)
         \/ \E b \in Browser : DropCookies(b)
         \/ UNCHANGED vars
  PROVE  IInv'
<1>1. ASSUME NEW h \in Handler, Crash(h) PROVE IInv'
  <2>1. Reading
    BY <1>1 DEF Crash, Reading, store, browserVars, history, flowVars, IInv, TypeOK
  <2> QED
    BY <1>1, <2>1, Finished, ReadingOK DEF Crash
<1>2. ASSUME NEW f \in Flow, Pass(f) PROVE IInv'
  BY <1>2, CalmOK
     DEF Pass, Reading, browserVars, history, flowVars, IInv, TypeOK
<1>3. ASSUME NEW b \in Browser, DropCookies(b) PROVE IInv'
  BY <1>3, CalmOK
     DEF DropCookies, Reading, store, history, flowVars, IInv, TypeOK
<1>4. ASSUME UNCHANGED vars PROVE IInv'
  BY <1>4, CalmOK DEF vars, Reading, flowVars, IInv, TypeOK
<1> QED
  BY <1>1, <1>2, <1>3, <1>4

-----------------------------------------------------------------------------
(* The steps that write *)

LEMMA FactsKept ==
  ASSUME IInv, Grow, PendingKept, UNCHANGED granted, \A h \in Handler : SafeJob(h),
         (BegunOK /\ StoreOK /\ CodesOK /\ CookiesOK /\ LoginBoundToBrowser)'
  PROVE  Facts'
<1>1. GrantsOK'
  BY Kept DEF IInv, Facts, GrantsOK
<1>2. (\A h \in Handler : JobOK(job[h]))'
  BY JobsKept
<1> QED
  BY <1>1, <1>2 DEF Facts

LEMMA WritingOK ==
  ASSUME IInv, Grow, PendingKept, NoRevival, UNCHANGED <<granted, again, raced>>,
         UNCHANGED flowVars,
         \A h \in Handler : SafeJob(h) /\ NoNewHolder(h) /\ NoNewUser(h),
         (TypeOK /\ BegunOK /\ StoreOK /\ CodesOK /\ CookiesOK /\ LoginBoundToBrowser)'
  PROVE  IInv'
<1>1. Facts'
  BY FactsKept
<1>2. Sealed' /\ FlowsSealed'
  BY SealedKept, FlowsKept DEF Grow
<1> QED
  BY <1>1, <1>2 DEF IInv

\* An unchanged handler may rely on what it relied on.
LEMMA Still ==
  ASSUME UNCHANGED job
  PROVE  \A k \in Handler : SafeJob(k) /\ (NoNewHolder(k) /\ NoNewUser(k))
BY DEF SafeJob, NoNewHolder, NoNewUser, Holds, Reads, Uses

\* A login is for a request some browser was redirected for.
LEMMA LoginsMinted ==
  ASSUME IInv
  PROVE  /\ \A q : LoggedIn(q) => q \in minted
         /\ \A q, c : Started(q, c) => q \in minted
         /\ \A q, s, b : Redirected(q, s, b) => q \in minted
BY DEF IInv, Facts, BegunOK, LoginBoundToBrowser, LoggedIn, Started, Redirected

LEMMA CreateAuthRequestOK ==
  ASSUME IInv, NEW q \in Request, NEW c \in Client, CreateAuthRequest(q, c)
  PROVE  IInv'
<1> DEFINE row == [client |-> c, user |-> None, code |-> None]
<1>1. /\ q \notin minted /\ minted' = minted \cup {q}
      /\ authreq' = [authreq EXCEPT ![q] = row]
      /\ UNCHANGED <<codes, pending, flowCookie, binding, job, begun, logins,
                     granted, again, raced, flowVars>>
  BY DEF CreateAuthRequest
<1>2. row \in RequestRow /\ row.client = c /\ row.user = None
  BY DEF RequestRow
<1> HIDE DEF row
<1>3. TypeOK /\ TypeOK'
  BY <1>1, <1>2 DEF IInv, TypeOK, flowVars
<1>4. Grow /\ PendingKept /\ NoRevival
  BY <1>1, <1>3 DEF Grow, PendingKept, NoRevival, TypeOK
<1>5. (\A r \in begun : r.request # q) /\ ~LoggedIn(q)
  BY <1>1, LoginsMinted DEF IInv, Facts, BegunOK
<1>6. StoreOK'
  <2>1. SUFFICES ASSUME NEW p \in Request, authreq'[p] # None
        PROVE  /\ p \in minted'
               /\ \A r \in begun : r.request = p => r.client = authreq'[p].client
               /\ LoggedIn(p) => authreq'[p].user # None
               /\ authreq'[p].user # None =>
                    LoginBy(p, authreq'[p].user) /\ Started(p, authreq'[p].client)
    BY <1>1 DEF StoreOK, LoggedIn, LoginBy, Started
  <2>2. CASE p = q
    BY <1>1, <1>2, <1>3, <1>5, <2>2 DEF TypeOK
  <2>3. CASE p # q
    BY <1>1, <1>3, <2>1, <2>3 DEF TypeOK, IInv, Facts, StoreOK
  <2> QED
    BY <2>2, <2>3
<1>7. (BegunOK /\ CodesOK /\ CookiesOK /\ LoginBoundToBrowser)'
  BY <1>1 DEF IInv, Facts, BegunOK, CodesOK, CookiesOK, LoginBoundToBrowser, LoggedIn,
              Redirected
<1> QED
  BY <1>1, <1>3, <1>4, <1>6, <1>7, Still, WritingOK

LEMMA HandleLoginOK ==
  ASSUME IInv, NEW q \in Request, NEW b \in Browser, NEW s \in Source,
         HandleLogin(q, b, s)
  PROVE  IInv'
<1> DEFINE new == [request |-> q, client |-> authreq[q].client, source |-> s, browser |-> b]
<1>1. /\ authreq[q] # None /\ begun' = begun \cup {new}
      /\ flowCookie' = [flowCookie EXCEPT ![b] = [request |-> q, source |-> s]]
      /\ UNCHANGED <<store, binding, job, minted, logins, granted, again, raced, flowVars>>
  BY DEF HandleLogin, Record
<1>2. authreq[q] \in RequestRow /\ q \in minted
      /\ \A r \in begun : r.request = q => r.client = authreq[q].client
  BY <1>1 DEF IInv, TypeOK, Facts, StoreOK
<1>3. new \in Redirection /\ [request |-> q, source |-> s] \in FlowState
  BY <1>2 DEF Redirection, FlowState, RequestRow
<1>4. /\ new.request = q /\ new.client = authreq[q].client /\ new.source = s
      /\ new.browser = b
  OBVIOUS
<1> HIDE DEF new
<1>5. TypeOK'
  BY <1>1, <1>3 DEF IInv, TypeOK, store, flowVars
<1>6. Grow /\ PendingKept /\ NoRevival
  BY <1>1 DEF Grow, PendingKept, NoRevival, store
<1>7. (BegunOK /\ StoreOK)'
  BY <1>1, <1>2, <1>4, <1>6, Kept
     DEF IInv, Facts, BegunOK, StoreOK, store, LoggedIn, LoginBy
<1>8. Redirected(q, s, b)'
  BY <1>1, <1>4 DEF Redirected
<1>9. CookiesOK'
  BY <1>1, <1>6, <1>8, Kept DEF IInv, TypeOK, Facts, CookiesOK, store
<1>10. (CodesOK /\ LoginBoundToBrowser)'
  BY <1>1 DEF IInv, Facts, CodesOK, LoginBoundToBrowser, LoggedIn, store
<1> QED
  BY <1>1, <1>5, <1>6, <1>7, <1>9, <1>10, Still, WritingOK

LEMMA HandleCustomLoginOK ==
  ASSUME IInv, NEW q \in Request, NEW b \in Browser, NEW f \in Flow, NEW s \in Source,
         HandleCustomLogin(q, b, f, s)
  PROVE  IInv'
<1> DEFINE new == [request |-> q, client |-> authreq[q].client, source |-> s, browser |-> b]
           login == [request |-> q, source |-> s]
<1>1. /\ authreq[q] # None /\ f \notin minted /\ minted' = minted \cup {f}
      /\ pending' = [pending EXCEPT ![f] = login]
      /\ \/ binding' = [binding EXCEPT ![b] = f] /\ begun' = begun \cup {new}
         \/ UNCHANGED <<binding, begun>>
      /\ UNCHANGED <<authreq, codes, flowCookie, job, logins, granted, again, raced, flowVars>>
  BY DEF HandleCustomLogin, Record
<1>2. authreq[q] \in RequestRow /\ q \in minted
      /\ \A r \in begun : r.request = q => r.client = authreq[q].client
  BY <1>1 DEF IInv, TypeOK, Facts, StoreOK
<1>3. new \in Redirection /\ login \in PendingRow
  BY <1>2 DEF Redirection, PendingRow, RequestRow
<1>4. /\ new.request = q /\ new.client = authreq[q].client /\ new.source = s
      /\ new.browser = b /\ login.request = q /\ login.source = s
  OBVIOUS
<1> HIDE DEF new, login
<1>5. TypeOK /\ TypeOK'
  BY <1>1, <1>3 DEF IInv, TypeOK, flowVars
<1>6. Grow /\ PendingKept /\ NoRevival
  BY <1>1, <1>5 DEF Grow, PendingKept, NoRevival, TypeOK
<1>7. (BegunOK /\ StoreOK)'
  BY <1>1, <1>2, <1>4, <1>6, Kept
     DEF IInv, Facts, BegunOK, StoreOK, LoggedIn, LoginBy
<1>8. f # None /\ \A b2 \in Browser : binding[b2] # f
  BY <1>1, ConstantsAssumption DEF IInv, Facts, CookiesOK
<1>9. CookiesOK'
  <2>1. \A b2 \in Browser : flowCookie'[b2] # None =>
          Redirected(flowCookie[b2].request, flowCookie[b2].source, b2)'
    BY <1>1, <1>6, Kept DEF IInv, Facts, CookiesOK
  <2>2. \A b2 \in Browser : binding'[b2] = f => b2 = b /\ Redirected(q, s, b)'
    BY <1>1, <1>4, <1>5, <1>8 DEF TypeOK, Redirected
  <2>3. \A b2 \in Browser : binding'[b2] # f => binding'[b2] = binding[b2]
    BY <1>1, <1>5 DEF TypeOK
  <2>4. ASSUME NEW g \in Flow, pending'[g] # None
        PROVE  /\ g \in minted'
               /\ \A b2 \in Browser : binding'[b2] = g =>
                    Redirected(pending[g].request, pending[g].source, b2)'
    <3>1. CASE g = f
      BY <1>1, <1>4, <1>5, <2>2, <3>1 DEF TypeOK
    <3>2. CASE g # f
      <4>1. pending'[g] = pending[g]
        BY <1>1, <1>5, <3>2 DEF TypeOK
      <4> QED
        BY <1>1, <1>6, <2>3, <2>4, <3>2, <4>1, Kept DEF IInv, Facts, CookiesOK
    <3> QED
      BY <3>1, <3>2
  <2>5. \A b2 \in Browser : binding'[b2] # None => binding'[b2] \in minted'
    BY <1>1, <2>3 DEF IInv, Facts, CookiesOK
  <2> QED
    BY <2>1, <2>4, <2>5 DEF CookiesOK
<1>10. CodesOK'
  BY <1>1 DEF IInv, Facts, CodesOK, LoggedIn
<1>11. LoginBoundToBrowser'
  BY <1>1 DEF IInv, Facts, LoginBoundToBrowser
<1> QED
  BY <1>1, <1>5, <1>6, <1>7, <1>9, <1>10, <1>11, Still, WritingOK

LEMMA SaveCodeOK ==
  ASSUME IInv, NEW h \in Handler, SaveCode(h)
  PROVE  IInv'
<1> DEFINE j == [job[h] EXCEPT !.pc = "readBack"]
<1>1. /\ JobOK(job[h]) /\ job[h] \in Job /\ job[h].pc = "saveCode"
      /\ job[h].request \in Request /\ job[h].code \in Code /\ LoggedIn(job[h].request)
      /\ UNCHANGED <<authreq, pending, overdue, browserVars, history>>
  BY DEF IInv, TypeOK, Facts, SaveCode, JobOK
<1>2. CASE Finish(h) /\ UNCHANGED codes
  <2>1. Reading
    BY <1>1, <1>2 DEF Reading, browserVars, history, flowVars, IInv, TypeOK
  <2> QED
    BY <1>2, <2>1, Finished, ReadingOK
<1>3. CASE codes' = [codes EXCEPT ![job[h].code] = job[h].request] /\ Goto(h, "readBack")
  <2>1. j \in Job /\ job' = [job EXCEPT ![h] = j]
    BY <1>1, <1>3 DEF Goto, Job, PC, IInv, TypeOK
  <2>2. job' \in [Handler -> Job] /\ job'[h] = j /\ \A k \in Handler : k # h => job'[k] = job[k]
    BY <2>1, Moved
  <2>3. j.pc = "readBack" /\ j.request = job[h].request /\ j.code = job[h].code
    BY <1>1 DEF Job
  <2> HIDE DEF j
  <2>4. JobOK(job[h])'
    BY <1>1, <2>2, <2>3 DEF JobOK, history, LoggedIn
  <2>5. SafeJob(h) /\ NoNewHolder(h) /\ NoNewUser(h)
    BY <2>2, <2>3, <2>4 DEF SafeJob, NoNewHolder, NoNewUser, Holds, Reads, Uses
  <2>6. \A k \in Handler : SafeJob(k) /\ (NoNewHolder(k) /\ NoNewUser(k))
    BY <2>2, <2>5 DEF SafeJob, NoNewHolder, NoNewUser, Holds, Reads, Uses
  <2>7. Grow /\ PendingKept /\ NoRevival
    BY <1>1 DEF Grow, PendingKept, NoRevival, history
  <2>8. TypeOK /\ TypeOK'
    BY <1>1, <1>3, <2>2 DEF IInv, TypeOK, browserVars, history
  <2>9. CodesOK'
    BY <1>1, <1>3, <2>8 DEF TypeOK, IInv, Facts, CodesOK, LoggedIn, history
  <2>10. (BegunOK /\ StoreOK /\ CookiesOK /\ LoginBoundToBrowser)'
    BY <1>1 DEF IInv, Facts, BegunOK, StoreOK, CookiesOK, LoginBoundToBrowser, LoggedIn,
                LoginBy, Started, Redirected, browserVars, history
  <2> QED
    BY <1>1, <2>6, <2>7, <2>8, <2>9, <2>10, WritingOK DEF history, flowVars
<1> QED
  BY <1>2, <1>3 DEF SaveCode

LEMMA DropCodeOK ==
  ASSUME IInv, NEW h \in Handler, DropCode(h)
  PROVE  IInv'
<1> DEFINE j == [job[h] EXCEPT !.pc = "dropRequest"]
<1>1. /\ JobOK(job[h]) /\ job[h] \in Job /\ job[h].pc = "dropCode"
      /\ job[h].row.code \in Code /\ Goto(h, "dropRequest")
      /\ UNCHANGED <<authreq, pending, overdue, browserVars, history>>
      /\ codes' = [codes EXCEPT ![job[h].row.code] = None] \/ UNCHANGED codes
  BY DEF IInv, TypeOK, Facts, DropCode, JobOK
<1>2. j \in Job /\ job' = [job EXCEPT ![h] = j]
  BY <1>1 DEF Goto, Job, PC, IInv, TypeOK
<1>3. job' \in [Handler -> Job] /\ job'[h] = j /\ \A k \in Handler : k # h => job'[k] = job[k]
  BY <1>2, Moved
<1>4. /\ j.pc = "dropRequest" /\ j.request = job[h].request /\ j.client = job[h].client
      /\ j.user = job[h].user
  BY <1>1 DEF Job
<1> HIDE DEF j
<1>5. JobOK(job[h])'
  BY <1>1, <1>3, <1>4 DEF JobOK, history, LoginBy, Started
<1>6. SafeJob(h) /\ NoNewHolder(h) /\ NoNewUser(h)
  BY <1>1, <1>3, <1>4, <1>5 DEF SafeJob, NoNewHolder, NoNewUser, Holds, Reads, Uses
<1>7. \A k \in Handler : SafeJob(k) /\ (NoNewHolder(k) /\ NoNewUser(k))
  BY <1>3, <1>6 DEF SafeJob, NoNewHolder, NoNewUser, Holds, Reads, Uses
<1>8. Grow /\ PendingKept /\ NoRevival
  BY <1>1 DEF Grow, PendingKept, NoRevival, history
<1>9. TypeOK /\ TypeOK'
  BY <1>1, <1>3 DEF IInv, TypeOK, browserVars, history
<1>10. CodesOK'
  BY <1>1, <1>9 DEF TypeOK, IInv, Facts, CodesOK, LoggedIn, history
<1>11. (BegunOK /\ StoreOK /\ CookiesOK /\ LoginBoundToBrowser)'
  BY <1>1 DEF IInv, Facts, BegunOK, StoreOK, CookiesOK, LoginBoundToBrowser, LoggedIn,
              LoginBy, Started, Redirected, browserVars, history
<1> QED
  BY <1>1, <1>7, <1>8, <1>9, <1>10, <1>11, WritingOK DEF history, flowVars

LEMMA ReapOK ==
  ASSUME IInv, \/ \E q \in Request : ReapRequest(q)
               \/ \E c \in Code : ReapCode(c)
  PROVE  IInv'
<1>1. ASSUME NEW q \in Request, ReapRequest(q) PROVE IInv'
  <2>1. /\ authreq' = [authreq EXCEPT ![q] = None]
        /\ UNCHANGED <<codes, pending, browserVars, job, history>>
    BY <1>1 DEF ReapRequest
  <2>2. TypeOK /\ TypeOK'
    BY <2>1 DEF IInv, TypeOK, browserVars, history
  <2>3. \A p \in Request : authreq'[p] # None => authreq'[p] = authreq[p]
    BY <2>1, <2>2 DEF TypeOK
  <2>4. Grow /\ PendingKept /\ NoRevival
    BY <2>1, <2>3 DEF Grow, PendingKept, NoRevival, history
  <2>5. StoreOK'
    BY <2>1, <2>3 DEF IInv, Facts, StoreOK, LoggedIn, LoginBy, Started, history
  <2>6. (BegunOK /\ CodesOK /\ CookiesOK /\ LoginBoundToBrowser)'
    BY <2>1 DEF IInv, Facts, BegunOK, CodesOK, CookiesOK, LoginBoundToBrowser, LoggedIn,
                Redirected, browserVars, history
  <2> QED
    BY <2>1, <2>2, <2>4, <2>5, <2>6, Still, WritingOK DEF history, flowVars
<1>2. ASSUME NEW c \in Code, ReapCode(c) PROVE IInv'
  <2>1. /\ codes' = [codes EXCEPT ![c] = None]
        /\ UNCHANGED <<authreq, pending, browserVars, job, history>>
    BY <1>2 DEF ReapCode
  <2>2. TypeOK /\ TypeOK'
    BY <2>1 DEF IInv, TypeOK, browserVars, history
  <2>3. Grow /\ PendingKept /\ NoRevival
    BY <2>1 DEF Grow, PendingKept, NoRevival, history
  <2>4. CodesOK'
    BY <2>1, <2>2 DEF TypeOK, IInv, Facts, CodesOK, LoggedIn, history
  <2>5. (BegunOK /\ StoreOK /\ CookiesOK /\ LoginBoundToBrowser)'
    BY <2>1 DEF IInv, Facts, BegunOK, StoreOK, CookiesOK, LoginBoundToBrowser, LoggedIn,
                LoginBy, Started, Redirected, browserVars, history
  <2> QED
    BY <2>1, <2>2, <2>3, <2>4, <2>5, Still, WritingOK DEF history, flowVars
<1> QED
  BY <1>1, <1>2

\* The row put back was completed, by a login for this very request.
LEMMA WriteBackOK ==
  ASSUME IInv, NEW h \in Handler, WriteBack(h)
  PROVE  IInv'
<1> DEFINE q == job[h].request
           row == [job[h].row EXCEPT !.code = job[h].code]
<1>1. /\ job[h] \in Job /\ job[h].pc = "writeBack" /\ q \in Request
      /\ job[h].code \in Code /\ job[h].row \in RequestRow /\ job[h].row.user # None
      /\ LoginBy(q, job[h].row.user) /\ Started(q, job[h].row.client)
      /\ Finish(h)
      /\ UNCHANGED <<codes, pending, overdue, browserVars, minted, begun,
                     logins, granted, again, raced, flowVars>>
  BY DEF IInv, TypeOK, Facts, WriteBack, JobOK
<1>2. CASE UNCHANGED authreq
  <2>1. Reading
    BY <1>1, <1>2 DEF Reading, browserVars, IInv, TypeOK
  <2> QED
    BY <1>1, <2>1, Finished, ReadingOK
<1>3. CASE authreq' = [authreq EXCEPT ![q] = row]
  <2>1. row \in RequestRow /\ row.user = job[h].row.user /\ row.client = job[h].row.client
    BY <1>1 DEF RequestRow
  <2> HIDE DEF row
  <2>2. TypeOK /\ TypeOK'
    BY <1>1, <1>3, <2>1, Finished DEF IInv, TypeOK, browserVars, flowVars
  <2>3. Grow /\ PendingKept
    BY <1>1 DEF Grow, PendingKept
  <2>4. NoRevival
    BY <1>1, <1>3, <2>2 DEF NoRevival, TypeOK, Holds
  <2>5. q \in minted /\ \A r \in begun : r.request = q => r.client = row.client
    BY <1>1, <2>1, LoginsMinted DEF IInv, Facts, BegunOK, Started
  <2>6. StoreOK'
    <3>1. SUFFICES ASSUME NEW p \in Request, authreq'[p] # None
          PROVE  /\ p \in minted
                 /\ \A r \in begun : r.request = p => r.client = authreq'[p].client
                 /\ LoggedIn(p) => authreq'[p].user # None
                 /\ authreq'[p].user # None =>
                      LoginBy(p, authreq'[p].user) /\ Started(p, authreq'[p].client)
      BY <1>1 DEF StoreOK, LoggedIn, LoginBy, Started
    <3>2. CASE p = q
      BY <1>1, <1>3, <2>1, <2>2, <2>5, <3>2 DEF TypeOK
    <3>3. CASE p # q
      BY <1>3, <2>2, <3>1, <3>3 DEF TypeOK, IInv, Facts, StoreOK
    <3> QED
      BY <3>2, <3>3
  <2>7. (BegunOK /\ CodesOK /\ CookiesOK /\ LoginBoundToBrowser)'
    BY <1>1 DEF IInv, Facts, BegunOK, CodesOK, CookiesOK, LoginBoundToBrowser, LoggedIn,
                Redirected, browserVars
  <2> QED
    BY <1>1, <2>2, <2>3, <2>4, <2>6, <2>7, Finished, WritingOK
<1> QED
  BY <1>2, <1>3 DEF WriteBack

\* The single-use Delete seals the flow, unless another handler has read it.
LEMMA ConsumeOK ==
  ASSUME IInv, NEW h \in Handler, Consume(h)
  PROVE  IInv'
<1> DEFINE j == [job[h] EXCEPT !.pc = "load"]
<1>0. PICK F \in Flow : F = job[h].flow
  BY DEF IInv, TypeOK, Facts, Consume, JobOK
<1>1. /\ JobOK(job[h]) /\ job[h] \in Job /\ job[h].pc = "consume"
      /\ job[h].browser \in Browser /\ job[h].request \in Request
      /\ Redirected(job[h].request, job[h].source, job[h].browser) /\ F \in minted
      /\ \/ pending' = [pending EXCEPT ![F] = None] /\ (HoldsFlow(F) # {h} => F \in flowRaced')
         \/ UNCHANGED pending /\ F \in flowRaced'
      /\ flowRaced' \in {flowRaced, flowRaced \cup {F}} /\ Goto(h, "load")
      /\ UNCHANGED <<authreq, codes, overdue, browserVars, minted, begun, logins,
                     granted, again, raced, consumed, reused>>
  BY <1>0, ConstantsAssumption DEF IInv, TypeOK, Facts, Consume, JobOK
<1>2. j \in Job /\ job' = [job EXCEPT ![h] = j]
  BY <1>1 DEF Goto, Job, PC, IInv, TypeOK
<1>3. job' \in [Handler -> Job] /\ job'[h] = j /\ \A k \in Handler : k # h => job'[k] = job[k]
  BY <1>2, Moved
<1>4. /\ j.pc = "load" /\ j.request = job[h].request /\ j.source = job[h].source
      /\ j.browser = job[h].browser /\ j.flow = F
  BY <1>0, <1>1 DEF Job
<1> HIDE DEF j
<1>5. JobOK(job[h])'
  BY <1>1, <1>3, <1>4 DEF JobOK, Redirected
<1>6. \A k \in Handler : SafeJob(k) /\ NoNewHolder(k)
  BY <1>3, <1>4, <1>5 DEF SafeJob, NoNewHolder, Holds
<1>7. TypeOK /\ TypeOK'
  BY <1>1, <1>3 DEF IInv, TypeOK, browserVars
<1>8. \A f \in Flow : pending'[f] \in {pending[f], None} /\ (f # F => pending'[f] = pending[f])
  BY <1>1, <1>7 DEF TypeOK
<1>9. Grow /\ PendingKept /\ NoRevival
  BY <1>1, <1>8 DEF Grow, PendingKept, NoRevival
<1>10. CookiesOK'
  BY <1>1, <1>8 DEF IInv, Facts, CookiesOK, Redirected, browserVars
<1>11. (BegunOK /\ StoreOK /\ CodesOK /\ LoginBoundToBrowser)'
  BY <1>1 DEF IInv, Facts, BegunOK, StoreOK, CodesOK, LoginBoundToBrowser, LoggedIn,
              LoginBy, Started
<1>12. Facts'
  BY <1>1, <1>6, <1>9, <1>10, <1>11, FactsKept
<1>13. Sealed'
  BY <1>1, <1>6, <1>9, SealedKept
<1>14. \A f \in Flow, k \in Handler : k # h \/ f # F =>
         (Reads(job[k], f)' <=> Reads(job[k], f)) /\ (Uses(job[k], f)' <=> Uses(job[k], f))
  BY <1>0, <1>1, <1>3, <1>4 DEF Reads, Uses
<1>15. ~Reads(job[h], F)' /\ Uses(job[h], F)' /\ Reads(job[h], F)
  BY <1>0, <1>1, <1>3, <1>4 DEF Reads, Uses
<1>16. ASSUME NEW f \in Flow, f \notin flowRaced'
       PROVE  (/\ \A i \in Handler : Uses(job[i], f) =>
                    /\ pending[f] = None /\ f \notin consumed
                    /\ \A k \in Handler : ~Reads(job[k], f) /\ (Uses(job[k], f) => k = i)
               /\ f \in consumed =>
                    /\ pending[f] = None
                    /\ \A k \in Handler : ~Reads(job[k], f) /\ ~Uses(job[k], f))'
  <2>1. f \notin flowRaced
    BY <1>1, <1>16
  <2>2. /\ \A i \in Handler : Uses(job[i], f) =>
             /\ pending[f] = None /\ f \notin consumed
             /\ \A k \in Handler : ~Reads(job[k], f) /\ (Uses(job[k], f) => k = i)
        /\ f \in consumed =>
             /\ pending[f] = None
             /\ \A k \in Handler : ~Reads(job[k], f) /\ ~Uses(job[k], f)
    BY <2>1 DEF IInv, FlowsSealed
  <2>3. CASE f # F
    BY <1>1, <1>8, <1>14, <2>2, <2>3
  <2>4. CASE f = F
    <3>1. pending'[F] = None /\ HoldsFlow(F) = {h}
      BY <1>1, <1>7, <1>16, <2>4 DEF TypeOK
    <3>2. \A k \in Handler : k # h => ~Reads(job[k], F)
      BY <3>1 DEF HoldsFlow, Reads
    <3>3. (\A k \in Handler : ~Uses(job[k], F)) /\ F \notin consumed
      BY <1>15, <2>2, <2>4
    <3> QED
      BY <1>1, <1>14, <1>15, <2>4, <3>1, <3>2, <3>3
  <2> QED
    BY <2>3, <2>4
<1>17. FlowsSealed'
  <2>1. reused' \subseteq flowRaced' /\ consumed' \subseteq minted'
    BY <1>1 DEF IInv, FlowsSealed
  <2> QED
    BY <1>16, <2>1 DEF FlowsSealed
<1> QED
  BY <1>7, <1>12, <1>13, <1>17 DEF IInv

\* The row put back is the one of the request the browser was redirected for.
LEMMA CompleteAuthRequestOK ==
  ASSUME IInv, NEW h \in Handler, CompleteAuthRequest(h)
  PROVE  IInv'
<1>0. PICK q \in Request : q = job[h].request
  BY DEF IInv, TypeOK, Facts, CompleteAuthRequest, JobOK
<1> DEFINE F == job[h].flow
           login == [request |-> q, source |-> job[h].source,
                     browser |-> job[h].browser, user |-> job[h].user]
<1>1. /\ job[h] \in Job /\ job[h].pc = "complete"
      /\ Redirected(q, job[h].source, job[h].browser) /\ (F # None => F \in minted)
      /\ job[h].user \in Subject /\ job[h].source \in Source /\ job[h].browser \in Browser
      /\ job[h].row \in RequestRow /\ Started(q, job[h].row.client)
      /\ Finish(h)
      /\ binding' \in {binding, [binding EXCEPT ![job[h].browser] = None]}
      /\ UNCHANGED <<codes, pending, overdue, minted, begun, granted, again, raced, flowRaced>>
  BY <1>0 DEF IInv, TypeOK, Facts, CompleteAuthRequest, JobOK
<1>2. CASE UNCHANGED <<authreq, logins, flowCookie, consumed, reused>>
  <2>1. Reading
    BY <1>1, <1>2 DEF Reading, flowVars, IInv, TypeOK
  <2> QED
    BY <1>1, <2>1, Finished, ReadingOK
<1>3. CASE /\ authreq' = [authreq EXCEPT ![q] = [job[h].row EXCEPT !.user = job[h].user]]
           /\ logins' = logins \cup {login}
           /\ flowCookie' \in {flowCookie, [flowCookie EXCEPT ![job[h].browser] = None]}
           /\ consumed' = IF F = None THEN consumed ELSE consumed \cup {F}
           /\ reused' = IF F \in consumed THEN reused \cup {F} ELSE reused
  <2>1. PICK row \in RequestRow : /\ row = [job[h].row EXCEPT !.user = job[h].user]
                                  /\ row.user = job[h].user /\ row.client = job[h].row.client
    <3> DEFINE put == [job[h].row EXCEPT !.user = job[h].user]
    <3>1. put \in RequestRow /\ put.user = job[h].user /\ put.client = job[h].row.client
      BY <1>1 DEF RequestRow
    <3>2. put = [job[h].row EXCEPT !.user = job[h].user]
      OBVIOUS
    <3> HIDE DEF put
    <3> QED
      BY <3>1, <3>2
  <2>2. /\ login \in Login /\ login.request = q /\ login.source = job[h].source
        /\ login.browser = job[h].browser /\ login.user = job[h].user
    BY <1>1 DEF Login
  <2> HIDE DEF login
  <2>3. F = None \/ F \in Flow
    BY <1>1 DEF Job
  <2>4. TypeOK /\ TypeOK'
    BY <1>1, <1>3, <2>1, <2>2, <2>3, Finished DEF IInv, TypeOK
  <2>5. Grow /\ PendingKept
    BY <1>1, <1>3 DEF Grow, PendingKept
  <2>6. NoRevival
    BY <1>0, <1>1, <1>3, <2>4 DEF NoRevival, TypeOK, Holds
  <2>7. q \in minted /\ \A r \in begun : r.request = q => r.client = row.client
    BY <1>1, <2>1, LoginsMinted DEF IInv, Facts, BegunOK, Started
  <2>8. LoginBy(q, row.user)' /\ Started(q, row.client)'
    BY <1>1, <1>3, <2>1, <2>2 DEF LoginBy, Started
  <2>9. row.user # None
    BY <1>1, <2>1, ConstantsAssumption
  <2>10. \A p : p # q => (LoggedIn(p)' <=> LoggedIn(p))
    BY <1>3, <2>2 DEF LoggedIn
  <2>11. StoreOK'
    <3>1. SUFFICES ASSUME NEW p \in Request, authreq'[p] # None
          PROVE  /\ p \in minted'
                 /\ \A r \in begun : r.request = p => r.client = authreq'[p].client
                 /\ LoggedIn(p)' => authreq'[p].user # None
                 /\ authreq'[p].user # None =>
                      LoginBy(p, authreq[p].user)' /\ Started(p, authreq[p].client)'
      BY <1>1 DEF StoreOK
    <3>2. CASE p = q
      <4>1. authreq'[p] = row
        BY <1>3, <2>1, <2>4, <3>2 DEF TypeOK
      <4> QED
        BY <1>1, <2>7, <2>8, <2>9, <3>2, <4>1
    <3>3. CASE p # q
      <4>1. authreq'[p] = authreq[p]
        BY <1>3, <2>4, <3>3 DEF TypeOK
      <4>2. /\ p \in minted
            /\ \A r \in begun : r.request = p => r.client = authreq[p].client
            /\ LoggedIn(p) => authreq[p].user # None
            /\ authreq[p].user # None =>
                 LoginBy(p, authreq[p].user) /\ Started(p, authreq[p].client)
        BY <3>1, <4>1 DEF IInv, Facts, StoreOK
      <4> QED
        BY <1>1, <2>5, <2>10, <3>3, <4>1, <4>2, Kept
    <3> QED
      BY <3>2, <3>3
  <2>12. LoginBoundToBrowser'
    BY <1>1, <1>3, <2>2 DEF IInv, Facts, LoginBoundToBrowser, Redirected
  <2>13. CodesOK'
    BY <1>1, <2>5, Kept DEF IInv, Facts, CodesOK
  <2>14. \A b \in Browser : flowCookie'[b] \in {flowCookie[b], None}
                           /\ binding'[b] \in {binding[b], None}
    BY <1>1, <1>3, <2>4 DEF TypeOK
  <2>15. CookiesOK'
    BY <1>1, <2>14, ConstantsAssumption DEF IInv, Facts, CookiesOK, Redirected
  <2>16. BegunOK'
    BY <1>1 DEF IInv, Facts, BegunOK
  <2>17. \A k \in Handler : SafeJob(k) /\ NoNewHolder(k) /\ NoNewUser(k)
    BY <1>1, Finished
  <2>18. Facts'
    BY <1>1, <2>5, <2>11, <2>12, <2>13, <2>15, <2>16, <2>17, FactsKept
  <2>19. Sealed'
    BY <1>1, <2>6, <2>17, SealedKept
  <2>20. \A f \in Flow : ~Reads(job[h], f)' /\ ~Uses(job[h], f)'
    BY <1>1, <2>4 DEF Finish, Idle, Reads, Uses, TypeOK
  <2>21. \A k \in Handler : k # h => job'[k] = job[k]
    BY <1>1, <2>4 DEF Finish, TypeOK
  <2>22. ASSUME NEW f \in Flow, f \notin flowRaced
         PROVE  (/\ \A i \in Handler : Uses(job[i], f) =>
                      /\ pending[f] = None /\ f \notin consumed
                      /\ \A k \in Handler : ~Reads(job[k], f) /\ (Uses(job[k], f) => k = i)
                 /\ f \in consumed =>
                      /\ pending[f] = None
                      /\ \A k \in Handler : ~Reads(job[k], f) /\ ~Uses(job[k], f))'
    <3>1. /\ \A i \in Handler : Uses(job[i], f) =>
               /\ pending[f] = None /\ f \notin consumed
               /\ \A k \in Handler : ~Reads(job[k], f) /\ (Uses(job[k], f) => k = i)
          /\ f \in consumed =>
               /\ pending[f] = None
               /\ \A k \in Handler : ~Reads(job[k], f) /\ ~Uses(job[k], f)
      BY <2>22 DEF IInv, FlowsSealed
    <3>2. \A k \in Handler : k # h =>
            (Reads(job[k], f)' <=> Reads(job[k], f)) /\ (Uses(job[k], f)' <=> Uses(job[k], f))
      BY <2>21 DEF Reads, Uses
    <3>3. CASE f = F
      <4>1. Uses(job[h], f) /\ F \in consumed'
        BY <1>1, <1>3, <3>3, ConstantsAssumption DEF Uses
      <4>2. /\ pending'[f] = None
            /\ \A k \in Handler : ~Reads(job[k], f)' /\ ~Uses(job[k], f)'
        BY <1>1, <2>20, <3>1, <3>2, <4>1
      <4> QED
        BY <4>2
    <3>4. CASE f # F
      <4>1. f \in consumed' <=> f \in consumed
        BY <1>3, <3>4
      <4> QED
        BY <1>1, <2>20, <3>1, <3>2, <4>1
    <3> QED
      BY <3>3, <3>4
  <2>23. reused' \subseteq flowRaced /\ consumed' \subseteq minted
    <3>1. ASSUME F \in consumed PROVE F \in flowRaced
      <4>1. F \in Flow /\ Uses(job[h], F)
        BY <1>1, <2>3, <2>4, <3>1, ConstantsAssumption DEF TypeOK, Uses
      <4> QED
        BY <3>1, <4>1 DEF IInv, FlowsSealed
    <3> QED
      BY <1>1, <1>3, <3>1 DEF IInv, FlowsSealed
  <2>24. FlowsSealed'
    BY <1>1, <2>22, <2>23 DEF FlowsSealed
  <2> QED
    BY <2>4, <2>18, <2>19, <2>24 DEF IInv
<1> QED
  BY <1>0, <1>2, <1>3 DEF CompleteAuthRequest

\* Deleting the request seals it, unless another handler holds its row.
LEMMA DropRequestOK ==
  ASSUME IInv, NEW h \in Handler, DropRequest(h)
  PROVE  IInv'
<1>0. PICK q \in Request : q = job[h].request
  BY DEF IInv, TypeOK, Facts, DropRequest, JobOK
<1> DEFINE g == [request |-> q, client |-> job[h].client, user |-> job[h].user]
<1>1. /\ job[h] \in Job /\ job[h].pc = "dropRequest"
      /\ job[h].client \in Client /\ job[h].user \in Subject
      /\ Started(q, job[h].client) /\ LoginBy(q, job[h].user)
      /\ Finish(h)
      /\ UNCHANGED <<codes, pending, overdue, browserVars, minted, begun, logins, flowVars>>
  BY <1>0 DEF IInv, TypeOK, Facts, DropRequest, JobOK
<1>2. CASE UNCHANGED <<authreq, granted, again, raced>>
  <2>1. Reading
    BY <1>1, <1>2 DEF Reading, browserVars, IInv, TypeOK
  <2> QED
    BY <1>1, <2>1, Finished, ReadingOK
<1>3. CASE /\ authreq' = [authreq EXCEPT ![q] = None]
           /\ granted' = granted \cup {g}
           /\ again' = IF \E gg \in granted : gg.request = q THEN again \cup {q} ELSE again
           /\ raced' = IF HoldsRow(q) # {h} THEN raced \cup {q} ELSE raced
  <2>1. g \in Grant /\ g.request = q /\ g.client = job[h].client /\ g.user = job[h].user
    BY <1>1 DEF Grant
  <2> HIDE DEF g
  <2>2. TypeOK /\ TypeOK'
    BY <1>1, <1>3, <2>1, Finished DEF IInv, TypeOK, browserVars, flowVars
  <2>3. \A p \in Request : authreq'[p] # None => authreq'[p] = authreq[p]
    BY <1>3, <2>2 DEF TypeOK
  <2>4. Grow /\ PendingKept /\ NoRevival
    BY <1>1, <2>3 DEF Grow, PendingKept, NoRevival
  <2>5. StoreOK'
    BY <1>1, <2>3 DEF IInv, Facts, StoreOK, LoggedIn, LoginBy, Started
  <2>6. (BegunOK /\ CodesOK /\ CookiesOK /\ LoginBoundToBrowser)'
    BY <1>1 DEF IInv, Facts, BegunOK, CodesOK, CookiesOK, LoginBoundToBrowser, LoggedIn,
                Redirected, browserVars
  <2>7. GrantsOK'
    BY <1>1, <1>3, <2>1 DEF IInv, Facts, GrantsOK, Started, LoginBy
  <2>8. \A k \in Handler : SafeJob(k) /\ NoNewHolder(k) /\ NoNewUser(k)
    BY <1>1, Finished
  <2>9. Facts'
    BY <2>4, <2>5, <2>6, <2>7, <2>8, JobsKept DEF Facts
  <2>10. Holds(job[h], q)
    BY <1>0, <1>1 DEF Holds
  <2>11. \A p \in Request, k \in Handler : Holds(job[k], p)' => k # h /\ Holds(job[k], p)
    BY <1>1, <2>2 DEF TypeOK, Finish, Idle, Holds
  <2>12. ASSUME NEW x \in granted', x.request \notin raced'
         PROVE  (/\ authreq[x.request] = None
                 /\ \A k \in Handler : ~Holds(job[k], x.request))'
    <3>1. x.request \in Request
      BY <2>2 DEF TypeOK, Grant
    <3>2. CASE x.request = q
      <4>1. authreq'[q] = None
        BY <1>3, <2>2 DEF TypeOK
      <4>2. HoldsRow(q) = {h}
        BY <1>3, <2>12, <3>2
      <4>3. \A k \in Handler : Holds(job[k], q) => k = h
        BY <4>2 DEF HoldsRow, Holds
      <4> QED
        BY <2>11, <3>2, <4>1, <4>3
    <3>3. CASE x.request # q
      <4>1. x \in granted /\ x.request \notin raced
        BY <1>3, <2>1, <2>12, <3>3
      <4>2. authreq[x.request] = None /\ \A k \in Handler : ~Holds(job[k], x.request)
        BY <4>1 DEF IInv, Sealed
      <4> QED
        BY <2>3, <2>11, <3>1, <4>2
    <3> QED
      BY <3>2, <3>3
  <2>13. again' \subseteq raced'
    <3>1. ASSUME NEW x \in granted, x.request = q PROVE q \in raced
      BY <2>10, <3>1 DEF IInv, Sealed
    <3> QED
      BY <1>3, <3>1 DEF IInv, Sealed
  <2>14. Sealed'
    BY <2>12, <2>13 DEF Sealed
  <2>15. FlowsSealed'
    BY <1>1, <2>4, <2>8, FlowsKept DEF Grow
  <2> QED
    BY <2>2, <2>9, <2>14, <2>15 DEF IInv
<1> QED
  BY <1>0, <1>2, <1>3 DEF DropRequest, WithoutRequest

-----------------------------------------------------------------------------
(* The invariant *)

LEMMA InitOK == Init => IInv
<1> SUFFICES ASSUME Init PROVE IInv
  OBVIOUS
<1>1. Idle \in Job /\ Idle.pc = "idle" /\ Idle.request = None /\ Idle.flow = None
  BY DEF Idle, Job, PC
<1>2. \A h \in Handler : job[h] = Idle
  BY DEF Init
<1>3. TypeOK
  BY <1>1 DEF Init, TypeOK
<1>4. \A h \in Handler : JobOK(job[h])
  BY <1>1, <1>2 DEF JobOK
<1>5. Facts
  BY <1>4 DEF Init, Facts, BegunOK, StoreOK, CodesOK, CookiesOK, LoginBoundToBrowser, GrantsOK
<1>6. Sealed /\ FlowsSealed
  BY <1>1, <1>2 DEF Init, Sealed, FlowsSealed, Uses
<1> QED
  BY <1>3, <1>5, <1>6 DEF IInv

LEMMA StepOK == IInv /\ [Next]_vars => IInv'
<1> SUFFICES ASSUME IInv, [Next]_vars PROVE IInv'
  OBVIOUS
<1>1. CASE Redirect
  BY <1>1, CreateAuthRequestOK, HandleLoginOK, HandleCustomLoginOK DEF Redirect
<1>2. ASSUME NEW h \in Handler, Start(h) PROVE IInv'
  BY <1>2, HandleCallbackOK, HandleLoginCompleteOK, AuthorizeCallbackOK, StartExchangeOK
     DEF Start
<1>3. ASSUME NEW h \in Handler, Step(h) PROVE IInv'
  BY <1>3, ConsumeOK, LoadRequestOK, CompleteAuthRequestOK, SaveCodeOK, ReadBackOK,
     WriteBackOK, ReadRequestOK, DropReadOK, DropCodeOK, DropRequestOK, QuietOK DEF Step
<1>4. CASE Environment
  BY <1>4, ReapOK, QuietOK DEF Environment
<1>5. CASE UNCHANGED vars
  BY <1>5, QuietOK
<1> QED
  BY <1>1, <1>2, <1>3, <1>4, <1>5 DEF Next

\* The invariant of the authorization flow: cookies, pending logins, stored
\* requests, codes and the rows held by requests in flight are each backed by a
\* redirect and, once done, by a login; and a delivered token response and a
\* used pending login leave nobody behind who could repeat them.
THEOREM Invariance == Spec => []IInv
<1>1. Init => IInv
  BY InitOK
<1>2. IInv /\ [Next]_vars => IInv'
  BY StepOK
<1> QED
  BY <1>1, <1>2, PTL DEF Spec

-----------------------------------------------------------------------------
(* The properties *)

\* Tokens are answered to the client the request was made for and for a user
\* who logged in for that request, whatever whole-row puts, deletes and
\* concurrent exchanges come in between (AuthRequestByCode, DeleteAuthRequest).
THEOREM Authenticated == Spec => []GrantIsAuthenticated
<1>1. IInv => GrantIsAuthenticated
  BY DEF IInv, Facts, GrantsOK, Started, LoginBy, GrantIsAuthenticated
<1> QED
  BY <1>1, Invariance, PTL

\* A login completes a request only in a browser that was redirected for it, at
\* the source it was redirected to (HandleCallback, HandleLoginComplete).
THEOREM BoundToBrowser == Spec => []LoginBoundToBrowser
<1>1. IInv => LoginBoundToBrowser
  BY DEF IInv, Facts
<1> QED
  BY <1>1, Invariance, PTL

\* A request gives a second token response, and a pending login a second
\* completion, only after a handler was overtaken between its read and the
\* Delete or the Delete failed (DeleteAuthRequest, HandleLoginComplete).
THEOREM Once == Spec => []SingleUse
<1>1. IInv => SingleUse
  BY DEF IInv, Sealed, FlowsSealed, SingleUse
<1> QED
  BY <1>1, Invariance, PTL

\* Who writes a request: the login, the code's write-back, and its deletion.
LEMMA RequestWritten ==
  ASSUME IInv, [Next]_vars, NEW q \in Request, authreq[q] # None, authreq'[q] # None,
         authreq'[q] # authreq[q]
  PROVE  authreq'[q].user # None /\ Started(q, authreq'[q].client)
<1>1. authreq \in [Request -> RequestRow \cup {None}] /\ q \in minted
  BY DEF IInv, TypeOK, Facts, StoreOK
<1>2. \E h \in Handler : CompleteAuthRequest(h) \/ WriteBack(h)
  <2>1. ~Redirect /\ ~Environment /\ ~UNCHANGED vars
    BY <1>1 DEF Redirect, CreateAuthRequest, HandleLogin, HandleCustomLogin, Environment,
                Pass, ReapRequest, ReapCode, DropCookies, store, vars
  <2>2. \A h \in Handler : ~Start(h)
    BY DEF Start, HandleCallback, HandleLoginComplete, AuthorizeCallback, StartExchange, store
  <2>3. \A h \in Handler : Step(h) => CompleteAuthRequest(h) \/ WriteBack(h)
    BY <1>1 DEF Step, Consume, LoadRequest, SaveCode, ReadBack, ReadRequest, DropRead,
                DropCode, DropRequest, WithoutRequest, Crash, store
  <2> QED
    BY <2>1, <2>2, <2>3 DEF Next
<1>3. ASSUME NEW h \in Handler, CompleteAuthRequest(h)
      PROVE  authreq'[q].user # None /\ Started(q, authreq'[q].client)
  <2>1. /\ job[h].request = q
        /\ authreq'[q] = [job[h].row EXCEPT !.user = job[h].user]
    BY <1>1, <1>3 DEF CompleteAuthRequest
  <2>2. /\ job[h].user \in Subject /\ job[h].row \in RequestRow
        /\ Started(q, job[h].row.client)
    BY <1>3, <2>1 DEF CompleteAuthRequest, IInv, Facts, JobOK
  <2> QED
    BY <2>1, <2>2, ConstantsAssumption DEF RequestRow
<1>4. ASSUME NEW h \in Handler, WriteBack(h)
      PROVE  authreq'[q].user # None /\ Started(q, authreq'[q].client)
  <2>1. /\ job[h].request = q
        /\ authreq'[q] = [job[h].row EXCEPT !.code = job[h].code]
    BY <1>1, <1>4 DEF WriteBack
  <2>2. /\ job[h].row \in RequestRow /\ job[h].row.user # None
        /\ Started(q, job[h].row.client)
    BY <1>4, <2>1 DEF WriteBack, IInv, Facts, JobOK
  <2> QED
    BY <2>1, <2>2 DEF RequestRow
<1> QED
  BY <1>2, <1>3, <1>4

\* No whole-row put takes back a request's completion or moves it to another
\* client (SaveAuthCode and CompleteAuthRequest, each writing what it read).
THEOREM CompletionKept == Spec => CompletionNotLost
<1>1. IInv /\ [Next]_vars => [CompletionStays]_vars
  <2>1. SUFFICES ASSUME IInv, [Next]_vars, NEW q \in Request,
                        Done(authreq[q]), authreq'[q] # None
                 PROVE  Done(authreq'[q]) /\ authreq'[q].client = authreq[q].client
    BY DEF CompletionStays
  <2>2. CASE authreq'[q] = authreq[q]
    BY <2>1, <2>2 DEF Done
  <2>3. CASE authreq'[q] # authreq[q]
    <3>1. authreq'[q].user # None /\ Started(q, authreq'[q].client)
      BY <2>1, <2>3, RequestWritten DEF Done
    <3>2. Started(q, authreq[q].client)
      BY <2>1 DEF Done, IInv, Facts, StoreOK
    <3> QED
      BY <2>1, <3>1, <3>2 DEF Done, Started, IInv, Facts, BegunOK
  <2> QED
    BY <2>2, <2>3
<1> QED
  BY <1>1, Invariance, PTL DEF Spec, CompletionNotLost

\* A pending login disappears only for a hand-back from a browser that was
\* redirected for its request (HandleLoginComplete checks the binding first).
THEOREM Foreign == Spec => ForeignPostConsumesNothing
<1>1. IInv /\ [Next]_vars => [ConsumedByStarter]_vars
  <2>1. SUFFICES ASSUME IInv, [Next]_vars, NEW f \in Flow,
                        pending[f] # None, pending'[f] = None
                 PROVE  \E r \in begun, h \in Handler :
                          /\ job[h].flow = f /\ job[h].browser = r.browser
                          /\ r.request = pending[f].request
    BY DEF ConsumedByStarter
  <2>2. pending \in [Flow -> PendingRow \cup {None}]
    BY <2>1 DEF IInv, TypeOK
  <2>3. \E h \in Handler : Consume(h)
    <3>1. ~Redirect
      <4>1. ASSUME NEW q \in Request, NEW b \in Browser, NEW g \in Flow, NEW s \in Source,
                   HandleCustomLogin(q, b, g, s)
            PROVE  FALSE
        <5>1. f \in minted /\ g \notin minted
          BY <2>1, <4>1 DEF IInv, Facts, CookiesOK, HandleCustomLogin
        <5> QED
          BY <2>1, <2>2, <4>1, <5>1 DEF HandleCustomLogin
      <4> QED
        BY <2>1, <4>1 DEF Redirect, CreateAuthRequest, HandleLogin, store
    <3>2. ~Environment /\ ~UNCHANGED vars
      BY <2>1 DEF Environment, Pass, ReapRequest, ReapCode, DropCookies, store, vars
    <3>3. \A h \in Handler : ~Start(h)
      BY <2>1 DEF Start, HandleCallback, HandleLoginComplete, AuthorizeCallback,
                  StartExchange, store
    <3>4. \A h \in Handler : Step(h) => Consume(h)
      BY <2>1 DEF Step, LoadRequest, CompleteAuthRequest, SaveCode, ReadBack, WriteBack,
                  ReadRequest, DropRead, DropCode, DropRequest, Crash, store
    <3> QED
      BY <2>1, <3>1, <3>2, <3>3, <3>4 DEF Next
  <2>4. PICK h \in Handler : Consume(h)
    BY <2>3
  <2>5. job[h].flow = f
    BY <2>1, <2>2, <2>4 DEF Consume
  <2>6. job[h].pc = "consume" /\ JobOK(job[h])
    BY <2>1, <2>4 DEF Consume, IInv, Facts
  <2> QED
    BY <2>1, <2>5, <2>6 DEF JobOK, Redirected
<1> QED
  BY <1>1, Invariance, PTL DEF Spec, ForeignPostConsumesNothing
=============================================================================
