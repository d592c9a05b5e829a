-------------------------------- MODULE AuthCode --------------------------------
(***************************************************************************)
(* The authorization request, the login that completes it and the code     *)
(* that is exchanged for tokens (internal/oidc/login.go, the AuthStorage   *)
(* half of internal/oidc/storage.go, store/pending_login_store.go).        *)
(*                                                                         *)
(* The authorize and the token endpoints are different Lambdas; the row of *)
(* the request is their only hand-off, and every writer of it reads the    *)
(* whole row, changes some fields and puts the whole row back, with no     *)
(* condition. One action is one store call of one request in flight.       *)
(* OIDCTokens takes over where Grant mints the tokens (StartCodeGrant).    *)
(***************************************************************************)
EXTENDS Naturals, FiniteSets

CONSTANTS
  Request,    \* authorization requests; the ID is 256 random bits
  Code,       \* authorization codes; each is minted once
  Flow,       \* pending custom logins; the flow ID is 128 random bits
  Browser,    \* user agents, each with its own cookies
  Client,     \* OIDC applications
  Custom,     \* the clients with a trusted custom login page
  Source,     \* identity sources (Cognito pools)
  Subject,    \* users of the pools
  Handler,    \* requests in flight
  Fault,      \* the store calls that may fail, and "crash"
  MaxBegun,   \* bound on the different redirects to a login page
  None        \* no row, no code, no user, no cookie

FaultKind == {"dropPending", "putRequest", "putCode", "readBack", "dropCode",
              "dropRequest", "crash"}

\* authRequestItem: the fields the flow decides on. IsDone and UserID are set
\* together.
RequestRow == [client : Client, user : Subject \cup {None},
               code : Code \cup {None}]

\* store.PendingLogin, protocol "oidc".
PendingRow == [request : Request, source : Source]

\* oidcFlowState, the signed oidc_flow cookie.
FlowState == [request : Request, source : Source]

\* A redirect to a login page.
Redirection == [request : Request, client : Client, source : Source,
                browser : Browser]

\* A verified ID token: who, at which pool.
Login == [request : Request, source : Source, browser : Browser, user : Subject]

Grant == [request : Request, client : Client, user : Subject]

PC == {"idle", "consume", "load", "complete",
       "saveCode", "readBack", "writeBack",
       "request", "dropRead", "dropCode", "dropRequest"}

\* A request in flight: the row it has read of the authorization request, the
\* code it presents or issues, and for a custom login the flow and the token.
Job == [pc : PC, request : Request \cup {None}, row : RequestRow \cup {None},
        code : Code \cup {None}, client : Client \cup {None},
        flow : Flow \cup {None}, browser : Browser \cup {None},
        source : Source \cup {None}, user : Subject \cup {None}]

ASSUME ConstantsAssumption ==
  /\ MaxBegun \in Nat
  /\ Custom \subseteq Client
  /\ Fault \subseteq FaultKind
  /\ None \notin Request \cup Code \cup Flow \cup Browser \cup Client
                 \cup Source \cup Subject \cup RequestRow \cup PendingRow
                 \cup FlowState

VARIABLES
  authreq,    \* AUTHREQ# items
  codes,      \* AUTHCODE# items: the request each code stands for
  pending,    \* PENDINGLOGIN# items
  overdue,    \* pending logins past their expiry
  flowCookie, \* the oidc_flow cookie of each browser
  binding,    \* the __Host-oidc_login cookie of each browser
  job,
  (* history, read by the properties and by the choice of fresh values *)
  known,      \* codes some relying party has received
  minted,     \* request IDs, codes and flow IDs ever generated
  begun,      \* every redirect to a login page, a Redirection
  logins,     \* every login that completed a request
  granted,    \* every token response delivered, a Grant
  again,      \* requests a second token response was delivered for
  raced,      \* requests deleted while another handler held their row
  consumed,   \* flows that completed a request
  reused,     \* flows that did so twice
  flowRaced   \* flows whose Delete failed, or came while another had the row

store == <<authreq, codes, pending, overdue>>
browserVars == <<flowCookie, binding>>
flowVars == <<consumed, reused, flowRaced>>
history == <<known, minted, begun, logins, granted, again, raced, consumed, reused,
             flowRaced>>
vars == <<authreq, codes, pending, overdue, flowCookie, binding, job,
          known, minted, begun, logins, granted, again, raced, consumed,
          reused, flowRaced>>

Idle == [pc |-> "idle", request |-> None, row |-> None, code |-> None,
         client |-> None, flow |-> None, browser |-> None, source |-> None,
         user |-> None]

Init ==
  /\ authreq = [q \in Request |-> None]
  /\ codes = [c \in Code |-> None]
  /\ pending = [f \in Flow |-> None]
  /\ overdue = {}
  /\ flowCookie = [b \in Browser |-> None]
  /\ binding = [b \in Browser |-> None]
  /\ job = [h \in Handler |-> Idle]
  /\ known = {} /\ minted = {} /\ begun = {} /\ logins = {} /\ granted = {}
  /\ again = {} /\ raced = {}
  /\ consumed = {} /\ reused = {} /\ flowRaced = {}

-----------------------------------------------------------------------------
(* Helpers *)

Done(row) == row # None /\ row.user # None

Begin(h, j) == job[h].pc = "idle" /\ job' = [job EXCEPT ![h] = j]
Goto(h, pc) == job' = [job EXCEPT ![h].pc = pc]
Finish(h) == job' = [job EXCEPT ![h] = Idle]

\* The handlers that will still act on a row of q they have already read.
HoldsRow(q) == {h \in Handler : job[h].request = q
                  /\ job[h].pc \in {"complete", "writeBack", "dropRead",
                                    "dropCode", "dropRequest"}}
HoldsFlow(f) == {h \in Handler : job[h].flow = f /\ job[h].pc = "consume"}

-----------------------------------------------------------------------------
(* The authorization request and the redirect to a login page *)

\* One redirect more, within the bound.
Record(redirection) ==
  /\ begun' = begun \cup {redirection}
  /\ Cardinality(begun') <= MaxBegun

\* GET /authorize: zitadel/oidc validates the request for a known client and
\* stores it, for 10 minutes.
CreateAuthRequest(q, c) ==
  /\ q \notin minted
  /\ minted' = minted \cup {q}
  /\ authreq' = [authreq EXCEPT ![q] = [client |-> c, user |-> None,
                                        code |-> None]]
  /\ UNCHANGED <<codes, pending, overdue, flowCookie, binding, job,
                 known, begun, logins, granted, again, raced, flowVars>>

\* HandleLogin for an application without a custom page: the flow state goes
\* into the browser's only oidc_flow cookie, over the one it had. An
\* administrator may move the application to another source at any time, so
\* each reading of its source may find another one.
HandleLogin(q, b, s) ==
  /\ authreq[q] # None
  /\ authreq[q].client \notin Custom
  /\ flowCookie' = [flowCookie EXCEPT ![b] = [request |-> q, source |-> s]]
  /\ Record([request |-> q, client |-> authreq[q].client, source |-> s,
             browser |-> b])
  /\ UNCHANGED <<store, binding, job, known, minted, logins, granted,
                 again, raced, flowVars>>

\* HandleLogin for an application with a custom page: the pending login is
\* stored first, then the binding cookie is set; the request can be cut off
\* between the two.
HandleCustomLogin(q, b, f, s) ==
  /\ authreq[q] # None
  /\ authreq[q].client \in Custom
  /\ f \notin minted
  /\ minted' = minted \cup {f}
  /\ pending' = [pending EXCEPT ![f] = [request |-> q, source |-> s]]
  /\ \/ /\ binding' = [binding EXCEPT ![b] = f]
        /\ Record([request |-> q, client |-> authreq[q].client, source |-> s,
                   browser |-> b])
     \/ "crash" \in Fault /\ UNCHANGED <<binding, begun>>
  /\ UNCHANGED <<authreq, codes, overdue, flowCookie, job, known,
                 logins, granted, again, raced, flowVars>>

-----------------------------------------------------------------------------
(* The hand-back from the login page *)

\* The oidc_flow cookie is there, signed and young, and names the request that
\* came back as the state parameter.
CallbackAccepted(b, q) == flowCookie[b] # None /\ flowCookie[b].request = q

\* Mutant: the source the application has by now.
CallbackSource_Current(b, q) == CHOOSE s \in Source : TRUE

\* The pool whose token endpoint and keys the callback uses.
CallbackSource(b, q) == flowCookie[b].source

\* HandleCallback up to the Get of CompleteAuthRequest: the code has been
\* exchanged at the source's pool and the ID token of u verified.
HandleCallback(h, b, q, u) ==
  /\ CallbackAccepted(b, q)
  /\ authreq[q] # None
  /\ Begin(h, [Idle EXCEPT !.pc = "complete", !.request = q,
                           !.row = authreq[q], !.browser = b,
                           !.source = CallbackSource(b, q), !.user = u])
  /\ UNCHANGED <<store, browserVars, history>>

\* Mutant: any browser may post a flow's state.
Bound_Any(b, f) == TRUE

\* verifyLoginBinding: the browser's cookie was minted for this very flow.
Bound(b, f) == binding[b] = f

\* HandleLoginComplete up to its read of the pending login. The token posted
\* is u's at pool s: at another pool than the pending login's it will not
\* verify, which is found out after the pending login is deleted.
HandleLoginComplete(h, b, f, s, u) ==
  /\ Bound(b, f)
  /\ pending[f] # None /\ f \notin overdue
  /\ Begin(h, [Idle EXCEPT !.pc = "consume", !.request = pending[f].request,
                           !.flow = f, !.browser = b,
                           !.source = pending[f].source,
                           !.user = IF s = pending[f].source THEN u ELSE None])
  /\ UNCHANGED <<store, browserVars, history>>

\* The single-use Delete; its error is dropped.
Consume(h) ==
  /\ job[h].pc = "consume"
  /\ \/ /\ pending' = [pending EXCEPT ![job[h].flow] = None]
        /\ flowRaced' = IF HoldsFlow(job[h].flow) # {h}
                        THEN flowRaced \cup {job[h].flow} ELSE flowRaced
     \/ /\ "dropPending" \in Fault
        /\ flowRaced' = flowRaced \cup {job[h].flow}
        /\ UNCHANGED pending
  /\ Goto(h, "load")
  /\ UNCHANGED <<authreq, codes, overdue, browserVars, known, minted,
                 begun, logins, granted, again, raced, consumed, reused>>

\* The token is verified and CompleteAuthRequest reads the request. The answer
\* clears the binding cookie, whatever flow it is for by now.
LoadRequest(h) ==
  /\ job[h].pc = "load"
  /\ IF job[h].user = None \/ authreq[job[h].request] = None
     THEN /\ Finish(h)
          /\ binding' = [binding EXCEPT ![job[h].browser] = None]
     ELSE /\ job' = [job EXCEPT ![h].pc = "complete",
                                ![h].row = authreq[job[h].request]]
          /\ UNCHANGED binding
  /\ UNCHANGED <<store, flowCookie, history>>

\* CompleteAuthRequest puts the row it read back as done. A success clears the
\* flow cookie of the browser; the binding cookie is cleared in any case.
CompleteAuthRequest(h) ==
  /\ job[h].pc = "complete"
  /\ LET j == job[h] IN
     \/ /\ authreq' = [authreq EXCEPT ![j.request] =
                       [j.row EXCEPT !.user = j.user]]
        /\ logins' = logins \cup {[request |-> j.request, source |-> j.source,
                                   browser |-> j.browser, user |-> j.user]}
        /\ flowCookie' = IF j.flow = None
                         THEN [flowCookie EXCEPT ![j.browser] = None]
                         ELSE flowCookie
        /\ consumed' = IF j.flow = None THEN consumed ELSE consumed \cup {j.flow}
        /\ reused' = IF j.flow \in consumed THEN reused \cup {j.flow} ELSE reused
     \/ /\ "putRequest" \in Fault
        /\ UNCHANGED <<authreq, logins, flowCookie, consumed, reused>>
  /\ binding' = IF job[h].flow = None THEN binding
                ELSE [binding EXCEPT ![job[h].browser] = None]
  /\ Finish(h)
  /\ UNCHANGED <<codes, pending, overdue, known, minted, begun,
                 granted, again, raced, flowRaced>>

-----------------------------------------------------------------------------
(* The code *)

\* Mutant: the authorize callback does not look at IsDone.
Completed_Any(row) == row # None

\* GET /authorize/callback answers with a code for a completed request only.
Completed(row) == row # None /\ row.user # None

\* The authorize callback of zitadel/oidc: AuthRequestByID, then a new code.
AuthorizeCallback(h, q, c) ==
  /\ Completed(authreq[q])
  /\ c \notin minted
  /\ minted' = minted \cup {c}
  /\ Begin(h, [Idle EXCEPT !.pc = "saveCode", !.request = q, !.code = c])
  /\ UNCHANGED <<store, browserVars, known, begun, logins, granted,
                 again, raced, flowVars>>

\* SaveAuthCode, the code's own item. A failed Put ends the request.
SaveCode(h) ==
  /\ job[h].pc = "saveCode"
  /\ \/ /\ codes' = [codes EXCEPT ![job[h].code] = job[h].request]
        /\ Goto(h, "readBack")
     \/ "putCode" \in Fault /\ Finish(h) /\ UNCHANGED codes
  /\ UNCHANGED <<authreq, pending, overdue, browserVars, history>>

\* SaveAuthCode reads the request to note the code on it; an error skips that.
ReadBack(h) ==
  /\ job[h].pc = "readBack"
  /\ \/ /\ authreq[job[h].request] # None
        /\ job' = [job EXCEPT ![h].pc = "writeBack",
                              ![h].row = authreq[job[h].request]]
        /\ UNCHANGED known
     \/ /\ authreq[job[h].request] = None \/ "readBack" \in Fault
        /\ Finish(h)
        /\ known' = known \cup {job[h].code}
  /\ UNCHANGED <<store, browserVars, minted, begun, logins, granted,
                 again, raced, flowVars>>

\* SaveAuthCode puts the row it read back, with the code; the error is dropped
\* and the code is on its way to the relying party.
WriteBack(h) ==
  /\ job[h].pc = "writeBack"
  /\ \/ authreq' = [authreq EXCEPT ![job[h].request] =
                      [job[h].row EXCEPT !.code = job[h].code]]
     \/ "putRequest" \in Fault /\ UNCHANGED authreq
  /\ known' = known \cup {job[h].code}
  /\ Finish(h)
  /\ UNCHANGED <<codes, pending, overdue, browserVars, minted, begun,
                 logins, granted, again, raced, flowVars>>

-----------------------------------------------------------------------------
(* The code exchange *)

\* POST /token: the client is authenticated, AuthRequestByCode reads the code's
\* item. Neither it nor the request is checked against its own TTL.
StartExchange(h, client, c) ==
  /\ c \in known
  /\ codes[c] # None
  /\ Begin(h, [Idle EXCEPT !.pc = "request", !.request = codes[c],
                           !.code = c, !.client = client])
  /\ UNCHANGED <<store, browserVars, history>>

\* Mutant: the code of another client is accepted.
SameClient_Any(row, client) == TRUE

\* The code was issued to the client that presents it.
SameClient(row, client) == row.client = client

\* AuthRequestByCode reads the request; the tokens are minted for its user.
ReadRequest(h) ==
  /\ job[h].pc = "request"
  /\ LET row == authreq[job[h].request] IN
     IF row # None /\ SameClient(row, job[h].client)
     THEN job' = [job EXCEPT ![h].pc = "dropRead", ![h].user = row.user]
     ELSE Finish(h)
  /\ UNCHANGED <<store, browserVars, history>>

\* DeleteAuthRequest reads the request for the code noted on it.
DropRead(h) ==
  /\ job[h].pc = "dropRead"
  /\ LET row == authreq[job[h].request] IN
     job' = IF row # None /\ row.code # None
            THEN [job EXCEPT ![h].pc = "dropCode", ![h].row = row]
            ELSE [job EXCEPT ![h].pc = "dropRequest"]
  /\ UNCHANGED <<store, browserVars, history>>

\* DeleteAuthRequest deletes the noted code; the error is dropped.
DropCode(h) ==
  /\ job[h].pc = "dropCode"
  /\ \/ codes' = [codes EXCEPT ![job[h].row.code] = None]
     \/ "dropCode" \in Fault /\ UNCHANGED codes
  /\ Goto(h, "dropRequest")
  /\ UNCHANGED <<authreq, pending, overdue, browserVars, history>>

\* Mutant: the exchange only forgets the code.
WithoutRequest_Kept(q) == authreq

WithoutRequest(q) == [authreq EXCEPT ![q] = None]

\* DeleteAuthRequest deletes the request and the tokens are answered; when
\* that Delete fails the exchange fails, its tokens minted but not delivered.
DropRequest(h) ==
  /\ job[h].pc = "dropRequest"
  /\ LET q == job[h].request IN
     \/ /\ authreq' = WithoutRequest(q)
        /\ granted' = granted \cup {[request |-> q, client |-> job[h].client,
                                     user |-> job[h].user]}
        /\ again' = IF \E g \in granted : g.request = q
                    THEN again \cup {q} ELSE again
        /\ raced' = IF HoldsRow(q) # {h} THEN raced \cup {q} ELSE raced
     \/ "dropRequest" \in Fault /\ UNCHANGED <<authreq, granted, again, raced>>
  /\ Finish(h)
  /\ UNCHANGED <<codes, pending, overdue, browserVars, known, minted,
                 begun, logins, flowVars>>

-----------------------------------------------------------------------------
(* The environment *)

\* PendingLoginStore.Get honours the expiry of a pending login itself.
Pass(f) ==
  /\ f \notin overdue /\ pending[f] # None
  /\ overdue' = overdue \cup {f}
  /\ UNCHANGED <<authreq, codes, pending, browserVars, job, history>>

\* DynamoDB deletes a row some time after its TTL.
ReapRequest(q) ==
  /\ authreq[q] # None
  /\ authreq' = [authreq EXCEPT ![q] = None]
  /\ UNCHANGED <<codes, pending, overdue, browserVars, job, history>>

ReapCode(c) ==
  /\ codes[c] # None
  /\ codes' = [codes EXCEPT ![c] = None]
  /\ UNCHANGED <<authreq, pending, overdue, browserVars, job, history>>

\* A browser drops its cookies after 10 minutes, when the server no longer
\* accepts them either.
DropCookies(b) ==
  /\ flowCookie[b] # None \/ binding[b] # None
  /\ flowCookie' = [flowCookie EXCEPT ![b] = None]
  /\ binding' = [binding EXCEPT ![b] = None]
  /\ UNCHANGED <<store, job, history>>

\* The request is cut off: whatever it wrote stays, the rest is never done.
Crash(h) ==
  /\ "crash" \in Fault
  /\ job[h].pc # "idle"
  /\ Finish(h)
  /\ UNCHANGED <<store, browserVars, history>>

Step(h) ==
  \/ Consume(h) \/ LoadRequest(h) \/ CompleteAuthRequest(h)
  \/ SaveCode(h) \/ ReadBack(h) \/ WriteBack(h)
  \/ ReadRequest(h) \/ DropRead(h) \/ DropCode(h) \/ DropRequest(h)
  \/ Crash(h)

Start(h) ==
  \/ \E b \in Browser, q \in Request, u \in Subject : HandleCallback(h, b, q, u)
  \/ \E b \in Browser, f \in Flow, s \in Source, u \in Subject :
       HandleLoginComplete(h, b, f, s, u)
  \/ \E q \in Request, c \in Code : AuthorizeCallback(h, q, c)
  \/ \E c \in Client, code \in Code : StartExchange(h, c, code)

Redirect ==
  \/ \E q \in Request, c \in Client : CreateAuthRequest(q, c)
  \/ \E q \in Request, b \in Browser, s \in Source :
       \/ HandleLogin(q, b, s)
       \/ \E f \in Flow : HandleCustomLogin(q, b, f, s)

Environment ==
  \/ \E f \in Flow : Pass(f)
  \/ \E q \in Request : ReapRequest(q)
  \/ \E c \in Code : ReapCode(c)
  \/ \E b \in Browser : DropCookies(b)

Next ==
  \/ Redirect
  \/ \E h \in Handler : Start(h) \/ Step(h)
  \/ Environment

Spec == Init /\ [][Next]_vars

-----------------------------------------------------------------------------
(* Properties *)

\* Tokens are answered to the client the request was made for, and only for a
\* user who logged in for that request; whatever rows are overwritten, deleted
\* and put back in between (HandleCallback, SaveAuthCode, DeleteAuthRequest).
GrantIsAuthenticated ==
  \A g \in granted :
    /\ \E r \in begun : r.request = g.request /\ r.client = g.client
    /\ \E l \in logins : l.request = g.request /\ l.user = g.user

\* A login completes a request only in the browser that was sent to the login
\* page for it, with a token of the source it was sent to, though the
\* application may have moved to another source in the meantime (the oidc_flow
\* cookie, the pending login and its binding cookie).
LoginBoundToBrowser ==
  \A l \in logins : \E r \in begun :
    r.request = l.request /\ r.source = l.source /\ r.browser = l.browser

\* A second token response for one request needs a handler that had already
\* read the request when the first exchange deleted it: a concurrent exchange,
\* or a put that brought the row back (AuthRequestByCode, DeleteAuthRequest,
\* SaveAuthCode, CompleteAuthRequest). And a pending login completes a request
\* twice only when its Delete failed or two completions had read it
\* (HandleLoginComplete).
SingleUse == again \subseteq raced /\ reused \subseteq flowRaced

CompletionStays ==
  \A q \in Request :
    Done(authreq[q]) /\ authreq'[q] # None
      => Done(authreq'[q]) /\ authreq'[q].client = authreq[q].client

\* No overwrite of the request loses its completion, though each writer puts
\* the whole row it read some calls ago: the code is written only by a handler
\* that found the request completed (SaveAuthCode against CompleteAuthRequest).
CompletionNotLost == [][CompletionStays]_vars

ConsumedByStarter ==
  \A f \in Flow :
    pending[f] # None /\ pending'[f] = None
      => \/ f \in overdue
         \/ \E r \in begun, h \in Handler :
              /\ job[h].flow = f /\ job[h].browser = r.browser
              /\ r.request = pending[f].request

\* A hand-back posted from another browser does not use up the pending login:
\* the browser that was redirected can still finish (HandleLoginComplete
\* verifies the binding before it touches the pending login).
ForeignPostConsumesNothing == [][ConsumedByStarter]_vars
=============================================================================
