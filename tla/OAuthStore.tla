----------------------------- MODULE OAuthStore -----------------------------
(***************************************************************************)
(* The OAuth clients, authorization codes and access tokens of             *)
(* internal/server/connect_oauth.go, connect_oauth_store.go and the OAuth  *)
(* handlers of connect_public.go: three maps in memory under oauthMu, and  *)
(* one state file that holds a copy of them, replaced as a whole.          *)
(*                                                                         *)
(* A critical section under oauthMu, its write of the file included, is    *)
(* one action.  Redeeming a code takes two of them, one to consume the     *)
(* code and one to store the token, and other requests, the clock or a     *)
(* crash may come in between.  Requests refused before they reach the maps *)
(* change nothing and have no action.                                      *)
(***************************************************************************)
EXTENDS Integers

CONSTANTS
  ClientIDs,             (* what registration may draw as client IDs       *)
  Codes,                 (* what may be drawn as authorization codes       *)
  Tokens,                (* what may be drawn as access tokens             *)
  Static,                (* the access token of the configuration          *)
  ManageClient,          (* oauthManageClientID                            *)
  NoCode,                (* the origin of a token made by the manage page  *)
  Absent,                (* a request parameter that is missing            *)
  Callback,              (* urn:beeper:oauth:callback                      *)
  RedirectLists,         (* the redirect_uris a client may register        *)
  AuthorizeRequests,     (* what GET /oauth/authorize may ask, see Grant   *)
  CallbackRequests,      (* what POST /oauth/authorize/callback may ask    *)
  Forms,                 (* what a token request may carry, see Matches    *)
  Requests,              (* the requests served at the same time           *)
  CodeTTL, TokenTTL,     (* oauthAuthorizationCodeTTL, oauthAccessTokenTTL *)
  MaxNow,                (* bound on the clock                             *)
  MaxCrashes             (* bound on the restarts                          *)

(* The three kinds of drawn values have different lengths: 12, 24 and 32   *)
(* random bytes.  A drawn value is taken to be one never drawn before.     *)
ASSUME OAuthAssumption ==
  /\ ClientIDs \intersect Codes = {}
  /\ ClientIDs \intersect Tokens = {}
  /\ Codes \intersect Tokens = {}
  /\ NoCode \notin Codes
  /\ Static \notin Tokens
  /\ CodeTTL \in Nat /\ TokenTTL \in Nat /\ MaxNow \in Nat /\ MaxCrashes \in Nat

VARIABLES
  memClients, diskClients,   (* oauthClients and its copy in the file      *)
  memCodes, diskCodes,       (* oauthCodes and its copy                    *)
  memTokens, diskTokens,     (* oauthTokens and its copy                   *)
  redirects,                 (* RedirectURIs of each registered client     *)
  codeOf,                    (* the fields of each code, once made         *)
  tokenOf,                   (* the fields of each token, once made        *)
  req,                       (* what each request has left to do           *)
  now,                       (* the clock                                  *)
  up,                        (* is the process running?                    *)
  blind,                     (* did it start without reading the file?     *)
  crashes,                   (* restarts so far                            *)
  made,                      (* history: client IDs, codes, tokens drawn   *)
  handed,                    (* history: those of them sent in an answer   *)
  presented,                 (* history: codes a token request has named   *)
  revoked,                   (* history: tokens somebody revoked           *)
  unsaved,                   (* history: revoked, and not yet saved so     *)
  overwritten                (* history: did a blind process save?         *)

memory == <<memClients, memCodes, memTokens>>
disk == <<diskClients, diskCodes, diskTokens>>
fields == <<redirects, codeOf, tokenOf>>
process == <<up, blind, crashes>>
history == <<made, handed, presented, revoked>>
saving == <<unsaved, overwritten>>
vars == <<memory, disk, fields, req, now, process, history, saving>>

Idle == [pc |-> "idle", code |-> NoCode]
Issuing(code) == [pc |-> "issuing", code |-> code]
ManageIssue == Issuing(NoCode)

(* A code lives until its expiry, that instant included.                   *)
LiveCodes(codes, info) == {c \in codes : now <= info[c].expires}
LiveTokens(tokens, info) == {t \in tokens : t = Static \/ now <= info[t].expires}

(* oauthTokenByValue: what authenticates a request.                        *)
Valid(t) == up /\ t \in LiveTokens(memTokens, tokenOf)

NoCodeYet == [client |-> Absent, redirect |-> Absent, challenge |-> Absent,
              method |-> Absent, expires |-> 0]
NoTokenYet == [code |-> NoCode, client |-> Absent, expires |-> 0]

Init ==
  /\ memClients = {} /\ diskClients = {}
  /\ memCodes = {} /\ diskCodes = {}
  /\ memTokens = {Static} /\ diskTokens = {}
  /\ redirects = [i \in ClientIDs |-> {}]
  /\ codeOf = [c \in Codes |-> NoCodeYet]
  /\ tokenOf = [t \in Tokens |-> NoTokenYet]
  /\ req = [r \in Requests |-> Idle]
  /\ now = 0
  /\ up = TRUE /\ blind = FALSE /\ crashes = 0
  /\ made = {} /\ handed = {} /\ presented = {} /\ revoked = {}
  /\ unsaved = {} /\ overwritten = FALSE
-----------------------------------------------------------------------------
(* persistOAuthStateLocked, called with the maps as the handler left them: *)
(* what has expired is dropped from memory, and what is then in memory,    *)
(* but the configured token, replaces the file, or the file stays as it    *)
(* was when any step before the rename fails.                              *)
Persist(saved, clients, codes, tokens) ==
  /\ memClients' = clients
  /\ memCodes' = LiveCodes(codes, codeOf')
  /\ memTokens' = LiveTokens(tokens, tokenOf')
  /\ IF saved
     THEN /\ diskClients' = clients
          /\ diskCodes' = memCodes'
          /\ diskTokens' = memTokens' \ {Static}
     ELSE UNCHANGED disk
  /\ unsaved' = IF saved THEN revoked' \intersect memTokens'
                         ELSE unsaved \union (revoked' \ revoked)
  /\ overwritten' = (overwritten \/ (saved /\ blind))

(* What the handler sends when its state was saved, and not otherwise.     *)
HandOut(saved, x) == handed' = IF saved THEN handed \union {x} ELSE handed

(* POST /oauth/register.                                                   *)
Register ==
  \E i \in ClientIDs \ made, uris \in RedirectLists, saved \in BOOLEAN :
    /\ up
    /\ redirects' = [redirects EXCEPT ![i] = uris]
    /\ made' = made \union {i}
    /\ UNCHANGED <<codeOf, tokenOf, req, now, process, presented, revoked>>
    /\ Persist(saved, memClients \union {i}, memCodes, memTokens)
    /\ HandOut(saved, i)

(* createAuthorizationCode for a request with the given fields.            *)
Grant(asked) ==
  \E c \in Codes \ made, saved \in BOOLEAN :
    /\ up
    /\ codeOf' = [codeOf EXCEPT ![c] =
                    [client |-> asked.client, redirect |-> asked.redirect,
                     challenge |-> asked.challenge, method |-> asked.method,
                     expires |-> now + CodeTTL]]
    /\ made' = made \union {c}
    /\ UNCHANGED <<redirects, tokenOf, req, now, process, presented, revoked>>
    /\ Persist(saved, memClients, memCodes \union {c}, memTokens)
    /\ HandOut(saved, c)

(* GET /oauth/authorize insists on an S256 challenge, and on a registered  *)
(* redirect only of the clients it knows that registered one.              *)
Authorize ==
  \E asked \in AuthorizeRequests :
    /\ asked.client # Absent /\ asked.redirect # Absent /\ asked.challenge # Absent
    /\ asked.method = "S256"
    /\ (asked.client \in memClients \intersect ClientIDs /\ redirects[asked.client] # {})
         => asked.redirect \in redirects[asked.client]
    /\ Grant(asked)

(* POST /oauth/authorize/callback insists on nothing.                      *)
AuthorizeCallback ==
  \E asked \in CallbackRequests : Grant([asked EXCEPT !.redirect = Callback])
-----------------------------------------------------------------------------
(* POST /oauth/token.                                                      *)

(* The checks of the token request against the code it names.              *)
Matches(form, code) ==
  /\ form.client # Absent /\ code.client # Absent => form.client = code.client
  /\ form.redirect # Absent /\ code.redirect \notin {Absent, Callback} =>
       form.redirect = code.redirect
  /\ code.challenge # Absent =>
       /\ code.method = "S256"
       /\ form.verifier = code.challenge

(* Mutant of Redeem: an error of the save is ignored.                      *)
RedeemUnsaved(r) ==
  \E c \in memCodes, form \in Forms, saved \in BOOLEAN :
    /\ up
    /\ req[r].pc = "idle"
    /\ req' = [req EXCEPT ![r] = IF now <= codeOf[c].expires /\ Matches(form, codeOf[c])
                                 THEN Issuing(c) ELSE Idle]
    /\ presented' = presented \union {c}
    /\ UNCHANGED <<fields, now, process, made, handed, revoked>>
    /\ Persist(saved, memClients, memCodes \ {c}, memTokens)

(* popAuthorizationCode deletes the code and saves before anything is      *)
(* checked: a request that then fails a check has used the code up.        *)
Redeem(r) ==
  \E c \in memCodes, form \in Forms, saved \in BOOLEAN :
    /\ up
    /\ req[r].pc = "idle"
    /\ req' = [req EXCEPT ![r] = IF /\ saved
                                    /\ now <= codeOf[c].expires
                                    /\ Matches(form, codeOf[c])
                                 THEN Issuing(c) ELSE Idle]
    /\ presented' = presented \union {c}
    /\ UNCHANGED <<fields, now, process, made, handed, revoked>>
    /\ Persist(saved, memClients, memCodes \ {c}, memTokens)

(* POST /manage/access-token adds its client to memory before it issues.   *)
ManageAccessToken(r) ==
  /\ up
  /\ req[r].pc = "idle"
  /\ memClients' = memClients \union {ManageClient}
  /\ req' = [req EXCEPT ![r] = ManageIssue]
  /\ UNCHANGED <<memCodes, memTokens, disk, fields, now, process, history, saving>>

(* Mutant of IssueToken: the token is sent although it was not saved.      *)
IssueUnsaved(r) ==
  \E t \in Tokens \ made, saved \in BOOLEAN :
    /\ up
    /\ req[r].pc = "issuing"
    /\ tokenOf' = [tokenOf EXCEPT ![t] =
                     [code |-> req[r].code, expires |-> now + TokenTTL,
                      client |-> IF req[r].code = NoCode THEN ManageClient
                                 ELSE codeOf[req[r].code].client]]
    /\ made' = made \union {t}
    /\ req' = [req EXCEPT ![r] = Idle]
    /\ UNCHANGED <<redirects, codeOf, now, process, presented, revoked>>
    /\ Persist(saved, memClients, memCodes, memTokens \union {t})
    /\ HandOut(TRUE, t)

(* issueOAuthAccessToken.  The token is in memory, and valid, even when it *)
(* could not be saved and is therefore not sent.                           *)
IssueToken(r) ==
  \E t \in Tokens \ made, saved \in BOOLEAN :
    /\ up
    /\ req[r].pc = "issuing"
    /\ tokenOf' = [tokenOf EXCEPT ![t] =
                     [code |-> req[r].code, expires |-> now + TokenTTL,
                      client |-> IF req[r].code = NoCode THEN ManageClient
                                 ELSE codeOf[req[r].code].client]]
    /\ made' = made \union {t}
    /\ req' = [req EXCEPT ![r] = Idle]
    /\ UNCHANGED <<redirects, codeOf, now, process, presented, revoked>>
    /\ Persist(saved, memClients, memCodes, memTokens \union {t})
    /\ HandOut(saved, t)

(* No random value could be drawn: the request fails, its code is gone.    *)
IssueFails(r) ==
  /\ up
  /\ req[r].pc = "issuing"
  /\ req' = [req EXCEPT ![r] = Idle]
  /\ UNCHANGED <<memory, disk, fields, now, process, history, saving>>
-----------------------------------------------------------------------------
(* Mutant of Revoke: the token is deleted from memory only.                *)
RevokeInMemory ==
  \E t \in memTokens \ {Static} :
    /\ up
    /\ revoked' = revoked \union {t}
    /\ memTokens' = memTokens \ {t}
    /\ UNCHANGED <<memClients, memCodes, disk, fields, req, now, process, made,
                   handed, presented, saving>>

(* POST /oauth/revoke marks the token, which the prune of the save removes *)
(* from memory; it succeeds whether the save does or not.                  *)
Revoke ==
  \E t \in memTokens \ {Static}, saved \in BOOLEAN :
    /\ up
    /\ revoked' = revoked \union {t}
    /\ UNCHANGED <<fields, req, now, process, made, handed, presented>>
    /\ Persist(saved, memClients, memCodes, memTokens \ {t})

Tick ==
  /\ now < MaxNow
  /\ now' = now + 1
  /\ UNCHANGED <<memory, disk, fields, req, process, history, saving>>

(* The process ends, wherever its requests are.                            *)
Crash ==
  /\ up
  /\ crashes < MaxCrashes
  /\ up' = FALSE
  /\ crashes' = crashes + 1
  /\ memClients' = {} /\ memCodes' = {} /\ memTokens' = {}
  /\ req' = [r \in Requests |-> Idle]
  /\ UNCHANGED <<disk, fields, now, blind, history, saving>>

(* New: the configured token, and what in the file has not expired.  A     *)
(* file that cannot be read is only logged: the process starts empty.      *)
Restart ==
  /\ ~up
  /\ up' = TRUE
  /\ \E read \in BOOLEAN :
       /\ blind' = ~read
       /\ memClients' = IF read THEN diskClients ELSE {}
       /\ memCodes' = IF read THEN LiveCodes(diskCodes, codeOf) ELSE {}
       /\ memTokens' = {Static} \union IF read THEN LiveTokens(diskTokens, tokenOf) ELSE {}
  /\ UNCHANGED <<disk, fields, req, now, crashes, history, saving>>

Next ==
  \/ Register \/ Authorize \/ AuthorizeCallback \/ Revoke
  \/ \E r \in Requests :
       Redeem(r) \/ ManageAccessToken(r) \/ IssueToken(r) \/ IssueFails(r)
  \/ Tick \/ Crash \/ Restart

Spec == Init /\ [][Next]_vars
-----------------------------------------------------------------------------
(* Properties.                                                             *)

TypeOK ==
  /\ memClients \subseteq ClientIDs \union {ManageClient}
  /\ diskClients \subseteq ClientIDs \union {ManageClient}
  /\ memCodes \subseteq Codes /\ diskCodes \subseteq Codes
  /\ memTokens \subseteq Tokens \union {Static}
  /\ diskTokens \subseteq Tokens
  /\ req \in [Requests -> [pc : {"idle", "issuing"}, code : Codes \union {NoCode}]]
  /\ DOMAIN codeOf = Codes
  /\ \A c \in Codes : codeOf[c].expires \in Nat
  /\ DOMAIN tokenOf = Tokens
  /\ \A t \in Tokens : tokenOf[t].expires \in Nat /\ tokenOf[t].code \in Codes \union {NoCode}
  /\ now \in Nat
  /\ up \in BOOLEAN /\ blind \in BOOLEAN /\ overwritten \in BOOLEAN
  /\ presented \subseteq Codes
  /\ revoked \subseteq Tokens /\ unsaved \subseteq Tokens
  /\ made \subseteq ClientIDs \union Codes \union Tokens
  /\ handed \subseteq made

(* No authorization code yields two access tokens, sent or not, however    *)
(* many requests present it at once and whatever crashes and failed saves  *)
(* come between its consumption and the issue (connect_oauth.go:281-296,   *)
(* connect_public.go:345-380).                                             *)
AtMostOneTokenPerCode ==
  \A t, u \in Tokens \intersect made :
    tokenOf[t].code = tokenOf[u].code /\ tokenOf[t].code # NoCode => t = u

(* What was sent in an answer survives: a client, a code until a request   *)
(* names it, and a token until it is revoked, codes and tokens until they  *)
(* expire.  It is in the file, and a token also authenticates requests,    *)
(* unless a start that could not read the file came in between             *)
(* (connect_oauth_store.go:94-133, server.go:51-53).                       *)
HandedOutIsDurable ==
  ~overwritten =>
    /\ handed \intersect ClientIDs \subseteq diskClients
    /\ LiveCodes((handed \intersect Codes) \ presented, codeOf) \subseteq diskCodes
    /\ \A t \in LiveTokens((handed \intersect Tokens) \ revoked, tokenOf) :
         /\ t \in diskTokens
         /\ up /\ ~blind => Valid(t)

(* A revoked token is gone for good once any save has succeeded since: it  *)
(* can only come back while its revocation is unsaved, by a restart. The   *)
(* configured token cannot be revoked (connect_public.go:421-430).         *)
RevocationSticks ==
  /\ \A t \in revoked : t \in memTokens \union diskTokens => t \in unsaved
  /\ up => Valid(Static)
=============================================================================
