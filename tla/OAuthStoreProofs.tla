-------------------------- MODULE OAuthStoreProofs --------------------------
(***************************************************************************)
(* Proofs about OAuthStore, for any clients, codes, tokens and requests,   *)
(* any times to live and any number of crashes.                            *)
(*                                                                         *)
(* Three strengthenings make the properties inductive.  Known: what is in  *)
(* a map, in the file or held by a request was drawn, so a fresh value is  *)
(* in none of them.  OneHolder: a code that was drawn is in the maps, or   *)
(* held by one request, or the origin of one token, never two of these.    *)
(* Loaded: a process that read the file also has in memory what was sent.  *)
(***************************************************************************)
EXTENDS OAuthStore, TLAPS

Holds(r, c) == req[r].pc = "issuing" /\ req[r].code = c

Known ==
  /\ memCodes \subseteq made
  /\ diskCodes \subseteq made
  /\ memTokens \subseteq made \union {Static}
  /\ diskTokens \subseteq made
  /\ revoked \subseteq made
  /\ \A r \in Requests, c \in Codes : Holds(r, c) => c \in made
  /\ \A t \in Tokens : tokenOf[t].code \in made \union {NoCode}
  /\ \A t \in Tokens : t \notin made => tokenOf[t].code = NoCode

OneHolder ==
  /\ \A r, q \in Requests, c \in Codes : Holds(r, c) /\ Holds(q, c) => r = q
  /\ \A r \in Requests, c \in Codes :
       Holds(r, c) => /\ c \notin memCodes
                      /\ c \notin diskCodes
                      /\ \A t \in Tokens : tokenOf[t].code # c
  /\ \A t \in Tokens : tokenOf[t].code \notin memCodes /\ tokenOf[t].code \notin diskCodes
  /\ \A t, u \in Tokens :
       tokenOf[t].code = tokenOf[u].code /\ tokenOf[t].code # NoCode => t = u

Loaded ==
  (up /\ ~blind /\ ~overwritten) =>
    /\ handed \intersect ClientIDs \subseteq memClients
    /\ \A c \in (handed \intersect Codes) \ presented :
         now <= codeOf[c].expires => c \in memCodes
    /\ \A t \in (handed \intersect Tokens) \ revoked :
         now <= tokenOf[t].expires => t \in memTokens

(* What every handler that saves does to the maps and to the file.         *)
LEMMA PersistFacts ==
  ASSUME NEW saved \in BOOLEAN, NEW cs, NEW ks, NEW ts, Persist(saved, cs, ks, ts)
  PROVE  /\ memClients' = cs
         /\ \A c : c \in memCodes' <=> c \in ks /\ now <= codeOf'[c].expires
         /\ \A t : t \in memTokens' <=>
                     t \in ts /\ (t = Static \/ now <= tokenOf'[t].expires)
         /\ saved => /\ diskClients' = cs
                     /\ diskCodes' = memCodes'
                     /\ diskTokens' = memTokens' \ {Static}
                     /\ unsaved' = revoked' \intersect memTokens'
         /\ ~saved => /\ diskClients' = diskClients
                      /\ diskCodes' = diskCodes
                      /\ diskTokens' = diskTokens
                      /\ unsaved' = unsaved \union (revoked' \ revoked)
         /\ overwritten' = (overwritten \/ (saved /\ blind))
BY DEF Persist, LiveCodes, LiveTokens, disk
-----------------------------------------------------------------------------
(* Type correctness.                                                       *)

LEMMA InitType == Init => TypeOK
<1> SUFFICES ASSUME Init PROVE TypeOK OBVIOUS
<1>1. req \in [Requests -> [pc : {"idle", "issuing"}, code : Codes \union {NoCode}]]
  BY DEF Init, Idle
<1>2. DOMAIN codeOf = Codes /\ \A c \in Codes : codeOf[c].expires \in Nat
  BY DEF Init, NoCodeYet
<1>3. /\ DOMAIN tokenOf = Tokens
      /\ \A t \in Tokens : tokenOf[t].expires \in Nat /\ tokenOf[t].code \in Codes \union {NoCode}
  BY DEF Init, NoTokenYet
<1> QED BY <1>1, <1>2, <1>3 DEF Init, TypeOK

LEMMA TypeStep == TypeOK /\ [Next]_vars => TypeOK'
<1> SUFFICES ASSUME TypeOK, [Next]_vars PROVE TypeOK' OBVIOUS
<1> USE OAuthAssumption
<1>1. CASE Register
  <2>1. PICK i \in ClientIDs \ made, uris \in RedirectLists, saved \in BOOLEAN :
          /\ made' = made \union {i}
          /\ UNCHANGED <<codeOf, tokenOf, req, now, process, presented, revoked>>
          /\ Persist(saved, memClients \union {i}, memCodes, memTokens)
          /\ HandOut(saved, i)
    BY <1>1 DEF Register
  <2> QED BY <2>1, PersistFacts DEF TypeOK, process, HandOut
<1>2. ASSUME NEW asked, Grant(asked) PROVE TypeOK'
  <2>1. PICK c \in Codes \ made, saved \in BOOLEAN :
          /\ codeOf' = [codeOf EXCEPT ![c] =
                          [client |-> asked.client, redirect |-> asked.redirect,
                           challenge |-> asked.challenge, method |-> asked.method,
                           expires |-> now + CodeTTL]]
          /\ made' = made \union {c}
          /\ UNCHANGED <<redirects, tokenOf, req, now, process, presented, revoked>>
          /\ Persist(saved, memClients, memCodes \union {c}, memTokens)
          /\ HandOut(saved, c)
    BY <1>2 DEF Grant
  <2>2. DOMAIN codeOf' = Codes /\ \A k \in Codes : codeOf'[k].expires \in Nat
    BY <2>1 DEF TypeOK
  <2> QED BY <2>1, <2>2, PersistFacts DEF TypeOK, process, HandOut
<1>3. CASE Authorize BY <1>2, <1>3 DEF Authorize
<1>4. CASE AuthorizeCallback BY <1>2, <1>4 DEF AuthorizeCallback
<1>5. ASSUME NEW r \in Requests, Redeem(r) PROVE TypeOK'
  <2>1. PICK c \in memCodes, form \in Forms, saved \in BOOLEAN :
          /\ req' = [req EXCEPT ![r] = IF /\ saved
                                          /\ now <= codeOf[c].expires
                                          /\ Matches(form, codeOf[c])
                                       THEN Issuing(c) ELSE Idle]
          /\ presented' = presented \union {c}
          /\ UNCHANGED <<fields, now, process, made, handed, revoked>>
          /\ Persist(saved, memClients, memCodes \ {c}, memTokens)
    BY <1>5 DEF Redeem
  <2>2. req' \in [Requests -> [pc : {"idle", "issuing"}, code : Codes \union {NoCode}]]
    BY <2>1 DEF TypeOK, Idle, Issuing
  <2> QED BY <2>1, <2>2, PersistFacts DEF TypeOK, process, fields
<1>6. ASSUME NEW r \in Requests, ManageAccessToken(r) PROVE TypeOK'
  <2>1. req' \in [Requests -> [pc : {"idle", "issuing"}, code : Codes \union {NoCode}]]
    BY <1>6 DEF ManageAccessToken, ManageIssue, Issuing, TypeOK
  <2> QED BY <1>6, <2>1 DEF ManageAccessToken, TypeOK, disk, fields, process, history, saving
<1>7. ASSUME NEW r \in Requests, IssueToken(r) PROVE TypeOK'
  <2>1. PICK t \in Tokens \ made, saved \in BOOLEAN :
          /\ tokenOf' = [tokenOf EXCEPT ![t] =
                           [code |-> req[r].code, expires |-> now + TokenTTL,
                            client |-> IF req[r].code = NoCode THEN ManageClient
                                       ELSE codeOf[req[r].code].client]]
          /\ made' = made \union {t}
          /\ req' = [req EXCEPT ![r] = Idle]
          /\ UNCHANGED <<redirects, codeOf, now, process, presented, revoked>>
          /\ Persist(saved, memClients, memCodes, memTokens \union {t})
          /\ HandOut(saved, t)
    BY <1>7 DEF IssueToken
  <2>2. req' \in [Requests -> [pc : {"idle", "issuing"}, code : Codes \union {NoCode}]]
    BY <2>1 DEF TypeOK, Idle
  <2>3. req[r].code \in Codes \union {NoCode}
    BY DEF TypeOK
  <2>4. /\ DOMAIN tokenOf' = Tokens
        /\ \A u \in Tokens : /\ tokenOf'[u].expires \in Nat
                             /\ tokenOf'[u].code \in Codes \union {NoCode}
    BY <2>1, <2>3 DEF TypeOK
  <2> QED BY <2>1, <2>2, <2>4, PersistFacts DEF TypeOK, process, HandOut
<1>8. ASSUME NEW r \in Requests, IssueFails(r) PROVE TypeOK'
  BY <1>8 DEF IssueFails, TypeOK, Idle, memory, disk, fields, process, history, saving
<1>9. CASE Revoke
  <2>1. PICK t \in memTokens \ {Static}, saved \in BOOLEAN :
          /\ revoked' = revoked \union {t}
          /\ UNCHANGED <<fields, req, now, process, made, handed, presented>>
          /\ Persist(saved, memClients, memCodes, memTokens \ {t})
    BY <1>9 DEF Revoke
  <2> QED BY <2>1, PersistFacts DEF TypeOK, process, fields
<1>10. CASE Tick
  BY <1>10 DEF Tick, TypeOK, memory, disk, fields, process, history, saving
<1>11. CASE Crash
  BY <1>11 DEF Crash, TypeOK, Idle, disk, fields, history, saving
<1>12. CASE Restart
  BY <1>12 DEF Restart, TypeOK, LiveCodes, LiveTokens, disk, fields, history, saving
<1>13. CASE UNCHANGED vars
  BY <1>13 DEF vars, TypeOK, memory, disk, fields, process, history, saving
<1> QED
  BY <1>1, <1>3, <1>4, <1>5, <1>6, <1>7, <1>8, <1>9, <1>10, <1>11, <1>12, <1>13 DEF Next

(* Every variable keeps its type: in particular only what was drawn is     *)
(* ever sent, and the configured token never enters the file.              *)
THEOREM TypeCorrect == Spec => []TypeOK
BY InitType, TypeStep, PTL DEF Spec
-----------------------------------------------------------------------------
(* The safety properties.                                                  *)

Safe == Known /\ OneHolder /\ Loaded /\ HandedOutIsDurable /\ RevocationSticks

LEMMA InitSafe == Init => Safe
<1> SUFFICES ASSUME Init PROVE Safe OBVIOUS
<1> USE OAuthAssumption
<1>1. \A r \in Requests, c \in Codes : ~Holds(r, c)
  BY DEF Init, Idle, Holds
<1>2. \A t \in Tokens : tokenOf[t].code = NoCode
  BY DEF Init, NoTokenYet
<1>3. Known
  BY <1>1, <1>2 DEF Init, Known
<1>4. OneHolder
  BY <1>1, <1>2 DEF Init, OneHolder
<1>5. Loaded /\ HandedOutIsDurable
  BY DEF Init, Loaded, HandedOutIsDurable, LiveCodes, LiveTokens
<1>6. RevocationSticks
  BY DEF Init, RevocationSticks, Valid, LiveTokens
<1> QED BY <1>3, <1>4, <1>5, <1>6 DEF Safe

LEMMA RegisterStep ==
  ASSUME TypeOK, TypeOK', Safe, Register
  PROVE  Safe'
<1> USE OAuthAssumption
<1>1. PICK i \in ClientIDs \ made, uris \in RedirectLists, saved \in BOOLEAN :
        /\ up
        /\ made' = made \union {i}
        /\ UNCHANGED <<codeOf, tokenOf, req, now, process, presented, revoked>>
        /\ Persist(saved, memClients \union {i}, memCodes, memTokens)
        /\ HandOut(saved, i)
  BY DEF Register
<1>2. Known'
  BY <1>1, PersistFacts DEF TypeOK, Safe, Known, Holds
<1>3. OneHolder'
  BY <1>1, PersistFacts DEF TypeOK, Safe, OneHolder, Holds
<1>4. Loaded'
  BY <1>1, PersistFacts DEF TypeOK, Safe, Loaded, HandOut, process
<1>5. HandedOutIsDurable'
  BY <1>1, <1>4, PersistFacts
  DEF TypeOK, Safe, Loaded, HandedOutIsDurable, HandOut, process, LiveCodes, LiveTokens, Valid
<1>6. RevocationSticks'
  BY <1>1, PersistFacts DEF TypeOK, Safe, Known, RevocationSticks, Valid, LiveTokens, process
<1> QED BY <1>2, <1>3, <1>4, <1>5, <1>6 DEF Safe

LEMMA GrantStep ==
  ASSUME TypeOK, TypeOK', Safe, NEW asked, Grant(asked)
  PROVE  Safe'
<1> USE OAuthAssumption
<1>1. PICK c \in Codes \ made, saved \in BOOLEAN :
        /\ up
        /\ codeOf' = [codeOf EXCEPT ![c] =
                        [client |-> asked.client, redirect |-> asked.redirect,
                         challenge |-> asked.challenge, method |-> asked.method,
                         expires |-> now + CodeTTL]]
        /\ made' = made \union {c}
        /\ UNCHANGED <<redirects, tokenOf, req, now, process, presented, revoked>>
        /\ Persist(saved, memClients, memCodes \union {c}, memTokens)
        /\ HandOut(saved, c)
  BY DEF Grant
<1>2. /\ codeOf'[c].expires = now + CodeTTL
      /\ now <= now + CodeTTL
      /\ \A k \in Codes \ {c} : codeOf'[k] = codeOf[k]
  BY <1>1 DEF TypeOK
<1>3. Known'
  BY <1>1, PersistFacts DEF TypeOK, Safe, Known, Holds
<1>4. OneHolder'
  BY <1>1, PersistFacts DEF TypeOK, Safe, Known, OneHolder, Holds
<1>5. Loaded'
  BY <1>1, <1>2, PersistFacts DEF TypeOK, Safe, Loaded, HandOut, process
<1>6. HandedOutIsDurable'
  BY <1>1, <1>2, <1>5, PersistFacts
  DEF TypeOK, Safe, Loaded, HandedOutIsDurable, HandOut, process, LiveCodes, LiveTokens, Valid
<1>7. RevocationSticks'
  BY <1>1, PersistFacts DEF TypeOK, Safe, Known, RevocationSticks, Valid, LiveTokens, process
<1> QED BY <1>3, <1>4, <1>5, <1>6, <1>7 DEF Safe

LEMMA RedeemStep ==
  ASSUME TypeOK, TypeOK', Safe, NEW r \in Requests, Redeem(r)
  PROVE  Safe'
<1> USE OAuthAssumption
<1>1. PICK c \in memCodes, form \in Forms, saved \in BOOLEAN :
        /\ up
        /\ req[r].pc = "idle"
        /\ req' = [req EXCEPT ![r] = IF /\ saved
                                        /\ now <= codeOf[c].expires
                                        /\ Matches(form, codeOf[c])
                                     THEN Issuing(c) ELSE Idle]
        /\ presented' = presented \union {c}
        /\ UNCHANGED <<fields, now, process, made, handed, revoked>>
        /\ Persist(saved, memClients, memCodes \ {c}, memTokens)
  BY DEF Redeem
<1>2. c \in Codes
  BY DEF TypeOK
<1>3. \A q \in Requests, k \in Codes :
        Holds(q, k)' => \/ Holds(q, k) /\ q # r
                        \/ q = r /\ k = c /\ saved
  BY <1>1 DEF Holds, Issuing, Idle, TypeOK
<1>4. /\ c \notin memCodes' /\ memCodes' \subseteq memCodes
      /\ saved => diskCodes' = memCodes'
      /\ ~saved => diskCodes' = diskCodes
  BY <1>1, PersistFacts
<1>5. Known'
  BY <1>1, <1>2, <1>3, PersistFacts DEF TypeOK, Safe, Known, fields
<1>6. OneHolder'
  BY <1>1, <1>2, <1>3, <1>4 DEF TypeOK, Safe, OneHolder, fields
<1>7. Loaded'
  BY <1>1, PersistFacts DEF TypeOK, Safe, Loaded, process, fields
<1>8. HandedOutIsDurable'
  BY <1>1, <1>7, PersistFacts
  DEF TypeOK, Safe, Loaded, HandedOutIsDurable, process, fields, LiveCodes, LiveTokens, Valid
<1>9. RevocationSticks'
  BY <1>1, PersistFacts DEF TypeOK, Safe, RevocationSticks, Valid, LiveTokens, process, fields
<1> QED BY <1>5, <1>6, <1>7, <1>8, <1>9 DEF Safe

LEMMA IssueStep ==
  ASSUME TypeOK, TypeOK', Safe, NEW r \in Requests, IssueToken(r)
  PROVE  Safe'
<1> USE OAuthAssumption
<1>1. PICK t \in Tokens \ made, saved \in BOOLEAN :
        /\ up
        /\ req[r].pc = "issuing"
        /\ tokenOf' = [tokenOf EXCEPT ![t] =
                         [code |-> req[r].code, expires |-> now + TokenTTL,
                          client |-> IF req[r].code = NoCode THEN ManageClient
                                     ELSE codeOf[req[r].code].client]]
        /\ made' = made \union {t}
        /\ req' = [req EXCEPT ![r] = Idle]
        /\ UNCHANGED <<redirects, codeOf, now, process, presented, revoked>>
        /\ Persist(saved, memClients, memCodes, memTokens \union {t})
        /\ HandOut(saved, t)
  BY DEF IssueToken
<1>2. /\ tokenOf'[t].code = req[r].code
      /\ tokenOf'[t].expires = now + TokenTTL
      /\ now <= now + TokenTTL
      /\ \A u \in Tokens \ {t} : tokenOf'[u] = tokenOf[u]
  BY <1>1 DEF TypeOK
<1>3. \A q \in Requests, k \in Codes : Holds(q, k)' => Holds(q, k) /\ q # r
  BY <1>1 DEF Holds, Idle, TypeOK
<1>4. \/ req[r].code = NoCode
      \/ req[r].code \in Codes /\ Holds(r, req[r].code)
  BY <1>1 DEF TypeOK, Holds
<1>5. Known'
  BY <1>1, <1>2, <1>3, <1>4, PersistFacts DEF TypeOK, Safe, Known
<1>6. OneHolder'
  <2>1. memCodes' \subseteq memCodes /\ (diskCodes' = memCodes' \/ diskCodes' = diskCodes)
    BY <1>1, PersistFacts
  <2>2. \A q, p \in Requests, k \in Codes : Holds(q, k)' /\ Holds(p, k)' => q = p
    BY <1>3 DEF Safe, OneHolder
  <2>3. \A q \in Requests, k \in Codes :
          Holds(q, k)' => /\ k \notin memCodes'
                          /\ k \notin diskCodes'
                          /\ \A u \in Tokens : tokenOf'[u].code # k
    BY <1>2, <1>3, <1>4, <2>1 DEF Safe, OneHolder
  <2>4. \A u \in Tokens : tokenOf'[u].code \notin memCodes' /\ tokenOf'[u].code \notin diskCodes'
    BY <1>2, <1>4, <2>1 DEF Safe, OneHolder, TypeOK
  <2>5. \A u, v \in Tokens :
          tokenOf'[u].code = tokenOf'[v].code /\ tokenOf'[u].code # NoCode => u = v
    BY <1>2, <1>4 DEF Safe, OneHolder
  <2> QED BY <2>2, <2>3, <2>4, <2>5 DEF OneHolder
<1>7. Loaded'
  BY <1>1, <1>2, PersistFacts DEF TypeOK, Safe, Loaded, HandOut, process
<1>8. HandedOutIsDurable'
  BY <1>1, <1>2, <1>7, PersistFacts
  DEF TypeOK, Safe, Loaded, HandedOutIsDurable, HandOut, process, LiveCodes, LiveTokens, Valid
<1>9. RevocationSticks'
  BY <1>1, <1>2, PersistFacts DEF TypeOK, Safe, Known, RevocationSticks, Valid, LiveTokens, process
<1> QED BY <1>5, <1>6, <1>7, <1>8, <1>9 DEF Safe

LEMMA RevokeStep ==
  ASSUME TypeOK, TypeOK', Safe, Revoke
  PROVE  Safe'
<1> USE OAuthAssumption
<1>1. PICK t \in memTokens \ {Static}, saved \in BOOLEAN :
        /\ up
        /\ revoked' = revoked \union {t}
        /\ UNCHANGED <<fields, req, now, process, made, handed, presented>>
        /\ Persist(saved, memClients, memCodes, memTokens \ {t})
  BY DEF Revoke
<1>2. Known'
  BY <1>1, PersistFacts DEF TypeOK, Safe, Known, Holds, fields
<1>3. OneHolder'
  BY <1>1, PersistFacts DEF TypeOK, Safe, OneHolder, Holds, fields
<1>4. Loaded'
  BY <1>1, PersistFacts DEF TypeOK, Safe, Loaded, process, fields
<1>5. HandedOutIsDurable'
  BY <1>1, <1>4, PersistFacts
  DEF TypeOK, Safe, Loaded, HandedOutIsDurable, process, fields, LiveCodes, LiveTokens, Valid
<1>6. RevocationSticks'
  BY <1>1, PersistFacts DEF TypeOK, Safe, RevocationSticks, Valid, LiveTokens, process, fields
<1> QED BY <1>2, <1>3, <1>4, <1>5, <1>6 DEF Safe

LEMMA RestartStep ==
  ASSUME TypeOK, TypeOK', Safe, Restart
  PROVE  Safe'
<1> USE OAuthAssumption
<1>1. PICK read \in BOOLEAN :
        /\ blind' = ~read
        /\ memClients' = IF read THEN diskClients ELSE {}
        /\ memCodes' = IF read THEN LiveCodes(diskCodes, codeOf) ELSE {}
        /\ memTokens' = {Static} \union IF read THEN LiveTokens(diskTokens, tokenOf) ELSE {}
  BY DEF Restart
<1>2. UNCHANGED <<disk, fields, req, now, crashes, history, saving>>
  BY DEF Restart
<1>3. Known'
  BY <1>1, <1>2 DEF TypeOK, Safe, Known, Holds, LiveCodes, LiveTokens, disk, fields, history
<1>4. OneHolder'
  BY <1>1, <1>2 DEF TypeOK, Safe, OneHolder, Holds, LiveCodes, disk, fields
<1>5. Loaded'
  BY <1>1, <1>2
  DEF Safe, Loaded, HandedOutIsDurable, LiveCodes, LiveTokens, disk, fields, history, saving
<1>6. HandedOutIsDurable'
  BY <1>1, <1>2
  DEF Safe, HandedOutIsDurable, LiveCodes, LiveTokens, Valid, disk, fields, history, saving
<1>7. RevocationSticks'
  BY <1>1, <1>2
  DEF TypeOK, Safe, RevocationSticks, LiveTokens, Valid, disk, fields, history, saving
<1> QED BY <1>3, <1>4, <1>5, <1>6, <1>7 DEF Safe

(* Steps that leave the maps, the file and the history alone, or empty the *)
(* maps, or only let time pass.                                            *)
LEMMA QuietStep ==
  ASSUME TypeOK, TypeOK', Safe,
         \/ \E r \in Requests : ManageAccessToken(r) \/ IssueFails(r)
         \/ Tick \/ Crash \/ UNCHANGED vars
  PROVE  Safe'
<1> USE OAuthAssumption
<1>1. ASSUME NEW r \in Requests, ManageAccessToken(r) PROVE Safe'
  <2>1. \A q \in Requests, k \in Codes : Holds(q, k)' => Holds(q, k)
    BY <1>1 DEF ManageAccessToken, ManageIssue, Issuing, Holds, TypeOK
  <2> USE <1>1 DEF ManageAccessToken, disk, fields, process, history, saving
  <2>2. Known' BY <2>1 DEF Safe, Known
  <2>3. OneHolder' BY <2>1 DEF Safe, OneHolder
  <2>4. Loaded' BY DEF Safe, Loaded
  <2>5. HandedOutIsDurable'
    BY DEF Safe, HandedOutIsDurable, LiveCodes, LiveTokens, Valid
  <2>6. RevocationSticks' BY DEF Safe, RevocationSticks, LiveTokens, Valid
  <2> QED BY <2>2, <2>3, <2>4, <2>5, <2>6 DEF Safe
<1>2. ASSUME NEW r \in Requests, IssueFails(r) PROVE Safe'
  <2>1. \A q \in Requests, k \in Codes : Holds(q, k)' => Holds(q, k)
    BY <1>2 DEF IssueFails, Idle, Holds, TypeOK
  <2> USE <1>2 DEF IssueFails, memory, disk, fields, process, history, saving
  <2>2. Known' BY <2>1 DEF Safe, Known
  <2>3. OneHolder' BY <2>1 DEF Safe, OneHolder
  <2>4. Loaded' BY DEF Safe, Loaded
  <2>5. HandedOutIsDurable'
    BY DEF Safe, HandedOutIsDurable, LiveCodes, LiveTokens, Valid
  <2>6. RevocationSticks' BY DEF Safe, RevocationSticks, LiveTokens, Valid
  <2> QED BY <2>2, <2>3, <2>4, <2>5, <2>6 DEF Safe
<1>3. CASE Tick
  <2> USE <1>3 DEF Tick, memory, disk, fields, process, history, saving
  <2>1. \A n \in Nat : now' <= n => now <= n BY DEF TypeOK
  <2>2. Known' BY DEF Safe, Known, Holds
  <2>3. OneHolder' BY DEF Safe, OneHolder, Holds
  <2>4. Loaded' BY <2>1 DEF TypeOK, Safe, Loaded
  <2>5. HandedOutIsDurable'
    BY <2>1 DEF TypeOK, Safe, HandedOutIsDurable, LiveCodes, LiveTokens, Valid
  <2>6. RevocationSticks' BY DEF Safe, RevocationSticks, LiveTokens, Valid
  <2> QED BY <2>2, <2>3, <2>4, <2>5, <2>6 DEF Safe
<1>4. CASE Crash
  <2> USE <1>4 DEF Crash, disk, fields, history, saving
  <2>1. \A q \in Requests, k \in Codes : ~Holds(q, k)' BY DEF Idle, Holds
  <2>2. Known' BY <2>1 DEF Safe, Known
  <2>3. OneHolder' BY <2>1 DEF Safe, OneHolder
  <2>4. Loaded' BY DEF Loaded
  <2>5. HandedOutIsDurable'
    BY DEF Safe, HandedOutIsDurable, LiveCodes, LiveTokens, Valid
  <2>6. RevocationSticks' BY DEF Safe, RevocationSticks
  <2> QED BY <2>2, <2>3, <2>4, <2>5, <2>6 DEF Safe
<1>5. CASE UNCHANGED vars
  <2> USE <1>5 DEF vars, memory, disk, fields, process, history, saving
  <2>1. (Known /\ OneHolder)' BY DEF Safe, Known, OneHolder, Holds
  <2>2. (Loaded /\ HandedOutIsDurable)'
    BY DEF Safe, Loaded, HandedOutIsDurable, LiveCodes, LiveTokens, Valid
  <2>3. RevocationSticks' BY DEF Safe, RevocationSticks, LiveTokens, Valid
  <2> QED BY <2>1, <2>2, <2>3 DEF Safe
<1> QED BY <1>1, <1>2, <1>3, <1>4, <1>5

LEMMA SafeStep == TypeOK /\ TypeOK' /\ Safe /\ [Next]_vars => Safe'
<1> SUFFICES ASSUME TypeOK, TypeOK', Safe, [Next]_vars PROVE Safe' OBVIOUS
<1>1. CASE Register BY <1>1, RegisterStep
<1>2. CASE Authorize BY <1>2, GrantStep DEF Authorize
<1>3. CASE AuthorizeCallback BY <1>3, GrantStep DEF AuthorizeCallback
<1>4. CASE Revoke BY <1>4, RevokeStep
<1>5. ASSUME NEW r \in Requests, Redeem(r) PROVE Safe' BY <1>5, RedeemStep
<1>6. ASSUME NEW r \in Requests, IssueToken(r) PROVE Safe' BY <1>6, IssueStep
<1>7. CASE Restart BY <1>7, RestartStep
<1>8. CASE \/ \E r \in Requests : ManageAccessToken(r) \/ IssueFails(r)
          \/ Tick \/ Crash \/ UNCHANGED vars
  BY <1>8, QuietStep
<1> QED BY <1>1, <1>2, <1>3, <1>4, <1>5, <1>6, <1>7, <1>8 DEF Next

THEOREM AlwaysSafe == Spec => []Safe
BY InitType, InitSafe, TypeStep, SafeStep, PTL DEF Spec

(* An authorization code never yields two access tokens, for any number of *)
(* concurrent token requests, failed saves, crashes and restarts           *)
(* (connect_oauth.go:281-296, connect_public.go:345-380).                  *)
THEOREM SingleUse == Spec => []AtMostOneTokenPerCode
<1>1. Safe => AtMostOneTokenPerCode
  BY DEF Safe, OneHolder, AtMostOneTokenPerCode
<1> QED BY <1>1, AlwaysSafe, PTL

(* What was sent to a client is in the file until it expires, is used or   *)
(* revoked, unless a start that could not read the file saved over it      *)
(* (connect_oauth_store.go:96-133, server.go:51-53).                       *)
THEOREM Durability == Spec => []HandedOutIsDurable
<1>1. Safe => HandedOutIsDurable BY DEF Safe
<1> QED BY <1>1, AlwaysSafe, PTL

(* A revoked token only comes back while no save has succeeded since its   *)
(* revocation (connect_public.go:421-430).                                 *)
THEOREM Revocation == Spec => []RevocationSticks
<1>1. Safe => RevocationSticks BY DEF Safe
<1> QED BY <1>1, AlwaysSafe, PTL
=============================================================================
