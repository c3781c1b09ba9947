---------------------------- MODULE MCOAuthStore ----------------------------
(* A small instance of the OAuth store: one code, two tokens, two          *)
(* requests at a time, one client that registers a redirect.               *)
EXTENDS OAuthStore, TLC

CONSTANTS id, unknown, k1, t1, t2, q1, q2, uri, other, v

Ask(client, redirect, challenge, method) ==
  [client |-> client, redirect |-> redirect, challenge |-> challenge, method |-> method]
Form(client, redirect, verifier) ==
  [client |-> client, redirect |-> redirect, verifier |-> verifier]

MCClientIDs == {id}
MCCodes == {k1}
MCTokens == {t1, t2}
MCRequests == {q1, q2}
MCRedirectLists == {{uri}}
MCAuthorizeRequests == {Ask(id, uri, v, "S256"), Ask(id, other, v, "S256")}
MCCallbackRequests == {Ask(unknown, Absent, Absent, "S256")}
MCForms == {Form(id, uri, v), Form(Absent, other, Absent)}

Interchangeable == Permutations(MCTokens) \union Permutations(MCRequests)
=============================================================================
