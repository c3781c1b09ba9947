---------------------------- MODULE MCManagePage ----------------------------
(* A small instance of the manage page: a login by code and a later one    *)
(* with its token, two requests for a code, and a login with a password.   *)
EXTENDS ManagePage

CONSTANTS beeper, staging

Orders ==
  {<<"request", "submit", "look", "login">>, <<"request", "request", "submit">>,
   <<"refresh", "login", "verify">>, <<"login", "mint">>}
=============================================================================
