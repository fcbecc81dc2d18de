----------------------------- MODULE MCApiServer -----------------------------
EXTENDS ApiServer, TLC

CONSTANTS east, eastPod, west, legacy, lease1, t1, t2, t3

MCOwner == [h \in Holder |-> IF h = west THEN "west" ELSE "east"]

MCFiles == {t1 :> "east" @@ t2 :> "west", t2 :> "east", <<>>}

MCClaims ==
  t1 :> [required |-> TRUE, tenant |-> <<"east">>] @@
  t2 :> [required |-> FALSE, tenant |-> <<"west">>] @@
  t3 :> [required |-> TRUE, tenant |-> <<>>]

\* Everything a request may get wrong, alone and together.
AnyInput ==
  [op |-> {"acquire", "renew", "release"}, bearer |-> {t1, t2, t3},
   body |-> {"ok", "malformed", "huge"}, holder |-> Holder \cup {NoHolder},
   ttl |-> {0, 1}, token |-> {-1, 0, 1}, key |-> {lease1, BadKey}]

\* Well-formed requests.
GoodInput ==
  [op |-> {"acquire", "renew", "release"}, bearer |-> {t1, t2, t3}, body |-> {"ok"},
   holder |-> {east, west}, ttl |-> {1}, token |-> {1, 2}, key |-> {lease1}]

\* One kind of request, to watch the keys change.
ReloadInput ==
  [op |-> {"acquire"}, bearer |-> {t1}, body |-> {"ok"}, holder |-> {east}, ttl |-> {1},
   token |-> {0}, key |-> {lease1}]

\* With two requests, only the first token is ever right.
Static ==
  [mode |-> "static-keys", input |-> [GoodInput EXCEPT !.token = {1}],
   requests |-> 2, edits |-> 1, clock |-> 2]

OIDC ==
  [mode |-> "oidc", input |-> GoodInput, requests |-> 3, edits |-> 0, clock |-> 2]

CheckOrder ==
  [mode |-> "static-keys", input |-> AnyInput, requests |-> 1, edits |-> 0, clock |-> 0]

Reloads ==
  [mode |-> "static-keys", input |-> ReloadInput, requests |-> 2, edits |-> 3, clock |-> 0]

\* Without authentication every caller is trusted.
Open ==
  [mode |-> "none", input |-> [GoodInput EXCEPT !.token = {1}], requests |-> 2, edits |-> 0, clock |-> 2]

MCSetups == {Static, OIDC, CheckOrder, Reloads, Open}
=============================================================================
