----------------------------- MODULE MCAccounts -----------------------------
(* Accounts for TLC: browsers are alike, and so are the first              *)
(* administrators.                                                         *)
EXTENDS Accounts, TLC

Alike == {p \in Permutations(Clients \cup Founders) :
             \A c \in Clients : p[c] \in Clients}

(* An update of one thing, or of role and flag together.                   *)
Sent == {[NoBody EXCEPT !.role = "viewer"], [NoBody EXCEPT !.role = "admin"],
         [NoBody EXCEPT !.disabled = "yes"], [NoBody EXCEPT !.disabled = "no"],
         [NoBody EXCEPT !.reset = TRUE],
         [NoBody EXCEPT !.role = "viewer", !.disabled = "yes"]}

=============================================================================
