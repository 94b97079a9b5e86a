------------------------------ MODULE Accounts ------------------------------
(***************************************************************************)
(* Accounts (backend/services/auth_service.go, over                        *)
(* repositories/user_repository.go and handlers/auth_handler.go).  A user  *)
(* is known by the email, a password stands for its hash.                  *)
(***************************************************************************)
EXTENDS Requests

CONSTANTS
  Users,        \* The users, by their email.
  Passwords, NoPassword,
  Registered    \* The accounts there are at first.

ASSUME AccountsAssumption ==
  /\ NoPassword \notin Passwords
  /\ Registered \in [Users -> Passwords \cup {NoPassword}]

VARIABLES
  account,      \* account[u]: the password of the account, if there is one.
  tokens,       \* The users for whom there is a token (which is stateless).
  form          \* form[r]: the email and the password that r sends.

accountVars == <<account, tokens, form>>

Form == [user : Users, password : Passwords]
NoForm == [user |-> "none", password |-> NoPassword]

AccountsInit ==
  /\ account = Registered
  /\ tokens = {u \in Users : Registered[u] # NoPassword}
  /\ form = [r \in Reqs |-> NoForm]

Submit(r, step, f) ==
  /\ form' = [form EXCEPT ![r] = f]
  /\ Goto(r, step)
  /\ UNCHANGED <<gone, faults, account, tokens>>

(* Register looks for the email (409 if there is one) ...                  *)
CheckEmail(r) ==
  /\ pc[r] = "register"
  /\ \/ /\ Works(r)
        /\ Goto(r, IF account[form[r].user] = NoPassword THEN "insert" ELSE "failed")
     \/ Fails(r) /\ Goto(r, "failed")
  /\ UNCHANGED accountVars

(* A change could make the INSERT overwrite on a conflict.                 *)
InsertUserUpserts(r) ==
  /\ pc[r] = "insert" /\ Works(r)
  /\ account' = [account EXCEPT ![form[r].user] = form[r].password] /\ Goto(r, "done")
  /\ UNCHANGED <<tokens, form>>

(* ... and inserts later, after it has made the hash.  The UNIQUE email    *)
(* refuses the second of two INSERTs.  One may commit though its request   *)
(* fails.                                                                  *)
InsertUser(r) ==
  LET u == form[r].user
      new == [account EXCEPT ![u] = form[r].password]
  IN  /\ pc[r] = "insert"
      /\ \/ Works(r) /\ account[u] = NoPassword /\ account' = new /\ Goto(r, "done")
         \/ Works(r) /\ account[u] # NoPassword /\ UNCHANGED account /\ Goto(r, "failed")
         \/ /\ Fails(r) /\ Goto(r, "failed")
            /\ account' \in {account, IF account[u] = NoPassword THEN new ELSE account}
      /\ UNCHANGED <<tokens, form>>

Login(r) ==
  LET u == form[r].user IN
  /\ pc[r] = "login"
  /\ \/ /\ Works(r) /\ account[u] = form[r].password
        /\ tokens' = tokens \cup {u} /\ Goto(r, "done")
     \/ Works(r) /\ account[u] # form[r].password /\ UNCHANGED tokens /\ Goto(r, "failed")
     \/ Fails(r) /\ UNCHANGED tokens /\ Goto(r, "failed")
  /\ UNCHANGED <<account, form>>

AccountStep(r) == CheckEmail(r) \/ InsertUser(r) \/ Login(r)
=============================================================================
