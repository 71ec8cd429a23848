----------------------------- MODULE UserStore -----------------------------
(***************************************************************************)
(* The users table (adapter/dynamo_users.go) and its phone_number-index.   *)
(* Besides one row per registered user the table holds, for each           *)
(* registered phone, the row that makes the phone unique; both rows carry  *)
(* the attribute phone_number, so both are in the index.  Rows are never   *)
(* updated or deleted.                                                     *)
(***************************************************************************)
EXTENDS AuthDomain

CONSTANT IndexLag    \* whether an index may lag behind its table

ASSUME IndexAssumption == IndexLag \in BOOLEAN

VARIABLES
    users,        \* the rows of the table
    phoneIndex    \* the rows the index shows so far

userVars == <<users, phoneIndex>>

\* uuid.NewString() of registration r, and "phone#" + number
NewUserID(r)     == <<"user", r>>
SentinelID(p)    == <<"phone#", p>>
UserIDs          == ({"user"} \X Verifications) \cup ({"phone#"} \X Phones)
UserRow          == [user_id : UserIDs, phone_number : Phones]

\* A user_id is never the empty string that a missing attribute reads as.
ASSUME UserIDAssumption == None \notin UserIDs

UserTypeOK ==
    /\ users \in SUBSET UserRow
    /\ phoneIndex \in SUBSET UserRow

UserInit ==
    /\ users = {}
    /\ phoneIndex = {}

\* attribute_not_exists(user_id)
UserIDFree(id) == \A row \in users : row.user_id # id

\* Mutant: the whole index is scanned.
AllPhonesMatch(p) ==
    {row.user_id : row \in IF IndexLag THEN phoneIndex ELSE users}

\* The index entries FindByPhone queries: KeyConditionExpression
\* phone_number = :phone, in no particular order; it goes on with Items[0].
PhoneMatches(p) ==
    {row.user_id : row \in {x \in (IF IndexLag THEN phoneIndex ELSE users) :
                              x.phone_number = p}}

\* A row reaches the index some time after it was written.
PropagateUser ==
    /\ IndexLag
    /\ \E row \in users \ phoneIndex : phoneIndex' = phoneIndex \cup {row}
    /\ UNCHANGED users
=============================================================================
