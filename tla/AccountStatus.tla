---------------------------- MODULE AccountStatus ----------------------------
(***************************************************************************)
(* The sign-in status of an account (ad/api.py _derive_status over         *)
(* ad/attributes.py): facts that are derived from the attributes of one    *)
(* directory entry, of which the reader may not be allowed to see all.     *)
(*                                                                         *)
(* A wire value is what the facts tell apart: flags for the two account    *)
(* control attributes, and for a FILETIME zero, the highest value, an      *)
(* instant that has or has not passed, or one that no datetime can hold.   *)
(***************************************************************************)
EXTENDS FiniteSets

Attribute == {"uac", "computed", "lockoutTime", "expiry", "pwdLastSet", "accountExpires"}
Filetime == {"zero", "max", "past", "future", "beyond"}

-----------------------------------------------------------------------------
(* An account, and the entry a controller makes of it.                     *)

Account ==
  [disabled : BOOLEAN, lockout : {"none", "lapsed", "active"}, neverExpires : BOOLEAN,
   passwordEnds : {"past", "future"}, mustChange : BOOLEAN,
   accountEnds : Filetime]

PasswordOver(a) == ~a.neverExpires /\ (a.mustChange \/ a.passwordEnds = "past")

Value(a, attribute) ==
  CASE attribute = "uac" -> [disabled |-> a.disabled, never |-> a.neverExpires]
    [] attribute = "computed" -> [locked |-> a.lockout = "active", expired |-> PasswordOver(a)]
    [] attribute = "lockoutTime" -> IF a.lockout = "none" THEN "zero" ELSE "past"
    [] attribute = "expiry" -> IF a.neverExpires THEN "max"
                               ELSE IF a.mustChange THEN "zero" ELSE a.passwordEnds
    [] attribute = "pwdLastSet" -> IF a.mustChange THEN "zero" ELSE "past"
    [] attribute = "accountExpires" -> a.accountEnds

\* Why this account cannot sign in.
Blocked(a) ==
  (IF a.disabled THEN {"disabled"} ELSE {})
  \cup (IF a.lockout = "active" THEN {"locked_out"} ELSE {})
  \cup (IF PasswordOver(a) THEN {"password_expired"} ELSE {})
  \cup (IF a.mustChange THEN {"must_change_password"} ELSE {})
  \cup (IF a.accountEnds = "past" THEN {"account_expired"} ELSE {})

-----------------------------------------------------------------------------
(* Facts are "yes", "no" or "null"; v is the value of the attribute, if it *)
(* can be seen.                                                            *)

Fact(b) == IF b THEN "yes" ELSE "no"

\* is_never_filetime, and filetime_to_datetime of what is an instant.
IsNever(v) == v \in {"zero", "max"}
Instant(v) == v \in {"past", "future"}

Enabled(see) == IF "uac" \in DOMAIN see THEN Fact(~see["uac"].disabled) ELSE "null"

Locked(see) ==
  IF "computed" \in DOMAIN see THEN Fact(see["computed"].locked)
  ELSE IF "lockoutTime" \in DOMAIN see THEN Fact(Instant(see["lockoutTime"]))
  ELSE "null"

\* Mutant: a recorded lockout is taken for a lockout.
StaleNever(see) == FALSE

\* Without the controller's own answer a recorded lockout may have lapsed.
StalePossible(see) == "computed" \notin DOMAIN see /\ Locked(see) = "yes"

NeverExpires(see) ==
  \/ "uac" \in DOMAIN see /\ see["uac"].never
  \/ "expiry" \in DOMAIN see /\ IsNever(see["expiry"])

\* Mutant: a password of which nothing is known has not expired.
PasswordExpiredGuessed(see) ==
  IF "computed" \in DOMAIN see THEN Fact(see["computed"].expired)
  ELSE IF NeverExpires(see) \/ "expiry" \notin DOMAIN see THEN "no"
  ELSE Fact(see["expiry"] = "past")

PasswordExpired(see) ==
  IF "computed" \in DOMAIN see THEN Fact(see["computed"].expired)
  ELSE IF NeverExpires(see) THEN "no"
  ELSE IF "expiry" \in DOMAIN see /\ Instant(see["expiry"]) THEN Fact(see["expiry"] = "past")
  ELSE "null"

MustChange(see) ==
  IF "pwdLastSet" \in DOMAIN see THEN Fact(see["pwdLastSet"] = "zero") ELSE "null"

\* An expiry that is no datetime leaves the fact open.
AccountExpired(see) ==
  IF "accountExpires" \notin DOMAIN see THEN "null"
  ELSE IF IsNever(see["accountExpires"]) THEN "no"
  ELSE IF Instant(see["accountExpires"]) THEN Fact(see["accountExpires"] = "past")
  ELSE "null"

\* Facts that are listed as unavailable: all that are null, but for the expiry
\* of an account that was read and is no datetime.
Unavailable(see) ==
  (IF Enabled(see) = "null" THEN {"enabled"} ELSE {})
  \cup (IF Locked(see) = "null" THEN {"locked"} ELSE {})
  \cup (IF PasswordExpired(see) = "null" THEN {"password_expired"} ELSE {})
  \cup (IF MustChange(see) = "null" THEN {"must_change_password"} ELSE {})
  \cup (IF "accountExpires" \notin DOMAIN see THEN {"account_expired"} ELSE {})

Blockers(see) ==
  (IF Enabled(see) = "no" THEN {"disabled"} ELSE {})
  \cup (IF Locked(see) = "yes" THEN {"locked_out"} ELSE {})
  \cup (IF PasswordExpired(see) = "yes" THEN {"password_expired"} ELSE {})
  \cup (IF MustChange(see) = "yes" THEN {"must_change_password"} ELSE {})
  \cup (IF AccountExpired(see) = "yes" THEN {"account_expired"} ELSE {})

\* _derive_status, of an account of which the reader may see some attributes.
Derive(a, visible) ==
  LET see == [attribute \in visible |-> Value(a, attribute)] IN
    [blockers |-> Blockers(see), unavailable |-> Unavailable(see),
     stale |-> StalePossible(see),
     facts |-> <<Enabled(see), Locked(see), PasswordExpired(see), AccountExpired(see)>>]

-----------------------------------------------------------------------------
FactOf(blocker) ==
  CASE blocker = "disabled" -> "enabled" [] blocker = "locked_out" -> "locked"
    [] OTHER -> blocker

\* FR-009 and US1: what a report names as a blocker keeps the account from
\* signing in, but for a lockout that is marked as possibly stale; and what
\* keeps it is named, or its fact is listed as unavailable, whichever attributes
\* the reader may see.  (A password that has to be changed counts as expired for
\* the controller: to name the one is enough.)
Faithful(report, blocked) ==
  LET named == report.blockers
      told  == named \cup {b \in blocked : FactOf(b) \in report.unavailable}
  IN /\ named \ blocked \subseteq IF report.stale THEN {"locked_out"} ELSE {}
     /\ blocked \ told \subseteq
          IF "must_change_password" \in told THEN {"password_expired"} ELSE {}
=============================================================================
