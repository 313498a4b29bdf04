------------------------------- MODULE Accounts -------------------------------
(***************************************************************************)
(* Registration and e-mail verification: the credential store of the       *)
(* Authentication Service (auth.service.ts) and the directory of the       *)
(* User-Role Service (users.service.ts), two databases that a registration *)
(* writes one after the other.                                             *)
(*                                                                         *)
(* The directory is called over HTTP with a timeout, so that the answer of *)
(* a call that was carried out may be lost.  Passwords and the content of  *)
(* mails are left out; a code is the number of the mail it came with.      *)
(* That the directory locks users is in Sessions, where logins heed it.    *)
(*                                                                         *)
(* CompensateNever is a mutated form of the definition it precedes; no     *)
(* action uses it.                                                         *)
(***************************************************************************)
EXTENDS ServiceConstants

CONSTANTS
  Address,       \* e-mail addresses
  Signup,        \* bound: requests to register
  MaxMails       \* bound: codes that are sent

VARIABLES
  account,    \* by the request that created it: its row in the credential store
  entry,      \* by the id of the account: its row in the directory
  signup,     \* what each request to register is doing
  code,       \* otp:verify:<id>, 0 when there is none
  resent,     \* accounts with otp:resend:<id>
  verifying,  \* what the verifyEmail of an account that saw its right code does next
  posting,    \* codes stored and still to be mailed, or mailed and no next one put off yet
  mailed,     \* the accounts that each code was mailed to
  broken      \* history: requests whose process stopped, or whose compensation failed

accounts == <<account, entry, signup, code, resent, verifying, posting, mailed, broken>>
-----------------------------------------------------------------------------
(* The id of an account is drawn by the request that creates it. *)
Role == {"EMPLOYEE", "ADMIN"}

NoAccount == [there |-> FALSE, email |-> Nobody, role |-> "EMPLOYEE", verified |-> FALSE]
NoEntry == [there |-> FALSE, email |-> Nobody, role |-> "EMPLOYEE"]
Unasked == [pc |-> "new", email |-> Nobody, role |-> "EMPLOYEE", trusted |-> FALSE]

Init ==
  /\ account = [s \in Signup |-> NoAccount]
  /\ entry = [s \in Signup |-> NoEntry]
  /\ signup = [s \in Signup |-> Unasked]
  /\ code = [s \in Signup |-> 0]
  /\ resent = {} /\ posting = {}
  /\ verifying = [s \in Signup |-> "no"]
  /\ mailed = <<>>
  /\ broken = {}

(* email is unique in both databases. *)
Registered(a) == {s \in Signup : account[s].there /\ account[s].email = a}
Listed(a) == {s \in Signup : entry[s].there /\ entry[s].email = a}

Reach(s, pc) == signup' = [signup EXCEPT ![s].pc = pc]
-----------------------------------------------------------------------------
(* POST auth/register: employees only, and only if the address is free. *)
Register(s, a) ==
  /\ signup[s] = Unasked
  /\ signup' = [signup EXCEPT ![s] =
       [pc |-> IF Registered(a) = {} THEN "create" ELSE "refused",
        email |-> a, role |-> "EMPLOYEE", trusted |-> FALSE]]
  /\ UNCHANGED <<account, entry, code, resent, verifying, posting, mailed, broken>>

(* POST auth/admin/register, by an administrator. *)
RegisterAdmin(s, a) ==
  /\ signup[s] = Unasked
  /\ \E r \in Role :
       signup' = [signup EXCEPT ![s] = [pc |-> "create", email |-> a, role |-> r, trusted |-> TRUE]]
  /\ UNCHANGED <<account, entry, code, resent, verifying, posting, mailed, broken>>

(* The row of the credential store; P2002 if the address was taken         *)
(* meanwhile.                                                              *)
CreateAccount(s) ==
  /\ signup[s].pc = "create"
  /\ IF Registered(signup[s].email) = {}
     THEN /\ account' = [account EXCEPT ![s] =
                [there |-> TRUE, email |-> signup[s].email, role |-> signup[s].role,
                 verified |-> signup[s].trusted]]
          /\ Reach(s, "provision")
     ELSE Reach(s, "refused") /\ UNCHANGED account
  /\ UNCHANGED <<entry, code, resent, verifying, posting, mailed, broken>>

(* POST /users of the directory, which refuses an address it has.          *)
CreateUser(s) ==
  /\ Listed(signup[s].email) = {}
  /\ entry' = [entry EXCEPT ![s] =
       [there |-> TRUE, email |-> signup[s].email, role |-> signup[s].role]]

(* provisionUser: the directory does it, or refuses, or cannot be reached; *)
(* or does it and its answer is late.                                      *)
ProvisionUser(s) ==
  /\ signup[s].pc = "provision"
  /\ \/ CreateUser(s) /\ Reach(s, "provisioned")
     \/ CreateUser(s) /\ Reach(s, "compensate")
     \/ UNCHANGED entry /\ Reach(s, "compensate")
  /\ UNCHANGED <<account, code, resent, verifying, posting, mailed, broken>>

CompensateNever(s) ==
  /\ signup[s].pc = "compensate"
  /\ Reach(s, "failed")
  /\ UNCHANGED <<account, entry, code, resent, verifying, posting, mailed, broken>>

(* Whatever went wrong, the account is deleted again, so far as that goes. *)
Compensate(s) ==
  /\ signup[s].pc = "compensate"
  /\ Reach(s, "failed")
  /\ \/ account' = [account EXCEPT ![s] = NoAccount] /\ UNCHANGED broken
     \/ broken' = broken \cup {s} /\ UNCHANGED account
  /\ UNCHANGED <<entry, code, resent, verifying, posting, mailed>>

(* A trusted account needs no code.                                        *)
SkipCode(s) ==
  /\ signup[s].pc = "provisioned" /\ signup[s].trusted
  /\ Reach(s, "done")
  /\ UNCHANGED <<account, entry, code, resent, verifying, posting, mailed, broken>>

(* issueVerifyOtp: the code is stored, then mailed, and when the mail went *)
(* out, a next one put off; each of the three may fail.                    *)
IssueVerifyOtp(s) ==
  /\ Len(mailed) < MaxMails
  /\ code' = [code EXCEPT ![s] = Len(mailed) + 1]
  /\ mailed' = Append(mailed, {})
  /\ posting' = posting \cup {<<s, Len(mailed) + 1>>}

SendMail(s, n) ==
  /\ <<s, n>> \in posting /\ s \notin mailed[n]
  /\ mailed' = [mailed EXCEPT ![n] = @ \cup {s}]
  /\ UNCHANGED <<account, entry, signup, code, resent, verifying, posting, broken>>

PutOff(s, n) ==
  /\ <<s, n>> \in posting /\ s \in mailed[n]
  /\ resent' = resent \cup {s}
  /\ posting' = posting \ {<<s, n>>}
  /\ UNCHANGED <<account, entry, signup, code, verifying, mailed, broken>>

GiveUpPosting(s, n) ==
  /\ <<s, n>> \in posting
  /\ posting' = posting \ {<<s, n>>}
  /\ UNCHANGED <<account, entry, signup, code, resent, verifying, mailed, broken>>

(* The registration is answered once the mail is gone or has failed, and   *)
(* the same whichever it is.                                               *)
SendCode(s) ==
  /\ signup[s].pc = "provisioned" /\ ~signup[s].trusted
  /\ IssueVerifyOtp(s) \/ UNCHANGED <<code, mailed, posting>>
  /\ Reach(s, "done")
  /\ UNCHANGED <<account, entry, resent, verifying, broken>>

Stop(s) ==
  /\ signup[s].pc \in {"create", "provision", "compensate", "provisioned"}
  /\ Reach(s, "stopped")
  /\ broken' = broken \cup {s}
  /\ UNCHANGED <<account, entry, code, resent, verifying, posting, mailed>>
-----------------------------------------------------------------------------
(* POST auth/resend-otp and auth/verify-email *)
ResendOtp(s) ==
  /\ account[s].there /\ ~account[s].verified
  /\ s \notin resent
  /\ IssueVerifyOtp(s)
  /\ UNCHANGED <<account, entry, signup, resent, verifying, broken>>

(* The owner of the address knows the codes that were mailed to it. *)
SeeCode(s) ==
  /\ account[s].there /\ ~account[s].verified
  /\ code[s] # 0 /\ s \in mailed[code[s]]
  /\ verifying' = [verifying EXCEPT ![s] = "update"]
  /\ UNCHANGED <<account, entry, signup, code, resent, posting, mailed, broken>>

(* Updating a row that is gone throws. *)
VerifyEmail(s) ==
  /\ verifying[s] = "update"
  /\ IF account[s].there
     THEN /\ account' = [account EXCEPT ![s].verified = TRUE]
          /\ verifying' = [verifying EXCEPT ![s] = "code"]
     ELSE verifying' = [verifying EXCEPT ![s] = "no"] /\ UNCHANGED account
  /\ UNCHANGED <<entry, signup, code, resent, posting, mailed, broken>>

(* Then the two keys are deleted, one after the other, if Redis does it. *)
ForgetCode(s) ==
  /\ verifying[s] = "code"
  /\ \/ code' = [code EXCEPT ![s] = 0] /\ verifying' = [verifying EXCEPT ![s] = "resend"]
     \/ verifying' = [verifying EXCEPT ![s] = "no"] /\ UNCHANGED code
  /\ UNCHANGED <<account, entry, signup, resent, posting, mailed, broken>>

ForgetResend(s) ==
  /\ verifying[s] = "resend"
  /\ verifying' = [verifying EXCEPT ![s] = "no"]
  /\ resent' = resent \ {s} \/ resent' = resent
  /\ UNCHANGED <<account, entry, signup, code, posting, mailed, broken>>

(* Redis drops both keys in time.                                          *)
ExpireResend(s) ==
  /\ s \in resent
  /\ resent' = resent \ {s}
  /\ UNCHANGED <<account, entry, signup, code, verifying, posting, mailed, broken>>

ExpireCode(s) ==
  /\ code[s] # 0
  /\ code' = [code EXCEPT ![s] = 0]
  /\ UNCHANGED <<account, entry, signup, resent, verifying, posting, mailed, broken>>
-----------------------------------------------------------------------------
Next ==
  \E s \in Signup :
    \/ \E a \in Address : Register(s, a) \/ RegisterAdmin(s, a)
    \/ CreateAccount(s) \/ ProvisionUser(s) \/ Compensate(s) \/ SkipCode(s) \/ SendCode(s) \/ Stop(s)
    \/ ResendOtp(s) \/ SeeCode(s) \/ VerifyEmail(s) \/ ForgetCode(s) \/ ForgetResend(s)
    \/ ExpireResend(s) \/ ExpireCode(s)
    \/ \E n \in 1 .. MaxMails : SendMail(s, n) \/ PutOff(s, n) \/ GiveUpPosting(s, n)

Spec == Init /\ [][Next]_accounts
-----------------------------------------------------------------------------
(* Both databases and the requests are well typed. *)
TypeOK ==
  /\ account \in [Signup -> [there: BOOLEAN, email: Address \cup {Nobody}, role: Role, verified: BOOLEAN]]
  /\ entry \in [Signup -> [there: BOOLEAN, email: Address \cup {Nobody}, role: Role]]
  /\ signup \in [Signup ->
       [pc: {"new", "create", "provision", "compensate", "provisioned", "done", "refused", "failed", "stopped"},
        email: Address \cup {Nobody}, role: Role, trusted: BOOLEAN]]
  /\ code \in [Signup -> 0 .. MaxMails]
  /\ resent \in SUBSET Signup /\ broken \in SUBSET Signup
  /\ verifying \in [Signup -> {"no", "update", "code", "resend"}]
  /\ mailed \in Seq(SUBSET Signup) /\ Len(mailed) <= MaxMails
  /\ posting \subseteq Signup \X (1 .. Len(mailed))

(* An address has one account and one entry.  Whoever was answered with an *)
(* account has it, and the directory knows it by the same id, address and  *)
(* role; whoever was refused, or answered with a failure, has none, unless *)
(* a process stopped or the compensation failed.  The directory may keep   *)
(* an entry without an account - its answer is lost, the account deleted,  *)
(* the entry not - but only of a registration that was answered with a     *)
(* failure.  No address is verified but by a code that was mailed to it,   *)
(* or by an administrator.                                                 *)
NoAccountAlone ==
  /\ \A a \in Address : Cardinality(Registered(a)) <= 1 /\ Cardinality(Listed(a)) <= 1
  /\ \A s \in Signup \ broken :
       /\ signup[s].pc = "done" =>
            /\ account[s].there /\ entry[s].there
            /\ account[s].email = entry[s].email /\ account[s].role = entry[s].role
       /\ signup[s].pc \in {"refused", "failed"} => ~account[s].there
  /\ \A s \in Signup : entry[s].there /\ ~account[s].there => signup[s].pc = "failed"
  /\ \A s \in Signup : account[s].verified => signup[s].trusted \/ \E i \in DOMAIN mailed : s \in mailed[i]
=============================================================================
