------------------------------ MODULE SshAuth ------------------------------
(***************************************************************************)
(* The patched sshd of the GEX containers (base/ssh): authentication of    *)
(* one connection by protocol 1 (12/auth1.c) or 2 (12/auth2.c), and PAM    *)
(* (auth-pam_next.c), whose conversation runs in a forked process, the     *)
(* "thread", that talks to sshd over a socket pair.                        *)
(*                                                                         *)
(* Privilege separation is off: PRIVSEP(f) is f.  An unknown user gets a   *)
(* fake password entry and counts as valid, so PAM decides about everyone. *)
(***************************************************************************)
EXTENDS Naturals, Sequences

CONSTANTS
  User, Root,           \* names of users; Root has uid 0
  MaxAuthtries,         \* options.max_authtries
  MaxMsgs,              \* bound: messages of one PAM conversation
  MaxAttempts           \* bound: requests of the client

ASSUME SshAssumption ==
  /\ Root \in User /\ "NULL" \notin User
  /\ MaxAuthtries \in Nat \ {0} /\ MaxMsgs \in Nat /\ MaxAttempts \in Nat

VARIABLES
  options,              \* compat20, permit_empty_passwd, permit_root
  state,                \* where sshd is
  user, method, attempt, failures,
  handle,               \* sshpam_handle: the user it is for, or "NULL"
  account,              \* sshpam_account_status: "unknown" is -1
  pwchange,             \* force_pwchange
  authenticated, session, cred,   \* sshpam_authenticated, _session_open, _cred_established
  done,                 \* pam_done
  cleanup,              \* cleanup_ctxt is set
  sigchld,              \* disposition of SIGCHLD: "old", "pam", "default"
  thread,               \* the PAM process
  copy,                 \* account and pwchange as the process has them
  psock, csock,         \* messages to sshd and to the process
  text,                 \* sshpam_query has accumulated messages
  msgs,                 \* messages of this conversation so far
  proved                \* a method accepted the user, in this attempt

connVars == <<user, method, attempt, failures>>
sessVars == <<authenticated, session, cred>>
threadVars == <<thread, copy, psock, csock, msgs>>
ctxVars == <<done, cleanup, sigchld, text>>
vars == <<options, state, connVars, handle, account, pwchange, sessVars, ctxVars, threadVars, proved>>

Running == {"auth", "authwait", "acct", "chauthtok", "chwait"}
Zombie == {"exited", "crashed"}
AfterSuccess == {"success", "cred", "session", "shell"}
Over == {"closed", "dead", "done"}

-----------------------------------------------------------------------------
(* Account management, and the end of an attempt. *)

\* Mutant: any status but 0 is taken for an answer.
KnownAccountWrong(st) == st[1] # "denied"

\* sshpam_account_status is not -1.
KnownAccount(st) == st[1] # "unknown"

\* The answers of do_pam_account for a pair of account status and password flag.
do_pam_account(st) ==
  IF KnownAccount(st) THEN {st} ELSE {<<"ok", st[2]>>, <<"ok", TRUE>>, <<"denied", st[2]>>}

\* auth_root_allowed.
RootAllowed(m) == options.permit_root = "yes" \/ (options.permit_root = "without-password" /\ m = "pubkey")

\* The first try of "none" in protocol 2 is free.
Penalty(a, m) == ~options.compat20 \/ a > 1 \/ m # "none"

TooMany(f) == f >= MaxAuthtries

Failed(a, m, st) ==
  /\ failures' = IF Penalty(a, m) THEN failures + 1 ELSE failures
  /\ state' = IF TooMany(failures') THEN "closed" ELSE "auth"
  /\ account' = st[1] /\ pwchange' = st[2]

\* The end of an attempt a by method m of user u, in userauth_finish and in
\* do_authloop: ok is what the method said, st the account status so far.
userauth_finish(ok, u, a, m, st) ==
  IF ok /\ (u = Root => RootAllowed(m))
  THEN \E r \in do_pam_account(st) :
         /\ account' = r[1] /\ pwchange' = r[2]
         /\ state' = IF r[1] = "denied" THEN "closed" ELSE "success"
         /\ UNCHANGED failures
  ELSE Failed(a, m, st)

Status == <<account, pwchange>>

-----------------------------------------------------------------------------
(* The PAM process. *)

NoThread == thread' = "none" /\ copy' = <<"unknown", FALSE>> /\ psock' = <<>> /\ csock' = <<>> /\ msgs' = 0

\* The process ends.  sshd's handler reaps it if sshd has got as far as linking
\* the context; a process that did not end well takes sshd with it.
ThreadEnds(how) ==
  /\ sigchld' = IF sigchld = "pam" THEN "default" ELSE sigchld
  /\ thread' = IF sigchld = "pam" /\ cleanup THEN "reaped" ELSE how
  /\ state' = IF sigchld = "pam" /\ cleanup /\ how = "crashed" THEN "dead" ELSE state
  /\ csock' = <<>>
  /\ UNCHANGED <<done, cleanup, text>>

SshdKeeps == UNCHANGED <<options, connVars, handle, account, pwchange, sessVars>>

Prompted(t) == IF t = "auth" THEN "authwait" ELSE "chwait"

\* sshpam_thread_conv: a message, or a prompt and the wait for its answer.
sshpam_thread_conv ==
  /\ thread \in {"auth", "chauthtok"} /\ msgs < MaxMsgs
  /\ msgs' = msgs + 1
  /\ \/ psock' = Append(psock, <<"info">>) /\ thread' = thread
     \/ /\ psock' = Append(psock, <<"prompt">>)
        /\ thread' = Prompted(thread)
  /\ SshdKeeps /\ UNCHANGED <<state, ctxVars, copy, csock, proved>>

ThreadRecv ==
  /\ thread \in {"authwait", "chwait"} /\ csock # <<>>
  /\ csock' = Tail(csock)
  /\ thread' = IF thread = "authwait" THEN "auth" ELSE "chauthtok"
  /\ SshdKeeps /\ UNCHANGED <<state, ctxVars, copy, psock, msgs, proved>>

\* Mutant: the end of the file is no failure of the conversation.
ConvFailsNot == FALSE

\* ssh_msg_recv fails since sshd is gone.
ConvFails == thread \in {"authwait", "chwait"} /\ csock = <<>> /\ state \in Over

\* auth_fail: PAM said no, or the conversation failed.
ThreadFails ==
  /\ \/ thread \in {"auth", "chauthtok"}
     \/ ConvFails
  /\ psock' = Append(psock, <<"autherr">>)
  /\ ThreadEnds("exited")
  /\ SshdKeeps /\ UNCHANGED <<copy, msgs, proved>>

ThreadSucceeds == psock' = Append(psock, <<"ok", copy'[1], copy'[2]>>) /\ ThreadEnds("exited")

\* pam_authenticate succeeds; protocol 1 has its account checked by sshd.
ThreadAuthenticated ==
  /\ thread = "auth"
  /\ proved' = TRUE
  /\ IF options.compat20
     THEN thread' = "acct" /\ UNCHANGED <<psock, csock, copy, state, ctxVars>>
     ELSE UNCHANGED copy /\ ThreadSucceeds
  /\ SshdKeeps /\ UNCHANGED msgs

\* do_pam_account in the process.
ThreadAccount ==
  /\ thread = "acct"
  /\ \E r \in do_pam_account(copy) :
       /\ copy' = r
       /\ \/ /\ r[1] = "denied"
             /\ psock' = Append(psock, <<"expired">>)
             /\ ThreadEnds("exited")
          \/ /\ r = <<"ok", TRUE>>
             /\ thread' = "chauthtok"
             /\ UNCHANGED <<psock, csock, state, ctxVars>>
          \/ r = <<"ok", FALSE>> /\ ThreadSucceeds
  /\ SshdKeeps /\ UNCHANGED <<msgs, proved>>

\* pam_chauthtok succeeds: the password need not be changed any more.
ThreadChauthtok ==
  /\ thread = "chauthtok"
  /\ copy' = <<copy[1], FALSE>>
  /\ ThreadSucceeds
  /\ SshdKeeps /\ UNCHANGED <<msgs, proved>>

\* A PAM module brings the process down.
ThreadCrashes ==
  /\ thread \in Running
  /\ ThreadEnds("crashed")
  /\ SshdKeeps /\ UNCHANGED <<copy, psock, msgs, proved>>

-----------------------------------------------------------------------------
(* The context of keyboard-interactive authentication in sshd. *)

\* pthread_create and sshpam_init_ctx: fork, then the handler, then the link.
\* The process may end in between.
ForkThread ==
  /\ state = "fork"
  /\ \/ /\ thread' = "auth" /\ copy' = <<account, pwchange>>
        /\ psock' = <<>> /\ csock' = <<>> /\ msgs' = 0
        /\ done' = 0
        /\ state' = "signal"
        /\ UNCHANGED <<failures, account, pwchange, cleanup, sigchld, text>>
     \/ Failed(attempt, method, Status) /\ UNCHANGED <<threadVars, ctxVars>>
  /\ UNCHANGED <<options, user, method, attempt, handle, sessVars, proved>>

SetHandler ==
  /\ state = "signal"
  /\ sigchld' = "pam"
  /\ state' = "link"
  /\ UNCHANGED <<options, connVars, handle, account, pwchange, sessVars, done, cleanup, text, threadVars, proved>>

LinkCtx ==
  /\ state = "link"
  /\ cleanup' = TRUE /\ text' = FALSE
  /\ state' = "query"
  /\ UNCHANGED <<options, connVars, handle, account, pwchange, sessVars, done, sigchld, threadVars, proved>>

\* pthread_cancel, pthread_join and the sockets closed: whether the handler has
\* reaped the process already or it is killed and waited for.
sshpam_thread_cleanup == NoThread /\ cleanup' = FALSE /\ sigchld' = "old" /\ done' = 0 /\ text' = FALSE

\* A message of the process has been read by sshpam_query.
Read == psock # <<>> /\ psock' = Tail(psock)
NoMore == UNCHANGED <<thread, copy, csock, msgs>>

\* sshpam_query goes on reading.
QueryInfo ==
  /\ state = "query" /\ Read /\ Head(psock) = <<"info">>
  /\ text' = TRUE
  /\ NoMore /\ UNCHANGED <<options, state, connVars, handle, account, pwchange, sessVars, done, cleanup, sigchld, proved>>

\* A query in answer to a response, in protocol 1, is the end of the attempt.
LastQuery == method = "response"

\* It returns 0 with one prompt.  verify_response gives up at a second prompt.
QueryPrompt ==
  /\ state = "query" /\ psock # <<>> /\ Head(psock) = <<"prompt">>
  /\ IF LastQuery
     THEN sshpam_thread_cleanup /\ Failed(attempt, "kbdint", Status)
     ELSE /\ Read /\ NoMore
          /\ text' = FALSE /\ state' = "chall"
          /\ UNCHANGED <<done, cleanup, sigchld, failures, account, pwchange>>
  /\ UNCHANGED <<options, user, method, attempt, handle, sessVars, proved>>

\* import_environments: account status and password flag as the process left them.
Imported(m) == <<m[2], m[3]>>

\* PAM_SUCCESS: it returns 0 with no prompt, and the client answers once more;
\* verify_response calls respond itself, and get_challenge has nothing to send.
QuerySuccess ==
  /\ state = "query" /\ psock # <<>> /\ Head(psock)[1] = "ok"
  /\ \/ /\ user = Root /\ options.permit_root # "yes"
        /\ state' = "closed"
        /\ UNCHANGED <<threadVars, ctxVars, account, pwchange, authenticated, failures>>
     \/ /\ user # Root \/ options.permit_root = "yes"
        /\ IF LastQuery
           THEN /\ authenticated' = TRUE
                /\ sshpam_thread_cleanup
                /\ userauth_finish(TRUE, user, attempt, "kbdint", Imported(Head(psock)))
           ELSE /\ Read /\ NoMore
                /\ account' = Imported(Head(psock))[1] /\ pwchange' = Imported(Head(psock))[2]
                /\ done' = 1 /\ text' = FALSE
                /\ state' = IF options.compat20 THEN "chall" ELSE "closed"
                /\ UNCHANGED <<cleanup, sigchld, authenticated, failures>>
  /\ UNCHANGED <<options, user, method, attempt, handle, session, cred, proved>>

\* Mutant: sshpam_query waits for a message of a process that is no more.
EndOfFileNot == FALSE

EndOfFile == psock = <<>> /\ thread \in Zombie \cup {"reaped"}

\* PAM_ACCT_EXPIRED and PAM_AUTH_ERR with messages to show: returns 0, no prompt.
\* Without, or at the end of the file, it returns -1: the attempt has failed.
QueryFails ==
  /\ state = "query"
  /\ \/ psock # <<>> /\ Head(psock) \in {<<"expired">>, <<"autherr">>}
     \/ EndOfFile
  /\ LET denied == psock # <<>> /\ Head(psock) = <<"expired">>
         shown == psock # <<>> /\ text /\ ~LastQuery
         st == IF denied THEN <<"denied", pwchange>> ELSE Status
     IN IF shown
        THEN /\ Read /\ NoMore
             /\ done' = 2 /\ text' = FALSE
             /\ state' = IF options.compat20 THEN "chall" ELSE "closed"
             /\ account' = st[1] /\ pwchange' = st[2]
             /\ UNCHANGED <<cleanup, sigchld, failures>>
        ELSE sshpam_thread_cleanup /\ Failed(attempt, "kbdint", st)
  /\ UNCHANGED <<options, user, method, attempt, handle, sessVars, proved>>

\* sshpam_respond returns 0: PAM has accepted.
RespondDone == done = 1

Respond ==
  /\ state = "chall"
  /\ \/ /\ RespondDone
        /\ authenticated' = TRUE
        /\ sshpam_thread_cleanup
        /\ userauth_finish(TRUE, user, attempt, "kbdint", Status)
        /\ UNCHANGED method
     \/ /\ ~RespondDone
        /\ done # 0 \/ thread \notin Running
        /\ sshpam_thread_cleanup
        /\ Failed(attempt, "kbdint", Status)
        /\ UNCHANGED <<authenticated, method>>
     \/ /\ ~RespondDone
        /\ done = 0 /\ thread \in Running
        /\ csock' = Append(csock, "authtok")
        /\ state' = "query" /\ text' = FALSE
        /\ method' = IF options.compat20 THEN method ELSE "response"
        /\ UNCHANGED <<failures, account, pwchange, done, cleanup, sigchld, thread, copy, psock, msgs, authenticated>>
  /\ UNCHANGED <<options, user, attempt, handle, session, cred, proved>>

-----------------------------------------------------------------------------
(* Requests of the client. *)

\* input_service_request.
input_service_request ==
  /\ state = "service"
  /\ \E s \in {"ssh-userauth", "other"} : state' = IF s = "ssh-userauth" THEN "auth" ELSE "closed"
  /\ UNCHANGED <<options, connVars, handle, account, pwchange, sessVars, ctxVars, threadVars, proved>>

\* do_authentication and the start of do_authloop: a user without a password is
\* let in at once, unless the account is denied.
do_authentication ==
  /\ state = "user"
  /\ \E u \in User : user' = u /\ handle' = u
  /\ \/ /\ state' = "auth"
        /\ UNCHANGED <<account, pwchange, proved>>
     \/ /\ options.permit_empty
        /\ proved' = TRUE
        /\ \E r \in do_pam_account(Status) :
             /\ account' = r[1] /\ pwchange' = r[2]
             /\ state' = IF r[1] = "denied" THEN "auth" ELSE "success"
  /\ UNCHANGED <<options, method, attempt, failures, sessVars, ctxVars, threadVars>>

Methods == {"none", "pubkey", "password", "kbdint", "unknown"}

\* Mutant: the conversation of an earlier request is left alone.
ChallengeKept == UNCHANGED <<threadVars, ctxVars>>

\* auth2_challenge_stop, abandon_challenge_response.
auth2_challenge_stop == sshpam_thread_cleanup

\* Mutant: a denied account does not keep the conversation from starting.
RefusedNot == FALSE

\* sshpam_init_ctx refuses to start once the account is denied.
Refused == account = "denied"

\* What the method says at once.
Says(m) ==
  CASE m \in {"pubkey", "password"} -> BOOLEAN
    [] m = "none" -> IF options.permit_empty /\ options.compat20 THEN BOOLEAN ELSE {FALSE}
    [] m = "kbdint" -> IF Refused THEN {FALSE} ELSE {}
    [] m = "unknown" -> {FALSE}

\* input_userauth_request, and do_authloop's handling of a packet.  The first
\* request of protocol 2 names the user; the challenge that was pending is
\* dropped.
input_userauth_request ==
  /\ state \in {"auth", "chall"}
  /\ attempt < MaxAttempts /\ attempt' = attempt + 1
  /\ \E u \in User, m \in Methods :
       /\ user # "NULL" => u = user
       /\ user' = u /\ handle' = u /\ method' = m
       /\ auth2_challenge_stop
       /\ \/ /\ m = "kbdint" /\ ~Refused
             /\ state' = "fork"
             /\ proved' = FALSE
             /\ UNCHANGED <<failures, account, pwchange>>
          \/ \E ok \in Says(m) :
               /\ proved' = ok
               /\ userauth_finish(ok, u, attempt', m, Status)
  /\ UNCHANGED <<options, sessVars>>

\* Another user or service than before.
ChangeOfUser ==
  /\ state \in {"auth", "chall"} /\ options.compat20 /\ user # "NULL"
  /\ state' = "closed"
  /\ UNCHANGED <<options, connVars, handle, account, pwchange, sessVars, ctxVars, threadVars, proved>>

\* The client goes away.
Hangup ==
  /\ state \in {"service", "user", "auth", "chall", "shell"}
  /\ state' = "closed"
  /\ UNCHANGED <<options, connVars, handle, account, pwchange, sessVars, ctxVars, threadVars, proved>>

\* The login grace time is over: sshd exits in the signal handler.
GraceAlarm ==
  /\ state \notin AfterSuccess \cup Over
  /\ state' = "dead"
  /\ UNCHANGED <<options, connVars, handle, account, pwchange, sessVars, ctxVars, threadVars, proved>>

-----------------------------------------------------------------------------
(* After authentication. *)

SessionStep(from, to) ==
  /\ state = from /\ state' = to
  /\ UNCHANGED <<options, connVars, handle, account, authenticated, ctxVars, threadVars, proved>>

\* Credentials that cannot be established matter only if PAM did the
\* authentication by keyboard-interactive.
do_pam_setcred ==
  \/ SessionStep("success", "cred") /\ cred' = TRUE /\ UNCHANGED <<session, pwchange>>
  \/ SessionStep("success", IF authenticated THEN "closed" ELSE "cred") /\ UNCHANGED <<cred, session, pwchange>>

\* A session that cannot be opened is only logged.
do_pam_session ==
  /\ SessionStep("cred", "session")
  /\ session' \in BOOLEAN
  /\ UNCHANGED <<cred, pwchange>>

\* An expired password is changed before the shell starts.
do_pam_chauthtok ==
  \/ /\ ~pwchange /\ SessionStep("session", "shell")
     /\ UNCHANGED <<session, cred, pwchange>>
  \/ /\ pwchange
     /\ \/ SessionStep("session", "shell") /\ pwchange' = FALSE
        \/ SessionStep("session", "closed") /\ pwchange' = pwchange
     /\ UNCHANGED <<session, cred>>

\* The exit of sshd: the PAM process and sshpam_cleanup.
sshpam_cleanup ==
  /\ state = "closed" /\ state' = "done"
  /\ sshpam_thread_cleanup
  /\ session' = FALSE /\ cred' = FALSE /\ authenticated' = FALSE
  /\ handle' = "NULL"
  /\ UNCHANGED <<options, connVars, account, pwchange, proved>>

Finished == state = "done" /\ UNCHANGED vars
SshdDead == state = "dead" /\ thread \notin Running /\ UNCHANGED vars

-----------------------------------------------------------------------------
Init ==
  /\ options \in [compat20 : BOOLEAN, permit_empty : BOOLEAN, permit_root : {"yes", "without-password", "no"}]
  /\ state = IF options.compat20 THEN "service" ELSE "user"
  /\ user = "NULL" /\ method = "NULL" /\ attempt = 0 /\ failures = 0
  /\ handle = "NULL" /\ account = "unknown" /\ pwchange = FALSE
  /\ authenticated = FALSE /\ session = FALSE /\ cred = FALSE
  /\ done = 0 /\ cleanup = FALSE /\ sigchld = "old" /\ text = FALSE
  /\ thread = "none" /\ copy = <<"unknown", FALSE>> /\ psock = <<>> /\ csock = <<>> /\ msgs = 0
  /\ proved = FALSE

Thread ==
  \/ sshpam_thread_conv \/ ThreadRecv \/ ThreadFails \/ ThreadAuthenticated
  \/ ThreadAccount \/ ThreadChauthtok

Sshd ==
  \/ ForkThread \/ SetHandler \/ LinkCtx
  \/ QueryInfo \/ QueryPrompt \/ QuerySuccess \/ QueryFails
  \/ do_pam_setcred \/ do_pam_session \/ do_pam_chauthtok \/ sshpam_cleanup

Client ==
  \/ input_service_request \/ do_authentication \/ input_userauth_request \/ Respond
  \/ ChangeOfUser \/ Hangup \/ GraceAlarm

Next == Thread \/ ThreadCrashes \/ Sshd \/ Client \/ Finished \/ SshdDead

Spec == Init /\ [][Next]_vars

\* Both processes run; nothing is assumed of the client or of the PAM modules,
\* except that they end a conversation.
Fairness == WF_vars(Thread) /\ WF_vars(Sshd)
FairSpec == Spec /\ Fairness

-----------------------------------------------------------------------------
(* Properties. *)

TypeOK ==
  /\ state \in {"service", "user", "auth", "fork", "signal", "link", "query", "chall"} \cup AfterSuccess \cup Over
  /\ user \in User \cup {"NULL"} /\ handle \in {user, "NULL"}
  /\ failures \in 0..MaxAuthtries
  /\ account \in {"unknown", "denied", "ok"} /\ pwchange \in BOOLEAN
  /\ done \in 0..2
  /\ sigchld \in {"old", "pam", "default"}
  /\ thread \in Running \cup Zombie \cup {"none", "reaped"}
  /\ Len(psock) <= MaxMsgs + 1 /\ Len(csock) <= 1
  /\ msgs \in 0..MaxMsgs

\* A client gets past authentication only if a method accepted the user in the
\* last attempt, and PAM's account management has allowed the account.
SuccessEarned == state \in AfterSuccess => proved /\ account = "ok"

\* sshd does not end with a session open or credentials established, in a
\* signal handler either: sigdie in sshpam_sigchld_handler is _exit and calls no
\* sshpam_cleanup, so the process of a conversation that came to nothing must be
\* gone, and the handler with it, before anybody is let in by another method.
NothingLeftOpen == state \in {"done", "dead"} => ~session /\ ~cred

\* A denied account stays denied, and no conversation starts after it.
DeniedForGood == [][account = "denied" => account' = "denied" /\ (state' = "fork" => state = "fork")]_vars

\* sshpam_query comes back: sshd and the process do not wait for each other.
QueryReturns == state = "query" ~> state # "query"

\* The process does not outlive sshd, even when that is ended by a signal.
NoOrphan == state \in Over ~> thread \notin Running

\* Whatever ends a conversation, a timeout, a signal, a crash or an answer that
\* never comes, sshpam_query returns and the process that pthread_create forked
\* is gone in the end.
ConversationEnds == QueryReturns /\ NoOrphan
=============================================================================
