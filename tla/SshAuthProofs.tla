---------------------------- MODULE SshAuthProofs ----------------------------
(***************************************************************************)
(* Proofs about SshAuth: the types and the lengths of the two sockets, who *)
(* gets past authentication, that nothing is left open however sshd ends,  *)
(* and that a denied account stays denied, for every number of attempts    *)
(* and of messages of PAM.                                                 *)
(***************************************************************************)
EXTENDS SshAuth, TLAPS

-----------------------------------------------------------------------------
(* The inductive invariant. *)

Account == {"unknown", "denied", "ok"}
Answer == {"ok"} \X Account \X BOOLEAN
Message == {<<"info">>, <<"prompt">>, <<"autherr">>, <<"expired">>} \cup Answer
SshdState == {"service", "user", "auth", "fork", "signal", "link", "query", "chall"} \cup AfterSuccess \cup Over

Waiting == {"authwait", "chwait"}
Ended == Zombie \cup {"reaped"}

SshdTypes ==
  /\ state \in SshdState
  /\ user \in User \cup {"NULL"} /\ handle \in {user, "NULL"}
  /\ failures \in 0 .. MaxAuthtries
  /\ account \in Account
  /\ done \in 0 .. 2 /\ sigchld \in {"old", "pam", "default"}

\* What sshd and the process know of the account, with the flag of the password.
Statuses == pwchange \in BOOLEAN /\ copy \in Account \X BOOLEAN

ThreadTypes ==
  /\ thread \in Running \cup Zombie \cup {"none", "reaped"}
  /\ psock \in Seq(Message) /\ csock \in Seq({"authtok"})
  /\ msgs \in 0 .. MaxMsgs

\* The last message of the process is not one of the conversation.
Lengths == Len(psock) <= msgs + IF thread \in Ended THEN 1 ELSE 0

\* Below the limit sshd goes on.
Allowed == state \notin Over => failures < MaxAuthtries

\* Whatever reports success, the process or what sshd has read of it, comes
\* after pam_authenticate of this attempt.
Reports ==
  /\ \A i \in DOMAIN psock : psock[i][1] = "ok" => proved
  /\ done = 1 => proved
  /\ thread \in {"acct", "chauthtok", "chwait"} => proved

\* The client has been asked and has not answered.
Asked == state = "chall" /\ done = 0
NoPrompt == \A i \in DOMAIN psock : psock[i] # <<"prompt">>

\* A prompt is in the socket, with the client or answered, and the process
\* waits meanwhile.
OnePrompt ==
  /\ thread \in Running \ Waiting => NoPrompt /\ ~Asked /\ csock = <<>>
  /\ thread \in Waiting => \A i \in DOMAIN psock : psock[i] = <<"prompt">> => i = Len(psock)
  /\ thread \in Waiting /\ Asked => NoPrompt /\ csock = <<>>
  /\ csock # <<>> => thread \in Waiting /\ NoPrompt /\ Len(csock) = 1

\* No conversation goes on with an account that is denied.
Undenied == state \in {"fork", "signal", "link", "query"} \/ Asked => account # "denied"

SshdInv == SshdTypes /\ Allowed /\ Undenied /\ SuccessEarned

\* What is established belongs to a connection past authentication, on which no
\* conversation is linked any more: the handler of SIGCHLD returns at once.
Kept ==
  /\ session \/ cred => state \in {"cred", "session", "shell", "closed"} /\ ~cleanup
  /\ state \in AfterSuccess \cup {"user"} => ~cleanup

SocketInv == ThreadTypes /\ Lengths /\ Reports /\ OnePrompt
IInv == SshdInv /\ SocketInv /\ Statuses
FullInv == IInv /\ Kept

-----------------------------------------------------------------------------
(* The operators of an attempt. *)

\* do_pam_account answers "ok" or "denied", and keeps to an answer.
LEMMA AccountAnswers ==
  ASSUME NEW st \in Account \X BOOLEAN, NEW r \in do_pam_account(st)
  PROVE  /\ r \in {"denied", "ok"} \X BOOLEAN
         /\ st[1] = "denied" => r[1] = "denied"
<1>1. PICK a \in Account, b \in BOOLEAN : st = <<a, b>>
  OBVIOUS
<1>2. CASE a = "unknown"
  <2>1. r = <<"ok", b>> \/ r = <<"ok", TRUE>> \/ r = <<"denied", b>>
    BY <1>1, <1>2 DEF do_pam_account, KnownAccount
  <2>2. st[1] # "denied"
    BY <1>1, <1>2
  <2>3. CASE r = <<"ok", b>>
    BY <2>2, <2>3, Zenon
  <2>4. CASE r = <<"ok", TRUE>>
    BY <2>2, <2>4, Zenon
  <2>5. CASE r = <<"denied", b>>
    BY <2>2, <2>5, Zenon
  <2>. QED
    BY <2>1, <2>3, <2>4, <2>5, Zenon
<1>3. CASE a # "unknown"
  <2>1. r = st
    BY <1>1, <1>3 DEF do_pam_account, KnownAccount
  <2>. QED
    BY <1>1, <1>3, <2>1 DEF Account
<1>. QED
  BY <1>2, <1>3

\* An attempt that failed is counted, and the last one allowed closes the connection.
LEMMA FailedEffect ==
  ASSUME SshdTypes, Statuses, Allowed, state \notin Over,
         NEW a, NEW m, NEW st \in Account \X BOOLEAN, Failed(a, m, st)
  PROVE  /\ failures' \in 0 .. MaxAuthtries
         /\ state' \in {"auth", "closed"} /\ (state' = "auth" => failures' < MaxAuthtries)
         /\ account' = st[1] /\ pwchange' = st[2]
<1>1. failures' \in {failures, failures + 1} /\ state' = IF TooMany(failures') THEN "closed" ELSE "auth"
  BY DEF Failed
<1>2. failures \in 0 .. MaxAuthtries /\ failures < MaxAuthtries /\ MaxAuthtries \in Nat
  BY SshAssumption DEF SshdTypes, Allowed
<1>. QED
  BY <1>1, <1>2 DEF Failed, TooMany

\* An attempt ends in success only if the method said so and the account is allowed.
LEMMA AttemptEffect ==
  ASSUME SshdTypes, Statuses, Allowed, state \notin Over,
         NEW ok \in BOOLEAN, NEW u, NEW a, NEW m, NEW st \in Account \X BOOLEAN,
         userauth_finish(ok, u, a, m, st)
  PROVE  /\ failures' \in 0 .. MaxAuthtries
         /\ state' \in {"auth", "closed", "success"} /\ (state' # "closed" => failures' < MaxAuthtries)
         /\ account' \in Account /\ pwchange' \in BOOLEAN
         /\ state' = "success" => ok /\ account' = "ok"
         /\ st[1] = "denied" => account' = "denied"
<1>1. CASE ok /\ (u = Root => RootAllowed(m))
  <2>1. PICK r \in do_pam_account(st) :
          /\ account' = r[1] /\ pwchange' = r[2]
          /\ state' = IF r[1] = "denied" THEN "closed" ELSE "success"
          /\ UNCHANGED failures
    BY <1>1 DEF userauth_finish
  <2>2. /\ r \in {"denied", "ok"} \X BOOLEAN
        /\ st[1] = "denied" => r[1] = "denied"
    BY AccountAnswers
  <2>. QED
    BY <1>1, <2>1, <2>2 DEF SshdTypes, Allowed, Account
<1>2. CASE ~(ok /\ (u = Root => RootAllowed(m)))
  <2>1. Failed(a, m, st)
    BY <1>2 DEF userauth_finish
  <2>. QED
    BY <2>1, FailedEffect DEF Account
<1>. QED
  BY <1>1, <1>2

-----------------------------------------------------------------------------
(* The socket of the process. *)

\* What the process sends with PAM_SUCCESS is a message: the status it has.
LEMMA AnswerOfStatus ==
  ASSUME NEW st \in Account \X BOOLEAN
  PROVE  <<"ok", st[1], st[2]>> \in Message
BY Zenon DEF Answer, Message

\* An answer is told from the other messages by its first element.
LEMMA Kinds ==
  ASSUME NEW m \in Message
  PROVE  /\ m[1] = "ok" => m \in Answer
         /\ m \in Answer => m[1] = "ok" /\ m # <<"prompt">> /\ m[2] \in Account /\ <<m[2], m[3]>> \in Account \X BOOLEAN
<1>1. m[1] = "ok" => m \in Answer
  BY DEF Message
<1>2. ASSUME m \in Answer
      PROVE  m[1] = "ok" /\ m # <<"prompt">> /\ m[2] \in Account /\ <<m[2], m[3]>> \in Account \X BOOLEAN
  <2>1. m[1] = "ok" /\ m[2] \in Account /\ <<m[2], m[3]>> \in Account \X BOOLEAN
    BY <1>2, Zenon DEF Answer
  <2>2. <<"prompt">>[1] = "prompt"
    OBVIOUS
  <2>. QED
    BY <2>1, <2>2, Zenon
<1>. QED
  BY <1>1, <1>2

\* ssh_msg_send puts a message behind the others.
LEMMA Sent ==
  ASSUME NEW m \in Message, psock \in Seq(Message), psock' = Append(psock, m)
  PROVE  /\ psock' \in Seq(Message) /\ Len(psock') = Len(psock) + 1
         /\ \A i \in DOMAIN psock' : psock'[i] = m \/ (i \in DOMAIN psock /\ psock'[i] = psock[i])
         /\ \A i \in DOMAIN psock' : i < Len(psock') => i \in DOMAIN psock /\ psock'[i] = psock[i]
OBVIOUS

\* ssh_msg_recv takes the first message and the others move up.
LEMMA Received ==
  ASSUME psock \in Seq(Message), Read
  PROVE  /\ psock' \in Seq(Message) /\ Len(psock') = Len(psock) - 1
         /\ 1 \in DOMAIN psock /\ Head(psock) = psock[1] /\ Head(psock) \in Message
         /\ \A i \in DOMAIN psock' : i + 1 \in DOMAIN psock /\ psock'[i] = psock[i + 1]
BY DEF Read

\* After pthread_cancel there is no process and nothing in the sockets.
LEMMA CleanupSocket ==
  ASSUME sshpam_thread_cleanup
  PROVE  SocketInv' /\ copy' \in Account \X BOOLEAN
<1>1. SocketInv'
  BY SshAssumption DEF sshpam_thread_cleanup, NoThread, SocketInv, ThreadTypes, Lengths, Reports, OnePrompt, NoPrompt, Running, Waiting, Ended, Zombie
<1>2. copy' = <<"unknown", FALSE>>
  BY DEF sshpam_thread_cleanup, NoThread
<1>. QED
  BY <1>1, <1>2, Zenon DEF Account

\* The rest of sshd's state after the end of an attempt.
LEMMA FailedInv ==
  ASSUME SshdInv, Statuses, state \notin Over \cup AfterSuccess,
         NEW a, NEW m, NEW st \in Account \X BOOLEAN, Failed(a, m, st),
         user' \in User \cup {"NULL"}, handle' \in {user', "NULL"}, done' \in 0 .. 2, sigchld' \in {"old", "pam", "default"}
  PROVE  SshdInv' /\ pwchange' \in BOOLEAN
<1>1. /\ failures' \in 0 .. MaxAuthtries
      /\ state' \in {"auth", "closed"} /\ (state' = "auth" => failures' < MaxAuthtries)
      /\ account' = st[1] /\ pwchange' = st[2]
  BY FailedEffect DEF SshdInv
<1>2. account' \in Account
  BY <1>1
<1>3. pwchange' \in BOOLEAN
  BY <1>1, Zenon
<1>. QED
  BY <1>1, <1>2, <1>3 DEF SshdInv, SshdTypes, SshdState, Allowed, Undenied, Asked, SuccessEarned, AfterSuccess, Over

\* The same when the method may have said yes.
LEMMA AttemptInv ==
  ASSUME SshdInv, Statuses, state \notin Over \cup AfterSuccess,
         NEW ok \in BOOLEAN, NEW u, NEW a, NEW m, NEW st \in Account \X BOOLEAN, userauth_finish(ok, u, a, m, st),
         ok => proved',
         user' \in User \cup {"NULL"}, handle' \in {user', "NULL"}, done' \in 0 .. 2, sigchld' \in {"old", "pam", "default"}
  PROVE  SshdInv' /\ pwchange' \in BOOLEAN
<1>1. /\ failures' \in 0 .. MaxAuthtries
      /\ state' \in {"auth", "closed", "success"} /\ (state' # "closed" => failures' < MaxAuthtries)
      /\ account' \in Account /\ pwchange' \in BOOLEAN
      /\ state' = "success" => ok /\ account' = "ok"
  BY AttemptEffect DEF SshdInv
<1>. QED
  BY <1>1 DEF SshdInv, SshdTypes, SshdState, Allowed, Undenied, Asked, SuccessEarned, AfterSuccess, Over

-----------------------------------------------------------------------------
(* Every step keeps the invariant. *)

\* sshpam_thread_conv sends a message; a prompt makes the process wait.
LEMMA ConvStep ==
  ASSUME IInv, sshpam_thread_conv
  PROVE  IInv'
<1>. USE DEF IInv
<1>1. SshdInv'
  BY DEF sshpam_thread_conv, SshdKeeps, ctxVars, connVars, sessVars, SshdInv, SshdTypes, Allowed, Undenied, Asked, SuccessEarned
<1>2. Statuses'
  BY Zenon DEF sshpam_thread_conv, SshdKeeps, Statuses
<1>3. psock \in Seq(Message) /\ <<"info">> \in Message /\ <<"prompt">> \in Message
  BY DEF SocketInv, ThreadTypes, Message
<1>4. ThreadTypes' /\ Lengths'
  <2>1. PICK m \in Message : psock' = Append(psock, m)
    BY <1>3 DEF sshpam_thread_conv
  <2>2. psock' \in Seq(Message) /\ Len(psock') = Len(psock) + 1
    BY <1>3, <2>1, Sent
  <2>. QED
    BY <2>2, SshAssumption DEF sshpam_thread_conv, SocketInv, ThreadTypes, Lengths, Prompted, Running, Zombie, Ended
<1>5. Reports' /\ OnePrompt'
  <2>1. CASE psock' = Append(psock, <<"info">>) /\ thread' = thread
    <3>1. \A i \in DOMAIN psock' : psock'[i] = <<"info">> \/ (i \in DOMAIN psock /\ psock'[i] = psock[i])
      BY <1>3, <2>1, Sent
    <3>. QED
      BY <2>1, <3>1 DEF sshpam_thread_conv, ctxVars, SocketInv, Reports, OnePrompt, NoPrompt, Asked, Running, Waiting
  <2>2. CASE psock' = Append(psock, <<"prompt">>) /\ thread' = Prompted(thread)
    <3>1. /\ \A i \in DOMAIN psock' : psock'[i] = <<"prompt">> \/ (i \in DOMAIN psock /\ psock'[i] = psock[i])
          /\ \A i \in DOMAIN psock' : i < Len(psock') => i \in DOMAIN psock /\ psock'[i] = psock[i]
          /\ psock' \in Seq(Message)
      BY <1>3, <2>2, Sent
    <3>2. <<"prompt">>[1] # "ok" /\ thread \in Running \ Waiting
      BY DEF sshpam_thread_conv, Running, Waiting
    <3>3. NoPrompt /\ ~Asked /\ csock = <<>>
      BY <3>2 DEF SocketInv, OnePrompt
    <3>4. Reports'
      BY <2>2, <3>1, <3>2 DEF sshpam_thread_conv, ctxVars, SocketInv, Reports, Prompted
    <3>5. \A i \in DOMAIN psock' : psock'[i] = <<"prompt">> => i = Len(psock')
      BY <3>1, <3>3 DEF NoPrompt
    <3>6. thread' \in Waiting /\ ~Asked' /\ csock' = <<>>
      BY <2>2, <3>3 DEF sshpam_thread_conv, ctxVars, Prompted, Waiting, Asked
    <3>. QED
      BY <3>4, <3>5, <3>6 DEF OnePrompt, Running, Waiting
  <2>. QED
    BY <2>1, <2>2 DEF sshpam_thread_conv
<1>. QED
  BY <1>1, <1>2, <1>4, <1>5 DEF SocketInv

\* A process that reports success and ends, in a state where pam_authenticate has succeeded.
LEMMA SucceedsSocket ==
  ASSUME SocketInv, copy' \in Account \X BOOLEAN, ThreadSucceeds, proved', thread \in Running, UNCHANGED msgs
  PROVE  SocketInv'
<1>. DEFINE m == <<"ok", copy'[1], copy'[2]>>
<1>1. m \in Message
  BY AnswerOfStatus
<1>2. m[1] = "ok" /\ m # <<"prompt">>
  <2>1. m[1] = "ok"
    BY Zenon
  <2>2. m \in Answer
    BY <1>1, <2>1, Kinds
  <2>. QED
    BY <1>1, <2>1, <2>2, Kinds
<1>3. psock' = Append(psock, m) /\ psock \in Seq(Message)
  BY DEF ThreadSucceeds, SocketInv, ThreadTypes
<1>4. /\ psock' \in Seq(Message) /\ Len(psock') = Len(psock) + 1
      /\ \A i \in DOMAIN psock' : psock'[i] = m \/ (i \in DOMAIN psock /\ psock'[i] = psock[i])
  BY <1>1, <1>3, Sent
<1>. HIDE DEF m
<1>5. thread' \in Ended /\ csock' = <<>> /\ UNCHANGED <<done, msgs>>
  BY DEF ThreadSucceeds, ThreadEnds, Ended, Zombie
<1>6. ThreadTypes' /\ Lengths'
  BY <1>4, <1>5, SshAssumption DEF SocketInv, ThreadTypes, Lengths, Ended, Running, Zombie
<1>7. Reports' /\ OnePrompt'
  BY <1>2, <1>4, <1>5 DEF SocketInv, Reports, OnePrompt, NoPrompt, Ended, Running, Zombie, Waiting
<1>. QED
  BY <1>6, <1>7 DEF SocketInv

\* The end of a process changes nothing that SshdInv says but the state.
LEMMA EndsSshd ==
  ASSUME SshdInv, SshdKeeps, UNCHANGED done, proved => proved',
         state' \in {state, "dead"}, sigchld' \in {sigchld, "default"}
  PROVE  SshdInv'
BY DEF SshdKeeps, connVars, sessVars, SshdInv, SshdTypes, SshdState, Allowed, Undenied, Asked, SuccessEarned, AfterSuccess, Over

\* pam_authenticate succeeds, and from here the attempt is proved.
LEMMA AuthenticatedStep ==
  ASSUME IInv, ThreadAuthenticated
  PROVE  IInv'
<1>. USE DEF IInv
<1>1. SshdInv'
  BY EndsSshd DEF ThreadAuthenticated, ThreadSucceeds, ThreadEnds, ctxVars
<1>2. Statuses'
  BY Zenon DEF ThreadAuthenticated, SshdKeeps, Statuses
<1>3. SocketInv'
  <2>1. CASE options.compat20
    BY <2>1 DEF ThreadAuthenticated, ctxVars, SocketInv, ThreadTypes, Lengths, Reports, OnePrompt, NoPrompt, Asked, Running, Waiting, Zombie, Ended
  <2>2. CASE ~options.compat20
    <3>1. copy' \in Account \X BOOLEAN
      BY <1>2, Zenon DEF Statuses
    <3>. QED
      BY <2>2, <3>1, SucceedsSocket DEF ThreadAuthenticated, Running
  <2>. QED
    BY <2>1, <2>2
<1>. QED
  BY <1>1, <1>2, <1>3

\* Account management in the process: refused, a password to change, or success.
LEMMA AccountStep ==
  ASSUME IInv, ThreadAccount
  PROVE  IInv'
<1>. USE DEF IInv
<1>1. PICK r \in do_pam_account(copy) :
        /\ copy' = r
        /\ \/ /\ r[1] = "denied"
              /\ psock' = Append(psock, <<"expired">>)
              /\ ThreadEnds("exited")
           \/ /\ r = <<"ok", TRUE>>
              /\ thread' = "chauthtok"
              /\ UNCHANGED <<psock, csock, state, ctxVars>>
           \/ r = <<"ok", FALSE>> /\ ThreadSucceeds
  BY Zenon DEF ThreadAccount
<1>2. copy \in Account \X BOOLEAN
  BY DEF Statuses
<1>3. r \in {"denied", "ok"} \X BOOLEAN
  BY <1>2, AccountAnswers
<1>4. copy' \in Account \X BOOLEAN
  BY <1>1, <1>3, Zenon DEF Account
<1>5. Statuses'
  BY <1>4, Zenon DEF ThreadAccount, SshdKeeps, Statuses
<1>6. thread = "acct" /\ SshdKeeps /\ UNCHANGED <<msgs, proved>>
  BY DEF ThreadAccount
<1>7. SshdInv'
  BY <1>1, <1>6, EndsSshd DEF ThreadSucceeds, ThreadEnds, ctxVars
<1>8. proved
  BY <1>6 DEF SocketInv, Reports
<1>9. SocketInv'
  <2>1. CASE psock' = Append(psock, <<"expired">>) /\ ThreadEnds("exited")
    <3>1. psock \in Seq(Message) /\ <<"expired">> \in Message
      BY DEF SocketInv, ThreadTypes, Message
    <3>2. /\ psock' \in Seq(Message) /\ Len(psock') = Len(psock) + 1
          /\ \A i \in DOMAIN psock' : psock'[i] = <<"expired">> \/ (i \in DOMAIN psock /\ psock'[i] = psock[i])
      BY <2>1, <3>1, Sent
    <3>. QED
      BY <1>6, <1>8, <2>1, <3>2, SshAssumption
         DEF ThreadEnds, SocketInv, ThreadTypes, Lengths, Reports, OnePrompt, NoPrompt, Ended, Running, Zombie, Waiting
  <2>2. CASE thread' = "chauthtok" /\ UNCHANGED <<psock, csock, state, ctxVars>>
    BY <1>6, <1>8, <2>2 DEF ctxVars, SocketInv, ThreadTypes, Lengths, Reports, OnePrompt, NoPrompt, Asked, Running, Waiting, Zombie, Ended
  <2>3. CASE ThreadSucceeds
    BY <1>4, <1>6, <1>8, <2>3, SucceedsSocket DEF Running
  <2>. QED
    BY <1>1, <2>1, <2>2, <2>3, Zenon
<1>. QED
  BY <1>5, <1>7, <1>9

\* The password has been changed.
LEMMA ChauthtokStep ==
  ASSUME IInv, ThreadChauthtok
  PROVE  IInv'
<1>. USE DEF IInv
<1>1. copy' \in Account \X BOOLEAN
  BY Zenon DEF ThreadChauthtok, Statuses
<1>2. SshdInv'
  BY EndsSshd DEF ThreadChauthtok, ThreadSucceeds, ThreadEnds
<1>3. Statuses'
  BY <1>1, Zenon DEF ThreadChauthtok, SshdKeeps, Statuses
<1>4. SocketInv'
  BY <1>1, SucceedsSocket DEF ThreadChauthtok, Running, SocketInv, Reports
<1>. QED
  BY <1>2, <1>3, <1>4

\* The answer of the client arrives.
LEMMA RecvStep ==
  ASSUME IInv, ThreadRecv
  PROVE  IInv'
<1>. USE DEF IInv
<1>1. SshdInv'
  BY SshAssumption, SMTT(20)
     DEF ThreadRecv, SshdKeeps, ctxVars, connVars, sessVars, SshdInv, SshdTypes, SshdState, Allowed, Undenied, SuccessEarned,
         Asked, AfterSuccess, Over, Running
<1>2. SocketInv'
  BY SshAssumption, SMTT(20)
     DEF ThreadRecv, SshdKeeps, ctxVars, connVars, sessVars, SocketInv, ThreadTypes, Lengths, Reports, OnePrompt, NoPrompt,
         Asked, Running, Zombie, Ended, Waiting, Over, AfterSuccess, Message
<1>3. Statuses'
  BY ZenonT(20) DEF ThreadRecv, SshdKeeps, ctxVars, connVars, sessVars, Statuses
<1>. QED
  BY <1>1, <1>2, <1>3

\* PAM says no, or the conversation fails.
LEMMA FailsStep ==
  ASSUME IInv, ThreadFails
  PROVE  IInv'
<1>. USE DEF IInv
<1>1. SshdInv'
  BY SshAssumption, SMTT(20)
     DEF ThreadFails, SshdKeeps, connVars, sessVars, ThreadEnds, ConvFails, SshdInv, SshdTypes, SshdState, Allowed, Undenied, SuccessEarned,
         Asked, AfterSuccess, Over, Running
<1>2. SocketInv'
  BY SshAssumption, SMTT(20)
     DEF ThreadFails, SshdKeeps, connVars, sessVars, ThreadEnds, ConvFails, SocketInv, ThreadTypes, Lengths, Reports, OnePrompt, NoPrompt,
         Asked, Running, Zombie, Ended, Waiting, Over, AfterSuccess, Message
<1>3. Statuses'
  BY ZenonT(20) DEF ThreadFails, SshdKeeps, connVars, sessVars, ThreadEnds, ConvFails, Statuses
<1>. QED
  BY <1>1, <1>2, <1>3

\* The process is brought down.
LEMMA CrashesStep ==
  ASSUME IInv, ThreadCrashes
  PROVE  IInv'
<1>. USE DEF IInv
<1>1. SshdInv'
  BY SshAssumption, SMTT(20)
     DEF ThreadCrashes, SshdKeeps, connVars, sessVars, ThreadEnds, SshdInv, SshdTypes, SshdState, Allowed, Undenied, SuccessEarned,
         Asked, AfterSuccess, Over, Running
<1>2. SocketInv'
  BY SshAssumption, SMTT(20)
     DEF ThreadCrashes, SshdKeeps, connVars, sessVars, ThreadEnds, SocketInv, ThreadTypes, Lengths, Reports, OnePrompt, NoPrompt,
         Asked, Running, Zombie, Ended, Waiting, Over, AfterSuccess, Message
<1>3. Statuses'
  BY ZenonT(20) DEF ThreadCrashes, SshdKeeps, connVars, sessVars, ThreadEnds, Statuses
<1>. QED
  BY <1>1, <1>2, <1>3

\* The handler and the link of the context.
LEMMA ContextStep ==
  ASSUME IInv, (SetHandler \/ LinkCtx)
  PROVE  IInv'
<1>. USE DEF IInv
<1>1. SshdInv'
  BY SshAssumption, SMTT(20)
     DEF SetHandler, LinkCtx, connVars, sessVars, threadVars, SshdInv, SshdTypes, SshdState, Allowed, Undenied, SuccessEarned,
         Asked, AfterSuccess, Over, Running
<1>2. SocketInv'
  BY SshAssumption, SMTT(20)
     DEF SetHandler, LinkCtx, connVars, sessVars, threadVars, SocketInv, ThreadTypes, Lengths, Reports, OnePrompt, NoPrompt,
         Asked, Running, Zombie, Ended, Waiting, Over, AfterSuccess, Message
<1>3. Statuses'
  BY ZenonT(20) DEF SetHandler, LinkCtx, connVars, sessVars, threadVars, Statuses
<1>. QED
  BY <1>1, <1>2, <1>3

\* The steps after authentication.
LEMMA SessionSteps ==
  ASSUME IInv, (do_pam_setcred \/ do_pam_session \/ do_pam_chauthtok)
  PROVE  IInv'
<1>. USE DEF IInv
<1>1. SshdInv'
  BY SshAssumption, SMTT(20)
     DEF do_pam_setcred, do_pam_session, do_pam_chauthtok, SessionStep, connVars, ctxVars, threadVars, SshdInv, SshdTypes, SshdState, Allowed, Undenied, SuccessEarned,
         Asked, AfterSuccess, Over, Running
<1>2. SocketInv'
  BY SshAssumption, SMTT(20)
     DEF do_pam_setcred, do_pam_session, do_pam_chauthtok, SessionStep, connVars, ctxVars, threadVars, SocketInv, ThreadTypes, Lengths, Reports, OnePrompt, NoPrompt,
         Asked, Running, Zombie, Ended, Waiting, Over, AfterSuccess, Message
<1>3. Statuses'
  BY ZenonT(20) DEF do_pam_setcred, do_pam_session, do_pam_chauthtok, SessionStep, connVars, ctxVars, threadVars, Statuses
<1>. QED
  BY <1>1, <1>2, <1>3

\* The steps that move sshd on, or end it, and leave the rest alone.
LEMMA LeaveStep ==
  ASSUME IInv, (input_service_request \/ ChangeOfUser \/ Hangup \/ GraceAlarm)
  PROVE  IInv'
<1>. USE DEF IInv
<1>1. SshdInv'
  BY SshAssumption, SMTT(20)
     DEF input_service_request, ChangeOfUser, Hangup, GraceAlarm, connVars, sessVars, threadVars, ctxVars, SshdInv, SshdTypes, SshdState, Allowed, Undenied, SuccessEarned,
         Asked, AfterSuccess, Over, Running
<1>2. SocketInv'
  BY SshAssumption, SMTT(20)
     DEF input_service_request, ChangeOfUser, Hangup, GraceAlarm, connVars, sessVars, threadVars, ctxVars, SocketInv, ThreadTypes, Lengths, Reports, OnePrompt, NoPrompt,
         Asked, Running, Zombie, Ended, Waiting, Over, AfterSuccess, Message
<1>3. Statuses'
  BY ZenonT(20) DEF input_service_request, ChangeOfUser, Hangup, GraceAlarm, connVars, sessVars, threadVars, ctxVars, Statuses
<1>. QED
  BY <1>1, <1>2, <1>3

\* A fork starts a conversation with empty sockets, or the attempt has failed.
LEMMA ForkStep ==
  ASSUME IInv, ForkThread
  PROVE  IInv'
<1>. USE DEF IInv
<1>0. Status \in Account \X BOOLEAN
  BY Zenon DEF Status, Statuses, SshdInv, SshdTypes
<1>1. CASE /\ thread' = "auth" /\ copy' = <<account, pwchange>>
           /\ psock' = <<>> /\ csock' = <<>> /\ msgs' = 0
           /\ done' = 0
           /\ state' = "signal"
           /\ UNCHANGED <<failures, account, pwchange, cleanup, sigchld, text>>
  <2>1. SshdInv'
    BY <1>1, SMTT(20) DEF ForkThread, sessVars, SshdInv, SshdTypes, SshdState, Allowed, Undenied, SuccessEarned, Asked, AfterSuccess, Over
  <2>2. SocketInv'
    BY <1>1, SshAssumption, SMTT(20) DEF SocketInv, ThreadTypes, Lengths, Reports, OnePrompt, NoPrompt, Asked, Running, Ended, Zombie, Waiting
  <2>3. Statuses'
    BY <1>0, <1>1, Zenon DEF Statuses, Status
  <2>. QED
    BY <2>1, <2>2, <2>3
<1>2. CASE Failed(attempt, method, Status) /\ UNCHANGED <<threadVars, ctxVars>>
  <2>1. SshdInv' /\ pwchange' \in BOOLEAN
    BY <1>0, <1>2, FailedInv DEF ForkThread, ctxVars, SshdInv, SshdTypes, Over, AfterSuccess
  <2>2. state' \in {"auth", "closed"}
    BY <1>2 DEF Failed
  <2>3. SocketInv'
    BY <1>2, <2>2, SMTT(20) DEF ForkThread, threadVars, ctxVars, SocketInv, ThreadTypes, Lengths, Reports, OnePrompt, NoPrompt, Asked
  <2>4. Statuses'
    BY <1>2, <2>1, Zenon DEF threadVars, Statuses
  <2>. QED
    BY <2>1, <2>3, <2>4
<1>. QED
  BY <1>1, <1>2 DEF ForkThread

\* The first message of the process has been taken out of the socket: what the
\* process and the others did not change, holds of the rest.
LEMMA ReadSocket ==
  ASSUME SocketInv, state = "query", Read, NoMore, UNCHANGED proved,
         done' = 1 => proved,
         done' = 0 /\ state' = "chall" => Head(psock) = <<"prompt">>
  PROVE  SocketInv'
<1>1. /\ psock' \in Seq(Message) /\ Len(psock') = Len(psock) - 1
      /\ 1 \in DOMAIN psock /\ Head(psock) = psock[1]
      /\ \A i \in DOMAIN psock' : i + 1 \in DOMAIN psock /\ psock'[i] = psock[i + 1]
  BY Received DEF SocketInv, ThreadTypes
<1>2. ThreadTypes' /\ Lengths'
  BY <1>1, SshAssumption DEF NoMore, SocketInv, ThreadTypes, Lengths
<1>3. Reports'
  BY <1>1 DEF NoMore, SocketInv, Reports
<1>4. NoPrompt => NoPrompt' /\ Head(psock) # <<"prompt">>
  BY <1>1 DEF NoPrompt
<1>5. thread \in Waiting /\ Head(psock) = <<"prompt">> => NoPrompt' /\ csock = <<>>
  <2>1. HAVE thread \in Waiting /\ Head(psock) = <<"prompt">>
  <2>2. ~NoPrompt
    BY <1>4, <2>1
  <2>3. csock = <<>>
    BY <2>2 DEF SocketInv, OnePrompt
  <2>4. Len(psock) = 1
    BY <1>1, <2>1 DEF SocketInv, OnePrompt
  <2>5. DOMAIN psock' = {}
    BY <1>1, <2>4
  <2>. QED
    BY <2>3, <2>5 DEF NoPrompt
<1>6. OnePrompt'
  <2>1. thread' = thread /\ csock' = csock
    BY DEF NoMore
  <2>2. thread \in Running \ Waiting => NoPrompt' /\ ~Asked' /\ csock' = <<>>
    BY <1>4, <2>1 DEF SocketInv, OnePrompt, Asked
  <2>3. thread \in Waiting => \A i \in DOMAIN psock' : psock'[i] = <<"prompt">> => i = Len(psock')
    BY <1>1 DEF SocketInv, OnePrompt
  <2>4. thread \in Waiting /\ Asked' => NoPrompt' /\ csock' = <<>>
    BY <1>5, <2>1 DEF Asked
  <2>5. csock' # <<>> => thread' \in Waiting /\ NoPrompt' /\ Len(csock') = 1
    BY <1>4, <2>1 DEF SocketInv, OnePrompt
  <2>. QED
    BY <2>1, <2>2, <2>3, <2>4, <2>5 DEF OnePrompt
<1>. QED
  BY <1>2, <1>3, <1>6 DEF SocketInv

\* sshpam_query goes on reading.
LEMMA QueryInfoStep ==
  ASSUME IInv, QueryInfo
  PROVE  IInv'
<1>. USE DEF IInv
<1>1. SshdInv'
  BY DEF QueryInfo, connVars, sessVars, SshdInv, SshdTypes, SshdState, Allowed, Undenied, SuccessEarned, Asked
<1>2. SocketInv'
  BY ReadSocket DEF QueryInfo, SocketInv, Reports
<1>3. Statuses'
  BY Zenon DEF QueryInfo, NoMore, Statuses
<1>. QED
  BY <1>1, <1>2, <1>3

\* A conversation that ends in failure: the process is gone and the attempt over.
LEMMA CleanupFails ==
  ASSUME IInv, state \notin Over \cup AfterSuccess, sshpam_thread_cleanup,
         NEW a, NEW m, NEW st \in Account \X BOOLEAN, Failed(a, m, st), UNCHANGED <<user, handle>>
  PROVE  IInv'
<1>1. SshdInv' /\ pwchange' \in BOOLEAN
  <2>1. user' \in User \cup {"NULL"} /\ handle' \in {user', "NULL"}
    BY DEF IInv, SshdInv, SshdTypes
  <2>2. done' \in 0 .. 2 /\ sigchld' \in {"old", "pam", "default"}
    BY DEF sshpam_thread_cleanup
  <2>. QED
    BY <2>1, <2>2, FailedInv DEF IInv
<1>2. SocketInv' /\ copy' \in Account \X BOOLEAN
  BY CleanupSocket
<1>. QED
  BY <1>1, <1>2 DEF IInv, Statuses

\* A conversation that ends with the method's success.
LEMMA CleanupFinishes ==
  ASSUME IInv, state \notin Over \cup AfterSuccess, sshpam_thread_cleanup,
         NEW ok \in BOOLEAN, NEW u, NEW a, NEW m, NEW st \in Account \X BOOLEAN, userauth_finish(ok, u, a, m, st),
         ok => proved', user' \in User \cup {"NULL"}, handle' \in {user', "NULL"}
  PROVE  IInv'
<1>1. SshdInv' /\ pwchange' \in BOOLEAN
  <2>2. done' \in 0 .. 2 /\ sigchld' \in {"old", "pam", "default"}
    BY DEF sshpam_thread_cleanup
  <2>. QED
    BY <2>2, AttemptInv DEF IInv
<1>2. SocketInv' /\ copy' \in Account \X BOOLEAN
  BY CleanupSocket
<1>. QED
  BY <1>1, <1>2 DEF IInv, Statuses

\* A prompt: passed on to the client, or a second one, which ends the attempt.
LEMMA QueryPromptStep ==
  ASSUME IInv, QueryPrompt
  PROVE  IInv'
<1>. USE DEF IInv
<1>0. Status \in Account \X BOOLEAN
  BY Zenon DEF Status, Statuses, SshdInv, SshdTypes
<1>1. CASE LastQuery
  BY <1>0, <1>1, CleanupFails DEF QueryPrompt, Over, AfterSuccess
<1>2. CASE ~LastQuery
  <2>1. /\ state = "query" /\ Head(psock) = <<"prompt">>
        /\ Read /\ NoMore /\ state' = "chall"
        /\ UNCHANGED <<done, cleanup, sigchld, failures, account, pwchange>>
        /\ UNCHANGED <<options, user, method, attempt, handle, sessVars, proved>>
    BY <1>2 DEF QueryPrompt
  <2>2. SocketInv'
    BY <2>1, ReadSocket DEF SocketInv, Reports
  <2>3. SshdInv'
    BY <2>1 DEF sessVars, SshdInv, SshdTypes, SshdState, Allowed, Undenied, SuccessEarned, Asked, AfterSuccess, Over
  <2>4. Statuses'
    BY <2>1, Zenon DEF NoMore, Statuses
  <2>. QED
    BY <2>2, <2>3, <2>4
<1>. QED
  BY <1>1, <1>2

\* PAM has accepted: what the process sent is the status of the account from now on.
LEMMA QuerySuccessStep ==
  ASSUME IInv, QuerySuccess
  PROVE  IInv'
<1>. USE DEF IInv
<1>1. state = "query" /\ psock # <<>> /\ Head(psock)[1] = "ok"
      /\ UNCHANGED <<options, user, method, attempt, handle, session, cred, proved>>
  BY DEF QuerySuccess
<1>2. Head(psock) \in Message /\ Head(psock) = psock[1] /\ 1 \in DOMAIN psock
  BY <1>1 DEF SocketInv, ThreadTypes
<1>3. /\ Imported(Head(psock)) \in Account \X BOOLEAN
      /\ Imported(Head(psock))[1] \in Account
  BY <1>1, <1>2, Kinds, Zenon DEF Imported
<1>4. proved
  BY <1>1, <1>2 DEF SocketInv, Reports
<1>5. user \in User \cup {"NULL"} /\ handle \in {user, "NULL"}
  BY DEF SshdInv, SshdTypes
<1>6. CASE /\ state' = "closed"
           /\ UNCHANGED <<threadVars, ctxVars, account, pwchange, authenticated, failures>>
  <2>1. SshdInv'
    BY <1>1, <1>6 DEF ctxVars, SshdInv, SshdTypes, SshdState, Allowed, Undenied, SuccessEarned, Asked, AfterSuccess, Over
  <2>2. SocketInv'
    BY <1>1, <1>6 DEF threadVars, ctxVars, SocketInv, ThreadTypes, Lengths, Reports, OnePrompt, NoPrompt, Asked
  <2>3. Statuses'
    BY <1>6, Zenon DEF threadVars, Statuses
  <2>. QED
    BY <2>1, <2>2, <2>3
<1>7. CASE /\ sshpam_thread_cleanup
           /\ userauth_finish(TRUE, user, attempt, "kbdint", Imported(Head(psock)))
  <2>1. state \notin Over \cup AfterSuccess /\ proved' /\ user' \in User \cup {"NULL"} /\ handle' \in {user', "NULL"}
    BY <1>1, <1>4, <1>5 DEF Over, AfterSuccess
  <2>2. TRUE \in BOOLEAN
    OBVIOUS
  <2>. QED
    BY <1>3, <1>7, <2>1, <2>2, CleanupFinishes
<1>8. CASE /\ Read /\ NoMore
           /\ account' = Imported(Head(psock))[1] /\ pwchange' = Imported(Head(psock))[2]
           /\ done' = 1 /\ text' = FALSE
           /\ state' = IF options.compat20 THEN "chall" ELSE "closed"
           /\ UNCHANGED <<cleanup, sigchld, authenticated, failures>>
  <2>1. SshdInv'
    BY <1>1, <1>3, <1>8 DEF SshdInv, SshdTypes, SshdState, Allowed, Undenied, SuccessEarned, Asked, AfterSuccess, Over
  <2>2. SocketInv'
    BY <1>1, <1>4, <1>8, ReadSocket
  <2>3. pwchange' \in BOOLEAN
    BY <1>3, <1>8, Zenon
  <2>4. Statuses'
    BY <1>8, <2>3, Zenon DEF NoMore, Statuses
  <2>. QED
    BY <2>1, <2>2, <2>4
<1>. QED
  BY <1>6, <1>7, <1>8 DEF QuerySuccess

\* The process has given up, or is no more.
LEMMA QueryFailsStep ==
  ASSUME IInv, QueryFails
  PROVE  IInv'
<1>. USE DEF IInv
<1>. DEFINE denied == psock # <<>> /\ Head(psock) = <<"expired">>
            shown == psock # <<>> /\ text /\ ~LastQuery
            st == IF denied THEN <<"denied", pwchange>> ELSE Status
<1>1. /\ state = "query"
      /\ psock # <<>> => Head(psock) \in {<<"expired">>, <<"autherr">>}
      /\ UNCHANGED <<options, user, method, attempt, handle, sessVars, proved>>
  BY DEF QueryFails, EndOfFile
<1>2. st \in Account \X BOOLEAN
  <2>1. account \in Account /\ pwchange \in BOOLEAN /\ "denied" \in Account
    BY DEF SshdInv, SshdTypes, Statuses, Account
  <2>2. Status \in Account \X BOOLEAN /\ <<"denied", pwchange>> \in Account \X BOOLEAN
    BY <2>1, Zenon DEF Status
  <2>. QED
    BY <2>2, Zenon
<1>3. \/ /\ shown /\ Read /\ NoMore
         /\ done' = 2 /\ text' = FALSE
         /\ state' = IF options.compat20 THEN "chall" ELSE "closed"
         /\ account' = st[1] /\ pwchange' = st[2]
         /\ UNCHANGED <<cleanup, sigchld, failures>>
      \/ sshpam_thread_cleanup /\ Failed(attempt, "kbdint", st)
  BY Zenon DEF QueryFails
<1>. HIDE DEF st, denied, shown
<1>4. CASE /\ shown /\ Read /\ NoMore
           /\ done' = 2 /\ text' = FALSE
           /\ state' = IF options.compat20 THEN "chall" ELSE "closed"
           /\ account' = st[1] /\ pwchange' = st[2]
           /\ UNCHANGED <<cleanup, sigchld, failures>>
  <2>0. account' \in Account /\ pwchange' \in BOOLEAN
    BY <1>2, <1>4, Zenon
  <2>1. SshdInv'
    BY <1>1, <1>4, <2>0 DEF sessVars, SshdInv, SshdTypes, SshdState, Allowed, Undenied, SuccessEarned, Asked, AfterSuccess, Over
  <2>2. SocketInv'
    BY <1>1, <1>4, ReadSocket
  <2>3. Statuses'
    BY <1>4, <2>0, Zenon DEF NoMore, Statuses
  <2>. QED
    BY <2>1, <2>2, <2>3
<1>5. CASE sshpam_thread_cleanup /\ Failed(attempt, "kbdint", st)
  BY <1>1, <1>2, <1>5, CleanupFails DEF Over, AfterSuccess
<1>. QED
  BY <1>3, <1>4, <1>5

\* An answer of the client: the end of the conversation, or its next message.
LEMMA RespondStep ==
  ASSUME IInv, Respond
  PROVE  IInv'
<1>. USE DEF IInv
<1>0. Status \in Account \X BOOLEAN
  BY Zenon DEF Status, Statuses, SshdInv, SshdTypes
<1>1. state = "chall" /\ UNCHANGED <<options, user, attempt, handle, session, cred, proved>>
  BY DEF Respond
<1>2. CASE /\ RespondDone /\ sshpam_thread_cleanup
           /\ userauth_finish(TRUE, user, attempt, "kbdint", Status)
  <2>1. state \notin Over \cup AfterSuccess /\ proved' /\ user' \in User \cup {"NULL"} /\ handle' \in {user', "NULL"}
    BY <1>1, <1>2 DEF RespondDone, SocketInv, Reports, SshdInv, SshdTypes, Over, AfterSuccess
  <2>2. TRUE \in BOOLEAN
    OBVIOUS
  <2>. QED
    BY <1>0, <1>2, <2>1, <2>2, CleanupFinishes
<1>3. CASE sshpam_thread_cleanup /\ Failed(attempt, "kbdint", Status)
  BY <1>0, <1>1, <1>3, CleanupFails DEF Over, AfterSuccess
<1>4. CASE /\ done = 0 /\ thread \in Running
           /\ csock' = Append(csock, "authtok")
           /\ state' = "query"
           /\ UNCHANGED <<failures, account, pwchange, done, cleanup, sigchld, thread, copy, psock, msgs, authenticated>>
  <2>1. SshdInv'
    BY <1>1, <1>4 DEF SshdInv, SshdTypes, SshdState, Allowed, Undenied, SuccessEarned, Asked, AfterSuccess, Over
  <2>2. thread \in Waiting /\ NoPrompt /\ csock = <<>>
    BY <1>1, <1>4 DEF SocketInv, OnePrompt, Asked
  <2>3. csock' = <<"authtok">>
    BY <1>4, <2>2
  <2>4. SocketInv'
    BY <1>1, <1>4, <2>2, <2>3 DEF SocketInv, ThreadTypes, Lengths, Reports, OnePrompt, NoPrompt, Asked
  <2>5. Statuses'
    BY <1>4, Zenon DEF Statuses
  <2>. QED
    BY <2>1, <2>4, <2>5
<1>. QED
  BY <1>2, <1>3, <1>4 DEF Respond

\* Protocol 1 starts: a user with no password may be let in.
LEMMA AuthenticationStep ==
  ASSUME IInv, do_authentication
  PROVE  IInv'
<1>. USE DEF IInv
<1>0. Status \in Account \X BOOLEAN
  BY Zenon DEF Status, Statuses, SshdInv, SshdTypes
<1>1. /\ state = "user" /\ user' \in User /\ handle' = user'
      /\ UNCHANGED <<options, method, attempt, failures, sessVars, ctxVars, threadVars>>
  BY DEF do_authentication
<1>2. CASE state' = "auth" /\ UNCHANGED <<account, pwchange, proved>>
  <2>1. SshdInv'
    BY <1>1, <1>2 DEF sessVars, ctxVars, SshdInv, SshdTypes, SshdState, Allowed, Undenied, SuccessEarned, Asked, AfterSuccess, Over
  <2>2. SocketInv'
    BY <1>1, <1>2 DEF threadVars, ctxVars, SocketInv, ThreadTypes, Lengths, Reports, OnePrompt, NoPrompt, Asked
  <2>3. Statuses'
    BY <1>1, <1>2, Zenon DEF threadVars, Statuses
  <2>. QED
    BY <2>1, <2>2, <2>3
<1>3. ASSUME NEW r \in do_pam_account(Status), proved' = TRUE,
             account' = r[1], pwchange' = r[2], state' = IF r[1] = "denied" THEN "auth" ELSE "success"
      PROVE  IInv'
  <2>1. r \in {"denied", "ok"} \X BOOLEAN
    BY <1>0, <1>3, AccountAnswers
  <2>2. account' \in {"denied", "ok"} /\ pwchange' \in BOOLEAN
    BY <1>3, <2>1, Zenon
  <2>3. SshdInv'
    BY <1>1, <1>3, <2>2 DEF sessVars, ctxVars, SshdInv, SshdTypes, SshdState, Account, Allowed, Undenied, SuccessEarned, Asked, AfterSuccess, Over
  <2>4. SocketInv'
    BY <1>1, <1>3 DEF threadVars, ctxVars, SocketInv, ThreadTypes, Lengths, Reports, OnePrompt, NoPrompt, Asked
  <2>5. Statuses'
    BY <1>1, <2>2, Zenon DEF threadVars, Statuses
  <2>. QED
    BY <2>3, <2>4, <2>5
<1>. QED
  BY <1>2, <1>3, Zenon DEF do_authentication

\* A request drops the conversation that was going on.
LEMMA RequestStep ==
  ASSUME IInv, input_userauth_request
  PROVE  IInv'
<1>. USE DEF IInv
<1>0. Status \in Account \X BOOLEAN
  BY Zenon DEF Status, Statuses, SshdInv, SshdTypes
<1>1. state \in {"auth", "chall"} /\ UNCHANGED <<options, sessVars>>
  BY DEF input_userauth_request
<1>2. PICK u \in User, m \in Methods :
        /\ user' = u /\ handle' = u
        /\ sshpam_thread_cleanup
        /\ \/ /\ m = "kbdint" /\ ~Refused
              /\ state' = "fork"
              /\ proved' = FALSE
              /\ UNCHANGED <<failures, account, pwchange>>
           \/ \E ok \in Says(m) :
                /\ proved' = ok
                /\ userauth_finish(ok, u, attempt', m, Status)
  BY Zenon DEF input_userauth_request, auth2_challenge_stop
<1>3. user' \in User \cup {"NULL"} /\ handle' \in {user', "NULL"} /\ state \notin Over \cup AfterSuccess
  BY <1>1, <1>2 DEF Over, AfterSuccess
<1>4. CASE ~Refused /\ state' = "fork" /\ UNCHANGED <<failures, account, pwchange>>
  <2>1. SocketInv' /\ copy' \in Account \X BOOLEAN
    BY <1>2, CleanupSocket
  <2>2. done' = 0 /\ sigchld' = "old"
    BY <1>2 DEF sshpam_thread_cleanup
  <2>3. SshdInv'
    BY <1>1, <1>3, <1>4, <2>2 DEF sessVars, Refused, SshdInv, SshdTypes, SshdState, Allowed, Undenied, SuccessEarned, Asked, AfterSuccess, Over
  <2>4. Statuses'
    BY <1>4, <2>1, Zenon DEF Statuses
  <2>. QED
    BY <2>1, <2>3, <2>4
<1>5. ASSUME NEW ok \in Says(m), proved' = ok, userauth_finish(ok, u, attempt', m, Status)
      PROVE  IInv'
  <2>1. ok \in BOOLEAN
    BY <1>5, Zenon DEF Says, Methods
  <2>2. ok => proved'
    BY <1>5
  <2>. QED
    BY <1>0, <1>2, <1>3, <1>5, <2>1, <2>2, CleanupFinishes
<1>. QED
  BY <1>2, <1>4, <1>5, Zenon

\* The end of sshd closes the session, and what PAM holds.
LEMMA CleanupStep ==
  ASSUME IInv, sshpam_cleanup
  PROVE  IInv'
<1>. USE DEF IInv
<1>1. SshdInv'
  BY DEF sshpam_cleanup, sshpam_thread_cleanup, connVars, SshdInv, SshdTypes, SshdState, Allowed, Undenied, SuccessEarned, Asked, AfterSuccess, Over
<1>2. SocketInv' /\ copy' \in Account \X BOOLEAN
  BY CleanupSocket DEF sshpam_cleanup
<1>3. Statuses'
  BY <1>2, Zenon DEF sshpam_cleanup, Statuses
<1>. QED
  BY <1>1, <1>2, <1>3

-----------------------------------------------------------------------------
(* The theorems. *)

\* A connection starts with nothing known and nobody running.
LEMMA Initially == Init => IInv
<1>. SUFFICES ASSUME Init PROVE IInv
  OBVIOUS
<1>1. SshdInv
  BY SshAssumption DEF Init, SshdInv, SshdTypes, SshdState, Account, Allowed, Undenied, SuccessEarned, Asked, AfterSuccess, Over
<1>2. SocketInv
  BY SshAssumption DEF Init, SocketInv, ThreadTypes, Lengths, Reports, OnePrompt, NoPrompt, Asked, Running, Zombie, Ended, Waiting
<1>3. Statuses
  BY Zenon DEF Init, Statuses, Account
<1>. QED
  BY <1>1, <1>2, <1>3 DEF IInv

\* Every step of the process, of sshd and of the client keeps the invariant.
LEMMA Inductive == IInv /\ [Next]_vars => IInv'
<1>. SUFFICES ASSUME IInv, [Next]_vars PROVE IInv'
  OBVIOUS
<1>1. CASE UNCHANGED vars
  <2>1. SshdInv' /\ SocketInv'
    BY <1>1 DEF IInv, vars, connVars, sessVars, ctxVars, threadVars,
                SshdInv, SshdTypes, Allowed, Undenied, SuccessEarned,
                SocketInv, ThreadTypes, Lengths, Reports, OnePrompt, NoPrompt, Asked
  <2>2. Statuses'
    BY <1>1, Zenon DEF IInv, vars, threadVars, Statuses
  <2>. QED
    BY <2>1, <2>2 DEF IInv
<1>2. CASE Thread
  BY <1>2, ConvStep, RecvStep, FailsStep, AuthenticatedStep, AccountStep, ChauthtokStep DEF Thread
<1>3. CASE ThreadCrashes
  BY <1>3, CrashesStep
<1>4. CASE Sshd
  BY <1>4, ForkStep, ContextStep, QueryInfoStep, QueryPromptStep, QuerySuccessStep, QueryFailsStep,
     SessionSteps, CleanupStep DEF Sshd
<1>5. CASE Client
  BY <1>5, LeaveStep, AuthenticationStep, RequestStep, RespondStep DEF Client
<1>6. CASE Finished \/ SshdDead
  BY <1>1, <1>6 DEF Finished, SshdDead
<1>. QED
  BY <1>1, <1>2, <1>3, <1>4, <1>5, <1>6 DEF Next

\* The inductive invariant holds of every connection.
THEOREM Invariance == Spec => []IInv
  BY Initially, Inductive, PTL DEF Spec

\* Types and limits: no more failures than max_authtries, one last message of the
\* process after those of the conversation, and one unread answer at most.
THEOREM TypeCorrect == Spec => []TypeOK
<1>1. IInv => TypeOK
  <2>. SUFFICES ASSUME IInv PROVE TypeOK
    OBVIOUS
  <2>1. pwchange \in BOOLEAN
    BY Zenon DEF IInv, Statuses
  <2>2. Len(csock) <= 1
    <3>1. CASE csock = <<>>
      BY <3>1
    <3>2. CASE csock # <<>>
      <4>1. Len(csock) = 1
        BY <3>2 DEF IInv, SocketInv, OnePrompt
      <4>. QED
        BY <4>1
    <3>. QED
      BY <3>1, <3>2
  <2>3. Len(psock) <= MaxMsgs + 1
    <3>1. msgs \in 0 .. MaxMsgs /\ Len(psock) \in Nat /\ MaxMsgs \in Nat
      BY SshAssumption DEF IInv, SocketInv, ThreadTypes
    <3>2. Len(psock) <= msgs + 1
      BY <3>1 DEF IInv, SocketInv, Lengths
    <3>. QED
      BY <3>1, <3>2
  <2>. QED
    BY <2>1, <2>2, <2>3 DEF IInv, SshdInv, SshdTypes, SshdState, Account, SocketInv, ThreadTypes, TypeOK
<1>. QED
  BY <1>1, Invariance, PTL

\* sshd goes past authentication only if a method accepted the user in the attempt
\* that ends it and PAM's account management has allowed the account, however
\* requests, answers, crashes of the process and dropped conversations interleave.
THEOREM SuccessIsEarned == Spec => []SuccessEarned
<1>1. IInv => SuccessEarned
  BY DEF IInv, SshdInv
<1>. QED
  BY <1>1, Invariance, PTL

\* At first nothing is established and no conversation linked.
LEMMA KeptInit == Init => Kept
BY DEF Init, Kept, AfterSuccess

\* The PAM process ends at any time; only a conversation that is linked takes sshd along.
LEMMA KeptThread ==
  ASSUME IInv, Kept, Thread \/ ThreadCrashes
  PROVE  Kept'
<1>1. UNCHANGED <<session, cred, cleanup>>
  BY DEF Thread, ThreadCrashes, sshpam_thread_conv, ThreadRecv, ThreadFails, ThreadAuthenticated, ThreadAccount,
         ThreadChauthtok, ThreadSucceeds, ThreadEnds, SshdKeeps, sessVars, ctxVars
<1>2. state' = state \/ (state' = "dead" /\ cleanup)
  BY DEF Thread, ThreadCrashes, sshpam_thread_conv, ThreadRecv, ThreadFails, ThreadAuthenticated, ThreadAccount,
         ThreadChauthtok, ThreadSucceeds, ThreadEnds, SshdKeeps, sessVars, ctxVars
<1>. QED
  BY <1>1, <1>2 DEF Kept, AfterSuccess

\* A conversation is dropped whenever sshd goes on to something else.
LEMMA Dropped ==
  ASSUME Kept, state \notin AfterSuccess \cup {"closed"}, UNCHANGED <<session, cred>>,
         ~cleanup' \/ state' \notin AfterSuccess \cup {"user"}
  PROVE  Kept'
BY DEF Kept, AfterSuccess

\* The steps of a conversation in sshd, and those of the client.
LEMMA KeptConversation ==
  ASSUME IInv, Kept,
         \/ ForkThread \/ SetHandler \/ LinkCtx \/ QueryInfo \/ QueryPrompt \/ QuerySuccess \/ QueryFails
         \/ do_authentication \/ input_userauth_request \/ Respond
  PROVE  Kept'
<1>1. state \notin AfterSuccess \cup {"closed"}
  BY DEF ForkThread, SetHandler, LinkCtx, QueryInfo, QueryPrompt, QuerySuccess, QueryFails,
         do_authentication, input_userauth_request, Respond, AfterSuccess
<1>2. UNCHANGED <<session, cred>>
  BY DEF ForkThread, SetHandler, LinkCtx, QueryInfo, QueryPrompt, QuerySuccess, QueryFails,
         do_authentication, input_userauth_request, Respond, sessVars
<1>3. CASE ForkThread
  BY <1>1, <1>2, <1>3, Dropped DEF ForkThread, Failed, AfterSuccess
<1>4. CASE SetHandler \/ LinkCtx \/ QueryInfo
  BY <1>1, <1>2, <1>4, Dropped DEF SetHandler, LinkCtx, QueryInfo, AfterSuccess
<1>5. CASE QueryPrompt \/ QuerySuccess \/ QueryFails
  BY <1>1, <1>2, <1>5, Dropped DEF QueryPrompt, QuerySuccess, QueryFails, sshpam_thread_cleanup, AfterSuccess
<1>6. CASE do_authentication
  BY <1>1, <1>2, <1>6, Dropped DEF do_authentication, ctxVars, Kept
<1>7. CASE input_userauth_request
  BY <1>1, <1>2, <1>7, Dropped DEF input_userauth_request, auth2_challenge_stop, sshpam_thread_cleanup
<1>8. CASE Respond
  BY <1>1, <1>2, <1>8, Dropped DEF Respond, sshpam_thread_cleanup, AfterSuccess
<1>. QED
  BY <1>3, <1>4, <1>5, <1>6, <1>7, <1>8

\* Credentials and the session come after authentication, and go with sshd.
LEMMA KeptNext ==
  ASSUME IInv, Kept, [Next]_vars
  PROVE  Kept'
<1>1. CASE do_pam_setcred \/ do_pam_session \/ do_pam_chauthtok
  BY <1>1 DEF do_pam_setcred, do_pam_session, do_pam_chauthtok, SessionStep, ctxVars, Kept, AfterSuccess
<1>2. CASE sshpam_cleanup
  BY <1>2 DEF sshpam_cleanup, Kept, AfterSuccess
<1>3. CASE input_service_request \/ ChangeOfUser \/ GraceAlarm
  BY <1>3 DEF input_service_request, ChangeOfUser, GraceAlarm, sessVars, ctxVars, Kept, AfterSuccess, Over
<1>4. CASE Hangup
  BY <1>4 DEF Hangup, sessVars, ctxVars, Kept, AfterSuccess
<1>5. CASE Finished \/ SshdDead \/ UNCHANGED vars
  BY <1>5 DEF Finished, SshdDead, vars, sessVars, ctxVars, Kept
<1>. QED
  BY <1>1, <1>2, <1>3, <1>4, <1>5, KeptThread, KeptConversation DEF Next, Sshd, Client

\* However sshd ends, after sshpam_cleanup, by the grace alarm or by the handler of SIGCHLD,
\* no session is open and no credentials are established (sigdie, sshpam_cleanup).
THEOREM NothingIsLeftOpen == Spec => []NothingLeftOpen
<1>1. Init => FullInv
  BY Initially, KeptInit DEF FullInv
<1>2. FullInv /\ [Next]_vars => FullInv'
  BY Inductive, KeptNext DEF FullInv
<1>3. FullInv => NothingLeftOpen
  BY DEF FullInv, Kept, NothingLeftOpen
<1>. QED
  BY <1>1, <1>2, <1>3, PTL DEF Spec

\* An attempt of an account that is denied leaves it denied and starts nothing.
LEMMA DeniedAttempt ==
  ASSUME IInv, state \notin Over, account = "denied", NEW ok \in BOOLEAN, NEW u, NEW a, NEW m,
         userauth_finish(ok, u, a, m, Status)
  PROVE  account' = "denied" /\ state' # "fork"
<1>1. Status \in Account \X BOOLEAN /\ Status[1] = "denied"
  BY Zenon DEF Status, IInv, Statuses, SshdInv, SshdTypes
<1>. QED
  BY <1>1, AttemptEffect DEF IInv, SshdInv

\* The steps that leave the account alone and do not fork.
LEMMA OtherSteps ==
  ASSUME \/ Thread \/ ThreadCrashes \/ SetHandler \/ LinkCtx \/ QueryInfo
         \/ do_pam_setcred \/ do_pam_session \/ do_pam_chauthtok \/ sshpam_cleanup
         \/ input_service_request \/ ChangeOfUser \/ Hangup \/ GraceAlarm
         \/ Finished \/ SshdDead \/ UNCHANGED vars
  PROVE  account' = account /\ (state' = "fork" => state = "fork")
<1>1. CASE Thread \/ ThreadCrashes
  BY <1>1 DEF Thread, ThreadCrashes, sshpam_thread_conv, ThreadRecv, ThreadFails, ThreadAuthenticated, ThreadAccount,
              ThreadChauthtok, ThreadSucceeds, ThreadEnds, SshdKeeps, ctxVars
<1>2. CASE SetHandler \/ LinkCtx \/ QueryInfo \/ do_pam_setcred \/ do_pam_session \/ do_pam_chauthtok \/ sshpam_cleanup
  BY <1>2 DEF SetHandler, LinkCtx, QueryInfo, do_pam_setcred, do_pam_session, do_pam_chauthtok, SessionStep, sshpam_cleanup
<1>3. CASE \/ input_service_request \/ ChangeOfUser \/ Hangup \/ GraceAlarm
           \/ Finished \/ SshdDead \/ UNCHANGED vars
  BY <1>3 DEF input_service_request, ChangeOfUser, Hangup, GraceAlarm, Finished, SshdDead, vars
<1>. QED
  BY <1>1, <1>2, <1>3

\* With the account denied no conversation goes on, so that no answer of a process
\* can overwrite the denial, and sshpam_init_ctx forks none.
LEMMA DenialSteps ==
  ASSUME IInv, [Next]_vars, account = "denied"
  PROVE  account' = "denied" /\ (state' = "fork" => state = "fork")
<1>0. ~(state \in {"fork", "signal", "link", "query"} \/ Asked)
  BY DEF IInv, SshdInv, Undenied
<1>1. ~ForkThread /\ ~QueryPrompt /\ ~QuerySuccess /\ ~QueryFails
  BY <1>0 DEF ForkThread, QueryPrompt, QuerySuccess, QueryFails
<1>2. CASE Respond
  <2>1. TRUE \in BOOLEAN
    OBVIOUS
  <2>2. CASE userauth_finish(TRUE, user, attempt, "kbdint", Status)
    BY <1>2, <2>1, <2>2, DeniedAttempt DEF Respond, Over
  <2>3. CASE Failed(attempt, "kbdint", Status)
    BY <2>3 DEF Failed, Status
  <2>. QED
    BY <1>0, <1>2, <2>2, <2>3 DEF Respond, Asked
<1>3. CASE input_userauth_request
  <2>1. PICK m \in Methods, u \in User :
          \/ ~Refused
          \/ \E ok \in Says(m) : userauth_finish(ok, u, attempt', m, Status)
    BY <1>3, Zenon DEF input_userauth_request
  <2>2. PICK ok \in Says(m) : userauth_finish(ok, u, attempt', m, Status)
    BY <2>1 DEF Refused
  <2>3. ok \in BOOLEAN
    BY <2>2, Zenon DEF Says, Methods
  <2>. QED
    BY <1>3, <2>2, <2>3, DeniedAttempt DEF input_userauth_request, Over
<1>4. CASE do_authentication
  <2>1. Status \in Account \X BOOLEAN /\ Status[1] = "denied"
    BY Zenon DEF Status, IInv, Statuses, SshdInv, SshdTypes
  <2>2. \A r \in do_pam_account(Status) : r[1] = "denied"
    BY <2>1, AccountAnswers
  <2>. QED
    BY <1>4, <2>2 DEF do_authentication
<1>. QED
  BY <1>1, <1>2, <1>3, <1>4, OtherSteps DEF Next, Sshd, Client

\* A denied account stays denied to the end of the connection and starts no conversation.
THEOREM DenialIsFinal == Spec => DeniedForGood
<1>1. IInv /\ [Next]_vars => [account = "denied" => account' = "denied" /\ (state' = "fork" => state = "fork")]_vars
  BY DenialSteps
<1>. QED
  BY <1>1, Invariance, PTL DEF Spec, DeniedForGood
=============================================================================
