---------------------------- MODULE UsqueConfig ----------------------------
(***************************************************************************)
(* Invoke("register") of usque-ios/mobile/mobile.go and the account file   *)
(* it keeps: the enrolment with the server, saveConfig's write to a        *)
(* temporary file and rename, calls for the same path that overlap (no     *)
(* lock is taken), and a process that is killed in between. The file       *)
(* system is modelled by inodes: WriteFile truncates whatever the          *)
(* temporary name is linked to, a leftover or another call's file included.*)
(***************************************************************************)
EXTENDS Naturals

CONSTANTS
    Calls,      \* the application's threads that call register
    Accounts,   \* accounts the server can enrol
    Partial,    \* those it answers with no public key of the peer
    Inodes,     \* files that exist at the same time
    None

ASSUME ConfigAssumption ==
    /\ None \notin Inodes \cup Accounts
    /\ {"empty", "torn"} \cap Accounts = {}
    /\ Partial \subseteq Accounts

VARIABLES
    pc,         \* where each register call stands
    acct,       \* the account config the call got from the server
    fd,         \* the inode its os.WriteFile opened
    path, tmp,  \* what configPath and configPath + ".tmp" are linked to
    data,       \* the account an inode holds whole, "empty" or "torn"
    enrolled,   \* accounts with an enrolled key at the server
    answer,     \* what a call answered when it last returned
    clash       \* history: inodes opened while another call was saving

vars == <<pc, acct, fd, path, tmp, data, enrolled, answer, clash>>
files == <<path, tmp, data, clash>>

TypeOK ==
    /\ pc \in [Calls -> {"idle", "check", "enroll", "open", "write", "rename"}]
    /\ acct \in [Calls -> Accounts \cup {None}]
    /\ fd \in [Calls -> Inodes \cup {None}]
    /\ path \in Inodes \cup {None} /\ tmp \in Inodes \cup {None}
    /\ data \in [Inodes -> Accounts \cup {"empty", "torn"}]
    /\ enrolled \in SUBSET Accounts
    /\ answer \in [Calls -> {"none", "ok", "error"}]
    /\ clash \in SUBSET Inodes

Init ==
    /\ pc = [c \in Calls |-> "idle"]
    /\ acct = [c \in Calls |-> None]
    /\ fd = [c \in Calls |-> None]
    /\ path = None /\ tmp = None
    /\ data = [i \in Inodes |-> "empty"]
    /\ enrolled = {}
    /\ answer = [c \in Calls |-> "none"]
    /\ clash = {}

\* loadAccountConfig: the file exists, decodes and is complete.
Loadable == path # None /\ data[path] \in Accounts \ Partial

\* The call is between the open and the rename of the temporary file.
Saving(c) == pc[c] \in {"write", "rename"}

Step(c, p) == pc' = [pc EXCEPT ![c] = p]

Return(c, a) ==
    /\ Step(c, "idle")
    /\ answer' = [answer EXCEPT ![c] = a]
    /\ acct' = [acct EXCEPT ![c] = None]
    /\ fd' = [fd EXCEPT ![c] = None]

\* Only a request that says "idempotent" looks at the file that is there.
Register(c) ==
    /\ pc[c] = "idle"
    /\ Step(c, "check") \/ Step(c, "enroll")
    /\ answer' = [answer EXCEPT ![c] = "none"]
    /\ UNCHANGED <<acct, fd, files, enrolled>>

\* An idempotent request is answered from a file that loads.
Check(c) ==
    /\ pc[c] = "check"
    /\ \/ Loadable /\ Return(c, "ok")
       \/ ~Loadable /\ Step(c, "enroll") /\ UNCHANGED <<answer, acct, fd>>
    /\ UNCHANGED <<files, enrolled>>

\* mobile.Register: api.Register, a new key pair, api.EnrollKey.
Enroll(c) ==
    /\ pc[c] = "enroll"
    /\ \E a \in Accounts \ enrolled :
         /\ acct' = [acct EXCEPT ![c] = a]
         /\ enrolled' = enrolled \cup {a}
    /\ Step(c, "open")
    /\ UNCHANGED <<fd, files, answer>>

\* One of its requests fails, or its answer is refused.
EnrollFails(c) ==
    /\ pc[c] = "enroll"
    /\ Return(c, "error")
    /\ UNCHANGED <<files, enrolled>>

\* Inode i is opened and truncated; clash notes whether another call saves.
Truncate(c, i) ==
    /\ fd' = [fd EXCEPT ![c] = i]
    /\ data' = [data EXCEPT ![i] = "empty"]
    /\ clash' = IF \E d \in Calls \ {c} : Saving(d) THEN clash \cup {i}
                                                    ELSE clash \ {i}

\* An inode no name is linked to and no call has open.
Fresh(i) == i # path /\ i # tmp /\ \A d \in Calls : fd[d] # i

\* Mutant: the account is written to configPath itself.
OpenInPlace(c) ==
    /\ pc[c] = "open"
    /\ \E i \in Inodes :
         /\ i = path \/ (path = None /\ Fresh(i))
         /\ path' = i
         /\ Truncate(c, i)
    /\ Step(c, "write")
    /\ UNCHANGED <<acct, tmp, enrolled, answer>>

\* os.WriteFile opens the temporary name with O_CREATE|O_TRUNC.
Open(c) ==
    /\ pc[c] = "open"
    /\ \E i \in Inodes :
         /\ i = tmp \/ (tmp = None /\ Fresh(i))
         /\ tmp' = i
         /\ Truncate(c, i)
    /\ Step(c, "write")
    /\ UNCHANGED <<acct, path, enrolled, answer>>

\* The marshalling, the directory or the open fails.
OpenFails(c) ==
    /\ pc[c] = "open"
    /\ Return(c, "error")
    /\ UNCHANGED <<files, enrolled>>

\* The bytes go to the inode that was opened, whatever its name is by now;
\* over what another call wrote a shorter account leaves a tail.
Write(c) ==
    /\ pc[c] = "write"
    /\ \E d \in {acct[c]} \cup (IF data[fd[c]] = "empty" THEN {} ELSE {"torn"}) :
         data' = [data EXCEPT ![fd[c]] = d]
    /\ Step(c, "rename")
    /\ UNCHANGED <<acct, fd, path, tmp, clash, enrolled, answer>>

\* Mutant: a failed write is renamed all the same.
WriteFailsIgnored(c) ==
    /\ pc[c] = "write" /\ Step(c, "rename")
    /\ UNCHANGED <<acct, fd, files, enrolled, answer>>

\* A write that fails, with nothing or a part written; the temporary file
\* stays behind.
WriteFails(c) ==
    /\ pc[c] = "write"
    /\ \E d \in {data[fd[c]], "torn"} : data' = [data EXCEPT ![fd[c]] = d]
    /\ Return(c, "error")
    /\ UNCHANGED <<path, tmp, clash, enrolled>>

\* os.Rename replaces configPath in one step, by what the temporary name is
\* linked to at that moment.
Rename(c) ==
    /\ pc[c] = "rename" /\ tmp # None
    /\ path' = tmp /\ tmp' = None
    /\ Return(c, "ok")
    /\ UNCHANGED <<data, clash, enrolled>>

\* Mutant: the error of the rename is dropped.
RenameFailsSilent(c) ==
    /\ pc[c] = "rename"
    /\ tmp' \in {None, tmp}
    /\ Return(c, "ok")
    /\ UNCHANGED <<path, data, clash, enrolled>>

\* The rename fails, always so when another call has taken the temporary
\* file; it is removed, and a failure of the removal is ignored.
RenameFails(c) ==
    /\ pc[c] = "rename"
    /\ tmp' \in {None, tmp}
    /\ Return(c, "error")
    /\ UNCHANGED <<path, data, clash, enrolled>>

\* The process is killed: the calls are gone, the files stay as they are,
\* one that was being written with a part of what was to come.
Crash ==
    /\ \E c \in Calls : pc[c] # "idle"
    /\ \E cut \in SUBSET {fd[c] : c \in {d \in Calls : pc[d] = "write"}} :
         data' = [i \in Inodes |-> IF i \in cut THEN "torn" ELSE data[i]]
    /\ pc' = [c \in Calls |-> "idle"]
    /\ acct' = [c \in Calls |-> None] /\ fd' = [c \in Calls |-> None]
    /\ answer' = [c \in Calls |-> "none"]
    /\ UNCHANGED <<path, tmp, clash, enrolled>>

Next ==
    \/ \E c \in Calls :
         \/ Register(c) \/ Check(c) \/ Enroll(c) \/ EnrollFails(c)
         \/ Open(c) \/ OpenFails(c) \/ Write(c) \/ WriteFails(c)
         \/ Rename(c) \/ RenameFails(c)
    \/ Crash

Spec == Init /\ [][Next]_vars

-----------------------------------------------------------------------------
(* Properties. Nothing keeps two calls for one path apart, so a file that  *)
(* was opened while another call was between its open and its rename may   *)
(* end up torn at configPath; what follows is about all other files, with  *)
(* any number of calls enrolling, checking and failing beside the one that *)
(* saves.                                                                  *)

Mixed == path # None /\ path \in clash

\* Whenever the process dies, the next start finds no file or a whole one:
\* configPath never holds what a single saveConfig was still writing, and
\* what it holds was enrolled with the server.
ConfigWhole == path # None /\ ~Mixed => data[path] \in enrolled

\* As long as a call's ok stands, the next start finds an account it can
\* load, or one the server itself left incomplete: Register does not look
\* for the peer's key, loadAccountConfig refuses a file without it.
OKMeansSaved ==
    \A c \in Calls : answer[c] = "ok" =>
        path # None /\ (Mixed \/ data[path] \in Accounts)

\* Once there is an account, no failure, crash or later call leaves the app
\* without one, but for a call that was given an incomplete one.
NeverWithoutAccount ==
    [][Loadable => Loadable' \/ Mixed' \/ data'[path'] \in Partial]_vars
=============================================================================
