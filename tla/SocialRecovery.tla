--------------------------- MODULE SocialRecovery ---------------------------
(***************************************************************************)
(* Recovery of a seed with the help of guardians.  A device uploads an     *)
(* encrypted seed and the hash of a video to all guardians and then writes *)
(* a recovery file.  Another device reads the file, asks all guardians for *)
(* a recovery session, shows a QR code, and polls them: a guardian that    *)
(* approves leaves its share of the decryption, of the backup and for the  *)
(* session it then has.  With a threshold of shares the seed is decrypted. *)
(*                                                                         *)
(* Backups and sessions are numbered in the order of their timestamps.     *)
(* Requests go to all guardians at once (join_all); one that is given up   *)
(* may be served later.                                                    *)
(***************************************************************************)
EXTENDS Integers, FiniteSets

CONSTANTS
    Peers,         \* number of guardians
    Silent,        \* guardians that approve nothing
    MaxBackups,    \* bound
    Video,         \* Video[b]: the video of backup b
    MaxSessions,   \* bound
    PollsOverlap,  \* BOOLEAN: a poll may be answered after another one, or after the
                   \* recovery it is about was cancelled, completed or cleared
    MaxActs        \* bound: answers given up, polls that fail, restarts

Guardians == 1 .. Peers
Backups == 1 .. MaxBackups
Sessions == 1 .. MaxSessions

RecoveryAssumption ==
    /\ Peers \in Nat \ {0} /\ Silent \subseteq Guardians
    /\ MaxBackups \in Nat \ {0} /\ DOMAIN Video = Backups
    /\ MaxSessions \in Nat /\ MaxActs \in Nat /\ PollsOverlap \in BOOLEAN

VARIABLES
    backup,     \* guardians that have one: the backup
    request,    \* guardians that have one: the session of the recovery request
    share,      \* guardians that made one: the share, of a session and a backup
    sent,       \* requests on the way
    upload,     \* the old device: uploadBackupFile, or Idle
    files,      \* the recovery files that were written
    start,      \* the new device: validateRecoveryFile, or Idle
    state,      \* AppState.social_recovery_state, or None
    polls,      \* socialRecoveryApprovals under way, with the states they have read
    fetching,   \* fetchSocialRecovery, before it polls
    loops,      \* a loop of polls goes on although its page has gone
    checked,    \* redux hasCheckedForSocialRecovery
    qr,         \* redux socialRecoveryQr is set
    shown,      \* redux socialRecoveryState: the number of approvals, or Unknown
    stage,      \* the seed of the new device
    given,      \* the numbers of backups and of sessions begun
    acts

guardianVars == <<backup, request, share>>
pageVars == <<fetching, loops, checked, qr, shown>>
deviceVars == <<start, state, polls, stage>>
vars == <<guardianVars, sent, upload, files, deviceVars, pageVars, given, acts>>

Idle == [b |-> 0, s |-> 0, waiting |-> {}, failed |-> FALSE]
None == [session |-> 0, backup |-> 0, shares |-> {}]
Unknown == -1

\* A call of all guardians; a request of session 0 stores a backup.
Call(b, s) == [b |-> b, s |-> s, waiting |-> Guardians, failed |-> FALSE]
Requests(b, s) == {[b |-> b, s |-> s, to |-> g] : g \in Guardians}
Calls == [b : 0 .. MaxBackups, s : 0 .. MaxSessions, waiting : SUBSET Guardians,
          failed : BOOLEAN]
States == {None} \cup [session : Sessions, backup : Backups,
                       shares : SUBSET (Guardians \X Backups)]

TypeOK ==
    /\ DOMAIN backup \subseteq Guardians /\ DOMAIN request \subseteq DOMAIN backup
    /\ DOMAIN share \subseteq DOMAIN request
    /\ backup \in [DOMAIN backup -> Backups] /\ request \in [DOMAIN request -> Sessions]
    /\ share \in [DOMAIN share -> [session : Sessions, backup : Backups]]
    /\ sent \subseteq [b : Backups, s : Sessions \cup {0}, to : Guardians]
    /\ {upload, start} \subseteq Calls /\ files \subseteq Backups
    /\ state \in States /\ polls \subseteq [fetch : BOOLEAN, of : States]
    /\ {fetching, loops, checked, qr} \subseteq BOOLEAN
    /\ shown \in {Unknown} \cup 0 .. Peers
    /\ stage \in {"fresh", "recovered", "registered"}
    /\ given \in [backups : Backups \cup {0}, sessions : Sessions \cup {0}]
    /\ acts \in 0 .. MaxActs

Init ==
    /\ backup = <<>> /\ request = <<>> /\ share = <<>> /\ sent = {}
    /\ upload = Idle /\ files = {}
    /\ start = Idle /\ state = None /\ polls = {} /\ stage = "fresh"
    /\ fetching = FALSE /\ loops = FALSE /\ checked = TRUE /\ qr = FALSE
    /\ shown = Unknown
    /\ given = [backups |-> 0, sessions |-> 0] /\ acts = 0

\* Guardian g stores v.
Stored(f, g, v) == [h \in DOMAIN f \cup {g} |-> IF h = g THEN v ELSE f[h]]

Act == acts < MaxActs /\ acts' = acts + 1

-----------------------------------------------------------------------------
\* The guardians.  handle_backup: an older backup is refused.
NewerBackup(m) == m.to \in DOMAIN backup => m.b > backup[m.to]

\* handle_recover: there is a backup with the same video, and the request is newer
\* than the last one.
SameVideo(m) == m.to \in DOMAIN backup /\ Video[m.b] = Video[backup[m.to]]
NewerRequest(m) ==
    SameVideo(m) /\ (m.to \in DOMAIN request => m.s > request[m.to])

Answered(call, m, ok) ==
    IF call.b = m.b /\ call.s = m.s /\ m.to \in call.waiting
    THEN [call EXCEPT !.waiting = @ \ {m.to}, !.failed = @ \/ ~ok]
    ELSE call

HandleBackup(m) ==
    /\ m.s = 0 /\ sent' = sent \ {m}
    /\ backup' = IF NewerBackup(m) THEN Stored(backup, m.to, m.b) ELSE backup
    /\ upload' = Answered(upload, m, NewerBackup(m))
    /\ UNCHANGED <<request, share, files, deviceVars, pageVars, given, acts>>

HandleRecover(m) ==
    /\ m.s # 0 /\ sent' = sent \ {m}
    /\ request' = IF NewerRequest(m) THEN Stored(request, m.to, m.s) ELSE request
    /\ start' = Answered(start, m, NewerRequest(m))
    /\ UNCHANGED <<backup, share, upload, files, state, polls, stage, pageVars, given,
                   acts>>

\* handle_approve_recovery: a share of the backup stored, for the session
\* requested, replaces an earlier one.
ApproveRecovery(g) ==
    /\ g \in DOMAIN request
    /\ share' = Stored(share, g, [session |-> request[g], backup |-> backup[g]])
    /\ UNCHANGED <<backup, request, sent, upload, files, deviceVars, pageVars, given,
                   acts>>

\* A guardian does not answer within 60 seconds.
GiveUp(m) ==
    /\ Act
    /\ upload' = Answered(upload, m, FALSE) /\ start' = Answered(start, m, FALSE)
    /\ <<upload, start>>' # <<upload, start>>
    /\ UNCHANGED <<guardianVars, sent, files, state, polls, stage, pageVars, given>>

-----------------------------------------------------------------------------
\* upload_backup_file: the seed is encrypted anew each time, and the file is
\* written when every guardian has accepted it.
BeginBackup ==
    /\ upload = Idle /\ given.backups < MaxBackups
    /\ given' = [given EXCEPT !.backups = @ + 1]
    /\ upload' = Call(given'.backups, 0)
    /\ sent' = sent \cup Requests(given'.backups, 0)
    /\ UNCHANGED <<guardianVars, files, deviceVars, pageVars, acts>>

EndBackup ==
    /\ upload # Idle /\ upload.waiting = {} /\ upload' = Idle
    /\ files' = IF upload.failed THEN files ELSE files \cup {upload.b}
    /\ UNCHANGED <<guardianVars, sent, deviceVars, pageVars, given, acts>>

-----------------------------------------------------------------------------
\* validate_recovery_file, offered while no recovery is shown and no federation
\* joined; start_social_recovery_v2 makes a key for a new session.
ChooseFile(b) ==
    /\ b \in files /\ start = Idle /\ checked /\ ~qr /\ ~fetching
    /\ \A p \in polls : ~p.fetch
    /\ stage = "fresh" /\ given.sessions < MaxSessions
    /\ given' = [given EXCEPT !.sessions = @ + 1]
    /\ start' = Call(b, given'.sessions)
    /\ sent' = sent \cup Requests(b, given'.sessions)
    /\ UNCHANGED <<guardianVars, upload, files, state, polls, stage, pageVars, acts>>

\* The recovery is saved if all guardians have accepted it; then it is fetched.
Started ==
    /\ start # Idle /\ start.waiting = {} /\ start' = Idle
    /\ \/ start.failed /\ UNCHANGED <<state, fetching>>
       \/ /\ ~start.failed /\ fetching' = TRUE
          /\ state' = [session |-> start.s, backup |-> start.b, shares |-> {}]
    /\ UNCHANGED <<guardianVars, sent, upload, files, polls, stage, loops, checked, qr,
                   shown, given, acts>>

\* fetchSocialRecovery: recoveryQr, then the approvals.
Fetch ==
    /\ fetching /\ polls = {} /\ fetching' = FALSE
    /\ IF state = None
       THEN checked' = TRUE /\ qr' = FALSE /\ shown' = Unknown /\ UNCHANGED polls
       ELSE polls' = {[fetch |-> TRUE, of |-> state]} /\ UNCHANGED <<checked, qr, shown>>
    /\ UNCHANGED <<guardianVars, sent, upload, files, start, state, stage, loops, given,
                   acts>>

\* refreshSocialRecoveryState, 3 seconds after the last answer (the web), or every
\* second (CompleteSocialRecovery); without a recovery it fails.
Poll ==
    /\ qr \/ loops
    /\ ~fetching /\ state # None
    /\ polls = {} \/ (PollsOverlap /\ Cardinality(polls) < 2)
    /\ polls' = polls \cup {[fetch |-> FALSE, of |-> state]}
    /\ UNCHANGED <<guardianVars, sent, upload, files, start, state, stage, pageVars,
                   given, acts>>

\* download_decryption_share_from: the share is decrypted with the session's key
\* and verified against the seed of the file.
SharesFor(s) ==
    {<<g, share[g].backup>> : g \in {h \in DOMAIN share :
        share[h] = [session |-> s.session, backup |-> s.backup]}}

\* social_recovery_approvals: what it has read before it asked the guardians is
\* saved with the shares it got, whatever has been saved meanwhile.  A guardian
\* that cannot be reached or approves later is pending.
Approvals ==
    /\ \E p \in polls : \E got \in SUBSET SharesFor(p.of) :
        /\ IF SharesFor(p.of) \subseteq p.of.shares \cup got THEN UNCHANGED acts ELSE Act
        /\ state' = [p.of EXCEPT !.shares = @ \cup got] /\ polls' = polls \ {p}
        /\ qr' = (qr \/ p.fetch) /\ checked' = (checked \/ p.fetch)
    /\ shown' = Cardinality({x[1] : x \in state'.shares})
    /\ UNCHANGED <<guardianVars, sent, upload, files, start, stage, fetching, loops, given>>

\* required_threashold_of: the guardians less a third of the others.
ThresholdOf(n) == n - (n - 1) \div 3
CanContinue == shown # Unknown /\ shown >= ThresholdOf(Peers)

\* combine_recovered_user_phrase fails with too few shares or with a wrong one.
Combines ==
    /\ Cardinality(state.shares) >= ThresholdOf(Peers)
    /\ \A x \in state.shares : x[2] = state.backup

\* The page goes; if it is polling then the next poll is scheduled all the same.
LeavePage ==
    /\ qr' = FALSE /\ shown' = Unknown /\ loops' = (loops \/ polls # {})
    /\ UNCHANGED <<checked, fetching>>
Unhurried == PollsOverlap \/ polls = {}

\* complete_social_recovery: the recovery is kept until the device is registered.
Complete ==
    /\ qr /\ CanContinue /\ Unhurried /\ Combines /\ stage' = "recovered" /\ LeavePage
    /\ UNCHANGED <<guardianVars, sent, upload, files, start, state, polls, given, acts>>

\* cancel_social_recovery.
Cancel ==
    /\ qr /\ ~CanContinue /\ Unhurried /\ state' = None /\ LeavePage
    /\ UNCHANGED <<guardianVars, sent, upload, files, start, polls, stage, given, acts>>

\* register_device_with_index clears the recovery.
Register ==
    /\ stage = "recovered" /\ checked /\ ~qr /\ ~fetching /\ Unhurried
    /\ stage' = "registered" /\ state' = None
    /\ UNCHANGED <<guardianVars, sent, upload, files, start, polls, pageVars, given, acts>>

\* The app of the new device is closed and opened again.
Reopen ==
    /\ Act /\ start' = Idle /\ polls' = {}
    /\ fetching' = TRUE /\ loops' = FALSE /\ checked' = FALSE /\ qr' = FALSE
    /\ shown' = Unknown
    /\ UNCHANGED <<guardianVars, sent, upload, files, state, stage, given>>

Next ==
    \/ \E m \in sent : HandleBackup(m) \/ HandleRecover(m) \/ GiveUp(m)
    \/ \E g \in Guardians \ Silent : ApproveRecovery(g)
    \/ BeginBackup \/ EndBackup
    \/ \E b \in Backups : ChooseFile(b)
    \/ Started \/ Fetch \/ Poll \/ Approvals
    \/ Complete \/ Cancel \/ Register \/ Reopen

\* The app polls, and the guardians that are willing approve the session that
\* they are asked for.
Fairness ==
    /\ WF_vars(Started) /\ WF_vars(Fetch) /\ WF_vars(Poll) /\ WF_vars(Approvals)
    /\ \A g \in Guardians \ Silent : WF_vars(ApproveRecovery(g))

Spec == Init /\ [][Next]_vars /\ Fairness

-----------------------------------------------------------------------------
\* A recovery file that was written can be recovered from as long as no other
\* backup has been begun, even if a request of an earlier one arrives late.
FilesAreBackedUp ==
    given.backups \in files =>
        \A g \in Guardians : g \in DOMAIN backup /\ backup[g] = given.backups

\* Once there is a recovery file, one of those that were written can be recovered
\* from ("Store the recovery file").
FilesStayUsable ==
    upload = Idle /\ files # {} =>
        \E b \in files :
            Cardinality({g \in DOMAIN backup : backup[g] = b}) >= ThresholdOf(Peers)

\* Who waits for approvals waits for those that the guardians can give: they have
\* been asked for this session and no request of an earlier one takes its place.
GuardiansAreAsked ==
    state # None /\ start = Idle =>
        \A g \in Guardians : g \in DOMAIN request /\ request[g] = state.session

\* Who is told that no approval remains can complete the recovery
\* (SocialRecovery canContinue).
NoneRemains == qr /\ CanContinue => Combines

\* A recovery that was cancelled, or completed and cleared, does not come back:
\* one begins with a file only.
EndedForGood ==
    [][state = None /\ state' # None => start # Idle /\ start' = Idle]_vars

\* Who waits with a file of the last backup comes to be able to complete, however
\* many guardians up to a third are silent, unless the recovery is cancelled.
ApprovedInTheEnd ==
    \A s \in Sessions :
        (state.session = s /\ state.backup = given.backups)
            ~> (CanContinue \/ stage # "fresh" \/ state.session # s
                \/ state.backup # given.backups)
=============================================================================
