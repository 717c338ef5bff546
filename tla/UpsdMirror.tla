----------------------------- MODULE UpsdMirror -----------------------------
(***************************************************************************)
(* DaemonSync against an upsd that has a state: it can be reached or not,  *)
(* lists some devices, and each device has a description and either a      *)
(* status or (NOCOMM) a driver that does not answer.  That state changes   *)
(* at any time, between any two requests of the two tasks.  The question   *)
(* is whether the table follows it.                                        *)
(***************************************************************************)
EXTENDS DaemonSync

VARIABLES
    up,       \* upsd can be reached
    rlisted,  \* devices of its ups.conf
    rdesc,    \* their descriptions
    rstatus   \* their ups.status

upsd == <<up, rlisted, rdesc, rstatus>>

allvars == <<vars, upsd>>

MirrorInit ==
    /\ Init
    /\ up \in BOOLEAN
    /\ rlisted \in SUBSET Devices
    /\ rdesc \in [Devices -> Descs]
    /\ rstatus \in [Devices -> Status \cup {NoComm}]

Answers(d) == up /\ d \in rlisted /\ rstatus[d] \in Status

(* upsd is stopped or started, gets another ups.conf, or a device changes. *)
UpsdChanges ==
    /\ \/ up' = ~up /\ UNCHANGED <<rlisted, rdesc, rstatus>>
       \/ \E L \in SUBSET Devices : rlisted' = L /\ UNCHANGED <<up, rdesc, rstatus>>
       \/ \E d \in Devices, t \in Descs :
             rdesc' = [rdesc EXCEPT ![d] = t] /\ UNCHANGED <<up, rlisted, rstatus>>
       \/ \E d \in Devices, s \in Status \cup {NoComm} :
             rstatus' = [rstatus EXCEPT ![d] = s] /\ UNCHANGED <<up, rlisted, rdesc>>
    /\ UNCHANGED vars

(* DeviceSyncTask: every request is answered from upsd's state then. *)
DeviceSyncStep ==
    /\ \/ up /\ ListOk(rlisted, rdesc)
       \/ ~up /\ ListFail
       \/ Classify \/ Patch \/ Abort
    /\ UNCHANGED upsd

LoadStep(d) ==
    /\ \/ Answers(d) /\ LoadOk(d, rstatus[d])
       \/ ~Answers(d) /\ LoadFail(d)
    /\ UNCHANGED upsd

PollStep(m) == Poll(m) /\ UNCHANGED upsd

ReplyStep(d) ==
    /\ \/ Answers(d) /\ ReplyOk(d, rstatus[d])
       \/ ~Answers(d) /\ ReplyFail(d)
    /\ UNCHANGED upsd

StatusSyncStep == (Apply \/ Send) /\ UNCHANGED upsd

MirrorNext ==
    \/ UpsdChanges
    \/ DeviceSyncStep \/ StatusSyncStep
    \/ \E d \in Devices : LoadStep(d) \/ ReplyStep(d)
    \/ \E m \in {"full", "partial"} : PollStep(m)

(* Both tasks run until shutdown and every request ends, by an answer or   *)
(* by its timeout.  UpsPollInterval::tick yields Full again and again,     *)
(* whatever partial polls come between.                                    *)
MirrorSpec ==
    /\ MirrorInit /\ [][MirrorNext]_allvars
    /\ WF_allvars(DeviceSyncStep) /\ WF_allvars(StatusSyncStep)
    /\ \A d \in Devices : WF_allvars(LoadStep(d)) /\ WF_allvars(ReplyStep(d))
    /\ SF_allvars(PollStep("full"))

-----------------------------------------------------------------------------
(* The table shows what upsd has: all listed devices with their status     *)
(* (NOCOMM for the ones that do not answer), or a dead daemon if upsd is   *)
(* not there or no device of it answers.                                   *)
Mirrored ==
    IF \E d \in Devices : Answers(d)
    THEN /\ dstatus = "Online"
         /\ keys = rlisted
         /\ \A d \in keys : entry[d].status = rstatus[d]
         /\ \A d \in keys : Answers(d) => entry[d].desc = rdesc[d]
    ELSE dstatus = "Dead" /\ keys = {}

(* Once upsd stops changing, the table comes to mirror it and stays so,    *)
(* whatever stale answers the two tasks were holding.                      *)
TableConverges == <>[][UNCHANGED upsd]_allvars => <>[]Mirrored
=============================================================================
