----------------------------- MODULE OtaTransfer ----------------------------
(***************************************************************************)
(* What an OTA session of the web configurator promises, without HTTP     *)
(* requests, retries or the device's receive buffer (spec, sections 4.1   *)
(* and 5):                                                                 *)
(*   - one session is active at a time;                                    *)
(*   - a session takes an image and the device acknowledges more and more  *)
(*     of its bytes;                                                       *)
(*   - the image is committed to flash only once all of it has been        *)
(*     acknowledged, and only a session's own image;                       *)
(*   - a session reports success only while its image is in flash and      *)
(*     fully acknowledged; it may fail at any point, also after the        *)
(*     commit (a lost reply).                                              *)
(* OtaSession, with its requests, channel and device, implements it.      *)
(***************************************************************************)
EXTENDS Naturals, Sequences

CONSTANTS
    Sessions,  \* the clicks that may start a session
    Files,     \* the images a session may take
    NoFile,    \* a session that has not taken an image
    OldImage   \* the flash before any commit

VARIABLES
    status,  \* each session: "idle", "running", "done" or "aborted"
    image,   \* the image each session took
    acked,   \* how many of its bytes the device acknowledged
    flash    \* the image in flash

avars == <<status, image, acked, flash>>

Running == {s \in Sessions : status[s] = "running"}

Init ==
    /\ status = [s \in Sessions |-> "idle"]
    /\ image = [s \in Sessions |-> NoFile]
    /\ acked = [s \in Sessions |-> 0]
    /\ flash = OldImage

\* A session starts with an image, while no other session runs.
Start(s) ==
    /\ status[s] = "idle"
    /\ Running = {}
    /\ \E f \in Files : image' = [image EXCEPT ![s] = f]
    /\ status' = [status EXCEPT ![s] = "running"]
    /\ UNCHANGED <<acked, flash>>

\* The device acknowledges more of the image.
Upload(s) ==
    /\ status[s] = "running"
    /\ acked[s] < Len(image[s])
    /\ \E n \in (acked[s] + 1)..Len(image[s]) : acked' = [acked EXCEPT ![s] = n]
    /\ UNCHANGED <<status, image, flash>>

\* The fully acknowledged image is committed to flash.
Commit(s) ==
    /\ status[s] = "running"
    /\ acked[s] = Len(image[s])
    /\ flash' = image[s]
    /\ UNCHANGED <<status, image, acked>>

\* The session reports success.
Finish(s) ==
    /\ status[s] = "running"
    /\ acked[s] = Len(image[s])
    /\ flash = image[s]
    /\ status' = [status EXCEPT ![s] = "done"]
    /\ UNCHANGED <<image, acked, flash>>

\* The session reports an error.
Fail(s) ==
    /\ status[s] = "running"
    /\ status' = [status EXCEPT ![s] = "aborted"]
    /\ UNCHANGED <<image, acked, flash>>

Next == \E s \in Sessions :
            Start(s) \/ Upload(s) \/ Commit(s) \/ Finish(s) \/ Fail(s)

\* A running session ends.
Fairness == \A s \in Sessions : WF_avars(Finish(s) \/ Fail(s))

Spec == Init /\ [][Next]_avars

FairSpec == Spec /\ Fairness

=============================================================================
