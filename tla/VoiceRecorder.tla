---------------------------- MODULE VoiceRecorder ----------------------------
(***************************************************************************)
(* The record button of plugin-voice: the recorder over getUserMedia and   *)
(* MediaRecorder (recorder.ts), the bar that drives it                     *)
(* (ui/voice-recorder-bar.tsx), and the transcription route it posts to    *)
(* (server/voice-controller.ts, server/stt-server.ts).  A recording is     *)
(* numbered; its stream, its MediaRecorder and its answer go by the        *)
(* number.  The browser's media devices and the speech provider are        *)
(* external: they answer late, fail, or lose the device at any moment.     *)
(***************************************************************************)
EXTENDS Naturals, FiniteSets

CONSTANT MaxRecordings      \* bound on the recordings of one page

ASSUME VoiceAssumption == MaxRecordings \in Nat

Recordings == 1 .. MaxRecordings

VARIABLES
    bar,         \* [phase, mounted, held]: the state and recorderRef of the bar
    rec,         \* the closure of createRecorder: [state, stream, stopping]
    media,       \* the MediaRecorder of each recording
    tracks,      \* recordings whose microphone tracks are live
    last,        \* the recording the bar has started last
    post,        \* the request to the transcription route: [of, step, answer]
    answers      \* what the user was told of each recording

voiceVars == <<bar, rec, media, tracks, last, post, answers>>

NoStream == 0
NoPost == [step |-> "none", status |-> 0]

VoiceTypeOK ==
    /\ bar \in [phase : {"idle", "requesting", "recording", "processing", "error"},
                mounted : BOOLEAN, held : BOOLEAN]
    /\ rec \in [state : {"idle", "requesting", "recording", "processing", "stopped"},
                stream : Recordings \cup {NoStream}, stopping : BOOLEAN]
    /\ media \in [Recordings -> {"none", "recording", "ending", "inactive"}]
    /\ tracks \subseteq Recordings
    /\ last \in Recordings \cup {0}
    /\ post.step \in {"none", "sent", "upstream", "answered"}
    /\ answers \in [Recordings -> Nat]

VoiceInit ==
    /\ bar = [phase |-> "idle", mounted |-> TRUE, held |-> FALSE]
    /\ rec = [state |-> "idle", stream |-> NoStream, stopping |-> FALSE]
    /\ media = [r \in Recordings |-> "none"]
    /\ tracks = {}
    /\ last = 0
    /\ post = NoPost
    /\ answers = [r \in Recordings |-> 0]

----------------------------------------------------------------------------
(* releaseStream, of the stream the closure refers to now.  A recorder     *)
(* whose tracks have ended ends too, and says so in a later task.          *)
ReleasedTracks == tracks \ {rec.stream}
ReleasedMedia ==
    [r \in Recordings |-> IF r = rec.stream /\ media[r] = "recording" THEN "ending" ELSE media[r]]

Told(r) == [answers EXCEPT ![r] = @ + 1]
Surface == [bar EXCEPT !.phase = "error"]

(* ensureSecureContext: what the page may lack.                            *)
Browsers == {"no mediaDevices", "no getUserMedia", "no MediaRecorder", "whole"}
SecureContext(browser) == browser = "whole"

(* A click on the idle button: start(), createRecorder on the first one,   *)
(* recorder.start() and doStart up to getUserMedia.  Without a secure      *)
(* context or a MediaRecorder the promise rejects at once.                 *)
ClickStart(browser) ==
    /\ bar.mounted /\ bar.phase = "idle" /\ last < MaxRecordings
    /\ rec.state # "recording"
    /\ last' = last + 1
    /\ IF SecureContext(browser)
       THEN /\ bar' = [bar EXCEPT !.phase = "requesting", !.held = TRUE]
            /\ rec' = [rec EXCEPT !.state = "requesting"]
            /\ UNCHANGED answers
       ELSE /\ bar' = [Surface EXCEPT !.held = TRUE]
            /\ answers' = Told(last + 1)
            /\ UNCHANGED rec
    /\ UNCHANGED <<media, tracks, post>>

(* The button in its error state clears the error.                         *)
ClickRetry ==
    /\ bar.mounted /\ bar.phase = "error"
    /\ bar' = [bar EXCEPT !.phase = "idle"]
    /\ UNCHANGED <<rec, media, tracks, last, post, answers>>

(* getUserMedia is pending: the first start() of the recording that the    *)
(* browser has not answered.                                               *)
Asking == last # 0 /\ media[last] = "none" /\ answers[last] = 0

(* It answers with a stream: doStart goes on whatever became of the        *)
(* recorder meanwhile, and the promise of start() settles in the same      *)
(* task.                                                                   *)
GrantMic ==
    /\ Asking
    /\ rec' = [rec EXCEPT !.stream = last, !.state = "recording"]
    /\ media' = [media EXCEPT ![last] = "recording"]
    /\ tracks' = tracks \cup {last}
    /\ bar' = [bar EXCEPT !.phase = "recording"]
    /\ UNCHANGED <<last, post, answers>>

(* The MediaRecorder cannot be built or started: the stream is released.   *)
StartFails ==
    /\ Asking
    /\ rec' = [rec EXCEPT !.stream = NoStream, !.state = "idle"]
    /\ bar' = Surface
    /\ answers' = Told(last)
    /\ UNCHANGED <<media, tracks, last, post>>

(* getUserMedia rejects: mapMediaError, and the bar shows the error.       *)
DenyMic ==
    /\ Asking
    /\ rec' = [rec EXCEPT !.state = "idle"]
    /\ bar' = Surface
    /\ answers' = Told(last)
    /\ UNCHANGED <<media, tracks, last, post>>

----------------------------------------------------------------------------
(* A click while recording: stop() wants the state "recording".            *)
ClickStop ==
    /\ bar.mounted /\ bar.phase = "recording" /\ bar.held
    /\ IF rec.state = "recording"
       THEN /\ rec' = [rec EXCEPT !.state = "processing", !.stopping = TRUE]
            /\ media' = [media EXCEPT ![rec.stream] = "ending"]
            /\ bar' = [bar EXCEPT !.phase = "processing"]
            /\ UNCHANGED answers
       ELSE /\ bar' = Surface
            /\ answers' = Told(last)
            /\ UNCHANGED <<rec, media>>
    /\ UNCHANGED <<tracks, last, post>>

(* The 'stop' event: the state becomes "stopped" even when nobody waits;   *)
(* a waiting stop() releases the stream and the bar posts the recording.   *)
StopEvent(r) ==
    /\ media[r] = "ending"
    /\ rec' = [rec EXCEPT !.state = "stopped", !.stopping = FALSE,
                          !.stream = IF rec.stopping THEN NoStream ELSE @]
    /\ media' = [media EXCEPT ![r] = "inactive"]
    /\ IF rec.stopping
       THEN /\ tracks' = ReleasedTracks
            /\ post' = [step |-> "sent", status |-> 0]
       ELSE UNCHANGED <<tracks, post>>
    /\ UNCHANGED <<bar, last, answers>>

(* The 'error' event and the 'stop' event the browser fires after it: the  *)
(* stream is released and either the stop() or the onError is told.        *)
MutErrorEvent(r) ==
    /\ media[r] \in {"recording", "ending"}
    /\ rec' = [rec EXCEPT !.state = "stopped", !.stopping = FALSE,
                          !.stream = IF rec.stopping THEN NoStream ELSE @]
    /\ tracks' = IF rec.stopping THEN ReleasedTracks ELSE tracks
    /\ media' = [ReleasedMedia EXCEPT ![r] = "inactive"]
    /\ bar' = Surface
    /\ answers' = Told(r)
    /\ UNCHANGED <<last, post>>

ErrorEvent(r) ==
    /\ media[r] \in {"recording", "ending"}
    /\ rec' = [state |-> "stopped", stream |-> NoStream, stopping |-> FALSE]
    /\ tracks' = ReleasedTracks
    /\ media' = [ReleasedMedia EXCEPT ![r] = "inactive"]
    /\ bar' = Surface
    /\ answers' = Told(r)
    /\ UNCHANGED <<last, post>>

(* The device is unplugged: its tracks end, and so does the recorder.      *)
DeviceLost(r) ==
    /\ r \in tracks /\ media[r] = "recording"
    /\ tracks' = tracks \ {r}
    /\ media' = [media EXCEPT ![r] = "ending"]
    /\ UNCHANGED <<bar, rec, last, post, answers>>

(* The component leaves the page: release().  A stop() that is waiting     *)
(* goes on waiting for its event.                                          *)
Unmount ==
    /\ bar.mounted
    /\ bar' = [bar EXCEPT !.mounted = FALSE, !.held = FALSE]
    /\ IF bar.held
       THEN /\ tracks' = ReleasedTracks
            /\ media' = ReleasedMedia
            /\ rec' = [rec EXCEPT !.stream = NoStream, !.state = "idle"]
       ELSE UNCHANGED <<tracks, media, rec>>
    /\ UNCHANGED <<last, post, answers>>

----------------------------------------------------------------------------
(* stt() and validateSttAudio: the form, its field and its size.           *)
Validates(audio) == audio = "fits"
SttReceives(audio) ==
    /\ post.step = "sent"
    /\ post' = IF Validates(audio) THEN [step |-> "upstream", status |-> 0]
               ELSE [step |-> "answered", status |-> 400]
    /\ UNCHANGED <<bar, rec, media, tracks, last, answers>>

(* handleSttRequest: what each answer of the provider becomes.  A timeout  *)
(* while the body is read is a body that does not parse.                   *)
SttStatus(upstream) ==
    CASE upstream = "timeout" -> 504
      [] upstream \in {"network", "malformed", "timeout in body"} -> 502
      [] upstream = "server error" -> 502
      [] upstream = "rate limit" -> 429
      [] upstream = "text" -> 200

Upstreams == {"timeout", "network", "malformed", "timeout in body", "server error",
              "rate limit", "text"}

SttAnswers(upstream) ==
    /\ post.step = "upstream"
    /\ post' = [step |-> "answered", status |-> SttStatus(upstream)]
    /\ UNCHANGED <<bar, rec, media, tracks, last, answers>>

(* The rest of stop(): the transcript is handed over, or the error shown.  *)
Finish(reached, wellFormed) ==
    /\ post.step = "answered"
    /\ post' = NoPost
    /\ bar' = IF reached /\ post.status = 200 /\ wellFormed THEN [bar EXCEPT !.phase = "idle"]
              ELSE Surface
    /\ answers' = Told(last)
    /\ UNCHANGED <<rec, media, tracks, last>>

VoiceNext ==
    \/ \E browser \in Browsers : ClickStart(browser)
    \/ ClickRetry
    \/ GrantMic
    \/ StartFails
    \/ DenyMic
    \/ ClickStop
    \/ \E r \in Recordings : StopEvent(r) \/ ErrorEvent(r) \/ DeviceLost(r)
    \/ Unmount
    \/ \E audio \in {"missing", "empty", "too large", "fits"} : SttReceives(audio)
    \/ \E upstream \in Upstreams : SttAnswers(upstream)
    \/ \E reached, wellFormed \in BOOLEAN : Finish(reached, wellFormed)

VoiceSpec == VoiceInit /\ [][VoiceNext]_voiceVars

----------------------------------------------------------------------------
(* A live microphone is the one the recorder would release, and on a page  *)
(* that shows no recording none is live and none records: an error while   *)
(* recording, during a stop or before a new start leaves none behind       *)
(* (recorder.ts:162-178, 202, 226-236, 247-261).                           *)
MicIsOwned ==
    /\ tracks \subseteq {rec.stream}
    /\ bar.mounted /\ bar.phase \in {"idle", "error"} => tracks = {}
    /\ bar.mounted /\ rec.state = "recording" => bar.phase = "recording"

(* The user hears of each recording once: a transcript or one error        *)
(* (voice-recorder-bar.tsx:123-132, 163-209; recorder.ts:170-177).         *)
AnsweredOnce ==
    /\ \A r \in Recordings : answers[r] <= 1
    /\ bar.mounted /\ bar.phase \in {"idle", "error"} =>
          \A r \in 1 .. last : answers[r] = 1

(* What the recorder promises, part by part.                               *)
RecorderKept == VoiceTypeOK /\ MicIsOwned /\ AnsweredOnce

(* "Release the underlying media stream tracks on unmount so a navigation  *)
(* away from the chat page does not leave the OS mic indicator on"         *)
(* (voice-recorder-bar.tsx:114-115).                                       *)
MicOffAfterUnmount == ~bar.mounted => tracks = {}
=============================================================================
