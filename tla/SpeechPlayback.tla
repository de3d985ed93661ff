---------------------------- MODULE SpeechPlayback ----------------------------
(***************************************************************************)
(* Speech synthesis of plugin-voice: the key check at boot (index.ts,      *)
(* options.ts), the synthesis route (server/tts-server.ts) and the hook    *)
(* that asks for a clip and plays it (ui/use-tts.ts).  Every speak() runs  *)
(* as an async function of its own over the refs they all share; stop(), a *)
(* newer speak() and the unmount may come between any two of its awaits.   *)
(* The speech provider, the audio element (or the one audioFactory         *)
(* injects) and the user are external.                                     *)
(***************************************************************************)
EXTENDS Naturals, FiniteSets

CONSTANTS MaxSpeaks,    \* bound on the calls of speak()
          SpeechInputs  \* bodies of the route: [text, voice, speed]

ASSUME SpeechAssumption == MaxSpeaks \in Nat

Speaks == 1 .. MaxSpeaks
Nobody == 0

VARIABLES
    tts,       \* "none", "up" or "refused"
    owner,     \* abortRef: the call whose controller it holds
    audioRef,  \* the call whose audio element it holds
    urlRef,    \* the call whose blob URL it holds
    ttsState,  \* the phase, and the call or user that set it
    speak,     \* the step of each call
    urls,      \* blob URLs that are not revoked
    playing,   \* audio elements that play, or are about to
    emptied,   \* elements with an empty source whose 'error' event is to come
    tab        \* "mounted" or "gone"

speechVars == <<tts, owner, audioRef, urlRef, ttsState, speak, urls, playing, emptied, tab>>

Steps == {"idle", "fetching", "refused", "reading", "starting", "playing", "done"}

SpeechTypeOK ==
    /\ tts \in {"none", "up", "refused"}
    /\ {owner, audioRef, urlRef} \subseteq Speaks \cup {Nobody}
    /\ ttsState \in [phase : {"idle", "requesting", "playing", "error"}, by : Speaks \cup {Nobody}]
    /\ speak \in [Speaks -> Steps]
    /\ urls \subseteq Speaks /\ playing \subseteq Speaks /\ emptied \subseteq Speaks
    /\ tab \in {"mounted", "gone"}

SpeechInit ==
    /\ tts = "none"
    /\ owner = Nobody /\ audioRef = Nobody /\ urlRef = Nobody
    /\ ttsState = [phase |-> "idle", by |-> Nobody]
    /\ speak = [s \in Speaks |-> "idle"]
    /\ urls = {} /\ playing = {} /\ emptied = {}
    /\ tab = "mounted"

----------------------------------------------------------------------------
(* voicePlugin(options): both keys, given or from the environment.         *)
HasKey(key) == key \in {"option", "environment"}

VoicePlugin(sttKey, ttsKey) ==
    /\ tts = "none"
    /\ tts' = IF HasKey(sttKey) /\ HasKey(ttsKey) THEN "up" ELSE "refused"
    /\ UNCHANGED <<owner, audioRef, urlRef, ttsState, speak, urls, playing, emptied, tab>>

(* validateTtsInput, in the order of its checks; speeds are in hundredths. *)
InvalidTts(input) ==
    \/ input.text \in {"missing", "empty", "too long"}
    \/ input.voice = "unknown"
    \/ input.speed # "default" /\ ~(input.speed \in 25 .. 400)

Providers == {"timeout", "network", "server error", "rate limit", "empty", "audio"}

(* handleTtsRequest                                                        *)
TtsStatus(input, provider) ==
    CASE InvalidTts(input) -> 400
      [] ~InvalidTts(input) /\ provider = "timeout" -> 504
      [] ~InvalidTts(input) /\ provider \in {"network", "server error", "empty"} -> 502
      [] ~InvalidTts(input) /\ provider = "rate limit" -> 429
      [] ~InvalidTts(input) /\ provider = "audio" -> 200

----------------------------------------------------------------------------
(* cleanupAudio, on the shared refs.  An element whose src becomes empty   *)
(* fires 'error' in a later task, to the listeners it still has.           *)
CleanupAudio ==
    /\ playing' = playing \ {audioRef}
    /\ emptied' = emptied \cup ({audioRef} \ {Nobody})
    /\ urls' = urls \ {urlRef}
    /\ audioRef' = Nobody
    /\ urlRef' = Nobody

Display(phase, s) == ttsState' = [phase |-> phase, by |-> s]
Step(s, step) == speak' = [speak EXCEPT ![s] = step]
Stale(s) == owner # s

(* speak(text): an empty text returns at once; otherwise stop(), a fresh   *)
(* controller and the request.                                             *)
Speak(s) ==
    /\ tts = "up" /\ tab = "mounted"
    /\ speak[s] = "idle" /\ \A n \in 1 .. s - 1 : speak[n] # "idle"
    /\ CleanupAudio
    /\ owner' = s
    /\ Display("requesting", s)
    /\ Step(s, "fetching")
    /\ UNCHANGED <<tts, tab>>

(* stop(), called by the user.                                             *)
StopSpeech ==
    /\ tab = "mounted" /\ owner # Nobody
    /\ CleanupAudio
    /\ owner' = Nobody
    /\ Display("idle", Nobody)
    /\ UNCHANGED <<tts, speak, tab>>

(* The effect's cleanup calls stop().                                      *)
LeavePage ==
    /\ tts = "up" /\ tab = "mounted"
    /\ tab' = "gone"
    /\ CleanupAudio
    /\ owner' = Nobody
    /\ Display("idle", Nobody)
    /\ UNCHANGED <<tts, speak>>

(* fetch rejects: silence when the call was aborted or superseded.         *)
FetchFails(s) ==
    /\ speak[s] = "fetching"
    /\ Step(s, "done")
    /\ IF Stale(s) THEN UNCHANGED ttsState ELSE Display("error", s)
    /\ UNCHANGED <<tts, owner, audioRef, urlRef, urls, playing, emptied, tab>>

(* fetch resolves: the check, then the body of the answer is read.         *)
FetchAnswers(s, input, provider) ==
    /\ speak[s] = "fetching"
    /\ Step(s, IF Stale(s) THEN "done"
               ELSE IF TtsStatus(input, provider) = 200 THEN "reading" ELSE "refused")
    /\ UNCHANGED <<tts, owner, audioRef, urlRef, ttsState, urls, playing, emptied, tab>>

(* res.text() of a refusal, or res.blob() that fails: no check after it.   *)
ReportFailure(s) ==
    /\ speak[s] \in {"refused", "reading"}
    /\ Step(s, "done")
    /\ Display("error", s)
    /\ UNCHANGED <<tts, owner, audioRef, urlRef, urls, playing, emptied, tab>>

(* res.blob() resolves: the check, the URL, the element and play().        *)
MutBlobArrives(s) ==
    /\ speak[s] = "reading"
    /\ Step(s, "starting")
    /\ urlRef' = s /\ urls' = urls \cup {s} /\ audioRef' = s
    /\ playing' = playing \cup {s}
    /\ UNCHANGED <<tts, owner, ttsState, emptied, tab>>

BlobArrives(s) ==
    /\ speak[s] = "reading"
    /\ IF Stale(s)
       THEN /\ Step(s, "done")
            /\ UNCHANGED <<urlRef, urls, audioRef, playing>>
       ELSE /\ Step(s, "starting")
            /\ urlRef' = s /\ urls' = urls \cup {s} /\ audioRef' = s
            /\ playing' = playing \cup {s}
    /\ UNCHANGED <<tts, owner, ttsState, emptied, tab>>

(* play() resolves, which it may do after its element was paused: a stale  *)
(* call takes its own element and URL down.                                *)
PlayResolves(s) ==
    /\ speak[s] = "starting"
    /\ IF Stale(s)
       THEN /\ Step(s, "done")
            /\ urls' = urls \ {s}
            /\ playing' = playing \ {s}
            /\ emptied' = emptied \ {s}
            /\ UNCHANGED ttsState
       ELSE /\ Step(s, "playing")
            /\ Display("playing", s)
            /\ UNCHANGED <<urls, playing, emptied>>
    /\ UNCHANGED <<tts, owner, audioRef, urlRef, tab>>

(* play() rejects, for want of a gesture or, in a later task, because      *)
(* pause() was called: cleanupAudio on the shared refs, no check.          *)
PlayRejects(s) ==
    /\ speak[s] = "starting"
    /\ Step(s, "done")
    /\ CleanupAudio
    /\ Display("error", s)
    /\ UNCHANGED <<tts, owner, tab>>

(* The 'ended' and 'error' listeners of an element that plays.             *)
ClipEnds(s, failed) ==
    /\ speak[s] = "playing" /\ s \in playing
    /\ Step(s, "done")
    /\ CleanupAudio
    /\ Display(IF failed THEN "error" ELSE "idle", s)
    /\ UNCHANGED <<tts, owner, tab>>

(* The 'error' of an element whose source was emptied: the same listener.  *)
EmptySource(s) ==
    /\ s \in emptied
    /\ playing' = playing \ {audioRef}
    /\ emptied' = (emptied \ {s}) \cup ({audioRef} \ {Nobody})
    /\ urls' = urls \ {urlRef}
    /\ audioRef' = Nobody /\ urlRef' = Nobody
    /\ Display("error", s)
    /\ UNCHANGED <<tts, owner, speak, tab>>

SpeechNext ==
    \/ \E sttKey, ttsKey \in {"option", "environment", "empty", "missing"} :
          VoicePlugin(sttKey, ttsKey)
    \/ StopSpeech
    \/ LeavePage
    \/ \E s \in Speaks :
          \/ Speak(s)
          \/ FetchFails(s)
          \/ \E input \in SpeechInputs, provider \in Providers : FetchAnswers(s, input, provider)
          \/ ReportFailure(s)
          \/ BlobArrives(s)
          \/ PlayResolves(s)
          \/ PlayRejects(s)
          \/ \E failed \in BOOLEAN : ClipEnds(s, failed)
          \/ EmptySource(s)

SpeechSpec == SpeechInit /\ [][SpeechNext]_speechVars

----------------------------------------------------------------------------
(* One voice at a time, and it can be silenced: the element that plays is  *)
(* the one the refs hold, of the newest call; every blob URL is the one a  *)
(* clean-up would revoke; a page that is gone is silent and holds nothing  *)
(* (use-tts.ts:90-95, 121-144, 218-224, 246-252, 270-274).                 *)
OneVoice ==
    /\ SpeechTypeOK
    /\ playing \subseteq {audioRef} /\ urls \subseteq {urlRef}
    /\ audioRef = urlRef
    /\ audioRef # Nobody => audioRef = owner
    /\ tab = "gone" => playing = {} /\ urls = {}

(* "a stale call that resolves late never overrides the newer call's state *)
(* or shared refs" (use-tts.ts:153-155): the phase is the doing of the     *)
(* newest call or of stop().                                               *)
PhaseIsOfOwner == ttsState.by = owner
=============================================================================
