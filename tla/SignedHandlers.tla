--------------------------- MODULE SignedHandlers ---------------------------
(***************************************************************************)
(* The handlers of RestHandlers with what they sign their messages with    *)
(* and where they send them: the secrets and the hash of                   *)
(* InesonicRestHandlerBase, and the configuration of the Server, which may *)
(* be set while messages and time delta requests are on their way.         *)
(*                                                                         *)
(* A digest is told apart by its key and its window only; a block that     *)
(* holds a secret is written as the secret, because the window is written  *)
(* behind it each time before the block is used.                           *)
(*                                                                         *)
(* The clock may show anything in Times whenever it is read: only how far  *)
(* the clock of a web server is ahead of it is taken to be constant.       *)
(***************************************************************************)
EXTENDS RestHandlers, HashWindow

CONSTANTS
  Hosts,             (* what setSchemeAndHost may be given                  *)
  ClockOffset,       (* how many halves of a second the clock of each host  *)
                     (* is ahead                                            *)
  Slugs,             (* what setTimeDeltaSlug may be given                  *)
  ServedSlug,        (* the one under which the hosts measure time deltas   *)
  Times,             (* what QDateTime::currentSecsSinceEpoch may return    *)
  Secrets,           (* what setSecret and setDefaultSecret may be given    *)
  NoSecret,          (* an empty array                                      *)
  FirstDefaults,     (* currentDefaultSecret after the constructors         *)
  SwitchesAnytime    (* the host is set while posts are open, too           *)

ASSUME SignedHandlersAssumption ==
  /\ ClockOffset \in [Hosts -> Int]
  /\ Times \subseteq Nat
  /\ NoSecret \notin Secrets
  /\ FirstDefaults \subseteq Secrets \cup {NoSecret}
  /\ SwitchesAnytime \in BOOLEAN

VARIABLES
  schemeAndHost,     (* Server::currentSchemeAndHost                        *)
  timeDeltaSlug,     (* Server::currentTimeDeltaSlug                        *)
  defaultSecret,     (* Server::currentDefaultSecret                        *)
  secret,            (* InesonicRestHandlerBase::currentSecret              *)
  currentUrl,        (* the host in InesonicRestHandler::currentUrl         *)
  measuring,         (* history: the URL of the last time delta request     *)
  signed             (* history: of the last transmission of each handler   *)
                     (* its host, its key, and by how many windows it is    *)
                     (* off the clock of that host                          *)

configuration == <<schemeAndHost, timeDeltaSlug, defaultSecret, secret>>

signingVars == <<configuration, currentUrl, measuring, signed>>

TimeDeltaUrl == [host |-> schemeAndHost, slug |-> timeDeltaSlug]

SigningInit ==
  /\ Init
  /\ schemeAndHost \in Hosts
  /\ timeDeltaSlug = ServedSlug
  /\ defaultSecret \in FirstDefaults
  /\ secret \in [RestApis -> Secrets \cup {NoSecret}]
  /\ currentUrl = [h \in RestApis |-> schemeAndHost]
  /\ measuring = TimeDeltaUrl
  /\ signed = [h \in RestApis |->
                 [host |-> schemeAndHost, key |-> NoSecret, off |-> 0]]

-----------------------------------------------------------------------------
(* The setters                                                             *)

SetSchemeAndHost(host) ==
  /\ SwitchesAnytime \/ \A h \in RestApis : open[h] = 0
  /\ schemeAndHost' = host
  /\ UNCHANGED <<timeDeltaSlug, defaultSecret, secret>>

SetTimeDeltaSlug(slug) ==
  /\ timeDeltaSlug' = slug
  /\ UNCHANGED <<schemeAndHost, defaultSecret, secret>>

SetDefaultSecret(s) ==
  /\ defaultSecret' = s
  /\ UNCHANGED <<schemeAndHost, timeDeltaSlug, secret>>

SetSecret(h, s) ==
  /\ h \in live
  /\ secret' = [secret EXCEPT ![h] = s]
  /\ UNCHANGED <<schemeAndHost, timeDeltaSlug, defaultSecret>>

Configure ==
  /\ thread = "running"
  /\ InEventLoop \/ InFailureSlot
  /\ \/ \E host \in Hosts : SetSchemeAndHost(host)
     \/ \E slug \in Slugs : SetTimeDeltaSlug(slug)
     \/ \E s \in Secrets :
          \/ SetDefaultSecret(s)
          \/ \E h \in RestApis : SetSecret(h, s)
  /\ UNCHANGED <<vars, currentUrl, measuring, signed>>

-----------------------------------------------------------------------------
(* What the steps of RestHandlers read and sign                            *)

(* This step posts a request of this owner ...                             *)
Transmits(owner) ==
  \E r \in Alive(net') \ Alive(net) : net'.reply[r].owner = owner

(* ... and post of this handler was called in it.                          *)
Posts(h) == open'[h] > open[h]

(* Slip: the URL is put together when the message is transmitted.          *)
DestinationNow(h) == schemeAndHost

Destination(h) == currentUrl'[h]

(* Slip: the default secret is not looked at.                              *)
OwnSecretOnly(h) == secret[h]

KeyOf(h) == IF secret[h] # NoSecret THEN secret[h] ELSE defaultSecret

(* calculateHash, with the clock at now.  With neither secret it writes    *)
(* the window outside of the empty array.                                  *)
CalculateHash(h, now) ==
  [host |-> Destination(h),
   key  |-> KeyOf(h),
   off  |-> HashSuffix(now, currentTimeDelta)
              - WindowAt(now, ClockOffset[Destination(h)])]

(* A host tells the offset of its clock, under the slug it serves.         *)
MeasuredRight(answer) ==
  answer.json =>
    /\ measuring.slug = ServedSlug
    /\ answer.document.halves = ClockOffset[measuring.host]

HandlersStep ==
  /\ Next
  /\ pendingReply # NoReply /\ pendingReply' = pendingReply =>
       MeasuredRight(net'.reply[pendingReply].answer)
  /\ currentUrl' = [h \in RestApis |-> IF Posts(h) THEN schemeAndHost
                                                   ELSE currentUrl[h]]
  /\ measuring' = IF Transmits(ServerOwner) THEN TimeDeltaUrl ELSE measuring
  /\ \E now \in Times :
       signed' = [h \in RestApis |-> IF Transmits(h) THEN CalculateHash(h, now)
                                                     ELSE signed[h]]
  /\ UNCHANGED configuration

SigningNext == HandlersStep \/ Configure

SigningSpec == SigningInit /\ [][SigningNext]_<<vars, signingVars>>

-----------------------------------------------------------------------------
(* Properties                                                              *)

(* After one refusal the web server has no more reason to refuse: whatever *)
(* the time delta was, whoever asked for the new one, and whatever the     *)
(* clocks show, the message is signed again for the window its own web     *)
(* server is in, or one next to it, because a fraction of a second is cut  *)
(* off.                                                                    *)
RetryIsInTime ==
  \A h \in RestApis : open[h] > 0 /\ sent[h] = 2 => signed[h].off \in -1 .. 1

(* A message that is transmitted twice goes to the same web server twice,  *)
(* also when the Server is told to talk to another one in between.         *)
OneDestination ==
  [][\A h \in RestApis :
       sent'[h] = 2 /\ sent[h] = 1 => signed'[h].host = signed[h].host
    ]_<<vars, signingVars>>

(* Every hash that calculateHash returns is a hash to be used with the     *)
(* payload: one keyed by a secret.                                         *)
HashesAreKeyed ==
  \A h \in RestApis : sent[h] > 0 => signed[h].key # NoSecret

-----------------------------------------------------------------------------
(* The inductive invariant of which RetryIsInTime is a consequence         *)

(* While the host is only set when no request is open, ...                 *)
OpenHere == \A h \in RestApis : open[h] > 0 => currentUrl[h] = schemeAndHost

(* ... an answer to a time delta request is right for the host asked, ...  *)
AnswerIsRight ==
  pendingReply # NoReply => MeasuredRight(net.reply[pendingReply].answer)

(* ... the update that is pending when a message has been transmitted, and *)
(* may be refused, was asked of the host of that message, ...              *)
MeasuringForTheRefused ==
  pendingReply # NoReply /\ flush = "none" =>
    \A h \in RestApis :
      open[h] > 0 /\ sent[h] = 1 => measuring.host = currentUrl[h]

(* ... and is what its handler is called back with.                        *)
MeasuredForTheRefused ==
  flush = "updated" =>
    \A h \in live :
      owed[h] > 0 /\ sent[h] = 1 =>
        currentTimeDelta = Truncated(ClockOffset[currentUrl[h]])

SigningInv ==
  /\ OneAtATimeInv
  /\ schemeAndHost \in Hosts /\ currentUrl \in [RestApis -> Hosts]
  /\ OpenHere
  /\ AnswerIsRight
  /\ MeasuringForTheRefused
  /\ MeasuredForTheRefused
  /\ RetryIsInTime
=============================================================================
