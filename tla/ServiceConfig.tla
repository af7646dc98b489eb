---------------------------- MODULE ServiceConfig ----------------------------
(***************************************************************************)
(* The reloadable configuration, and the point-to-point requests it admits. *)
(* config.yaml is kept in memory twice, by the middleware that admits      *)
(* requests and by the router that shows it; a Watch goroutine per copy    *)
(* rereads the file over and over, while operators change it to anything.  *)
(***************************************************************************)
EXTENDS Naturals, FiniteSets

CONSTANTS
  Requests,
  Codes,        \* carrier codes
  Excluded,     \* codes a request gets only if it asks for them
  Contents      \* the maps that config.yaml may hold, see Content

(* The value of the key activeCarriers of a section, or its absence: which   *)
(* codes it maps to true and which to anything else.                         *)
Key(there, on, off) == [there |-> there, on |-> on, off |-> off]
NoKey == Key(FALSE, {}, {})

(* What the file holds: its sections "base" and "service.registry.p2p" are   *)
(* each a map, "other" than a map, or absent.                                *)
Content(base, baseKey, service, serviceKey) ==
  [kind |-> "map", base |-> base, baseKey |-> baseKey,
   service |-> service, serviceKey |-> serviceKey]
Empty == Content("absent", NoKey, "absent", NoKey)

(* No file, no YAML, or no map. *)
Bad == [Empty EXCEPT !.kind = "bad"]

ASSUME ConfigAssumption == Excluded \subseteq Codes /\ \A c \in Contents : c.kind = "map"

VARIABLES
  file,         \* what config.yaml holds
  config,       \* config[k]: what copy k holds
  watch,        \* watch[k]: "asleep", or about to apply what it read
  read,         \* read[k]: what it read
  request,      \* request[r]: where the request is
  settings,     \* settings[r]: the activeCarriers of its context
  asked,        \* asked[r]: its scac parameter
  admitted      \* admitted[r]: the codes it is served with

watching == <<config, watch, read>>
serving == <<request, settings, asked, admitted>>
vars == <<file, watching, serving>>

Copies == {"middleware", "router"}

Init ==
  /\ file \in Contents
  /\ config = [k \in Copies |-> Empty]
  /\ watch = [k \in Copies |-> "asleep"] /\ read = [k \in Copies |-> Empty]
  /\ request = [r \in Requests |-> "new"]
  /\ settings = [r \in Requests |-> NoKey]
  /\ asked \in [Requests -> SUBSET Codes]
  /\ admitted = [r \in Requests |-> {}]

Edit ==
  /\ file' \in (Contents \cup {Bad}) \ {file}
  /\ UNCHANGED <<watching, serving>>

-----------------------------------------------------------------------------
(* Watch: Reload, and sleep. *)

ReadFile(k) ==
  /\ watch[k] = "asleep"
  /\ watch' = [watch EXCEPT ![k] = "read"] /\ read' = [read EXCEPT ![k] = file]
  /\ UNCHANGED <<file, config, serving>>

Sleep(k) ==
  /\ watch' = [watch EXCEPT ![k] = "asleep"] /\ read' = [read EXCEPT ![k] = Empty]
  /\ UNCHANGED <<file, serving>>

\* mutant of SetFromBytes: unmarshals into the map that is there
SetFromBytesOverlays(k) ==
  /\ watch[k] = "read"
  /\ config' = [config EXCEPT ![k] = IF read[k] = Bad THEN @ ELSE
       [read[k] EXCEPT !.baseKey = Key(@.there, @.on \cup config[k].baseKey.on, @.off)]]
  /\ Sleep(k)

\* mutant of SetFromBytes: an error ends the Watch goroutine
SetFromBytesGivesUp(k) ==
  /\ watch[k] = "read" /\ read[k] # Bad
  /\ config' = [config EXCEPT ![k] = read[k]]
  /\ Sleep(k)

(* A map replaces the old one as a whole, under the lock; an error is logged *)
(* and the old one stays.                                                    *)
SetFromBytes(k) ==
  /\ watch[k] = "read"
  /\ config' = [config EXCEPT ![k] = IF read[k] = Bad THEN @ ELSE read[k]]
  /\ Sleep(k)

-----------------------------------------------------------------------------
(* A request: GetAppConfig, then P2PQueryValidation. *)

(* Get: the service's section laid over the base.  Of an error the caller    *)
(* gets an empty map, and does not look at the error.                        *)
Get(content) ==
  IF content.base # "map" \/ content.service = "other" THEN NoKey
  ELSE IF content.service = "map" /\ content.serviceKey.there THEN content.serviceKey
  ELSE content.baseKey

GetAppConfig(r) ==
  /\ request[r] = "new"
  /\ request' = [request EXCEPT ![r] = "entered"]
  /\ settings' = [settings EXCEPT ![r] = Get(config["middleware"])]
  /\ UNCHANGED <<file, watching, asked, admitted>>

(* The codes asked for, if all are active; without any, every code listed. *)
Accepted(key, codes) ==
  IF codes = {} THEN (key.on \cup key.off) \ Excluded ELSE codes

Admit(r) ==
  /\ request[r] = "entered"
  /\ settings[r].there /\ asked[r] \subseteq settings[r].on
  /\ request' = [request EXCEPT ![r] = "admitted"]
  /\ admitted' = [admitted EXCEPT ![r] = Accepted(settings[r], asked[r])]
  /\ UNCHANGED <<file, watching, settings, asked>>

(* No such configuration, a code that is not active, or any other parameter  *)
(* that is unknown or invalid.                                               *)
Refuse(r) ==
  /\ request[r] = "entered"
  /\ request' = [request EXCEPT ![r] = "refused"]
  /\ UNCHANGED <<file, watching, settings, asked, admitted>>

Next ==
  \/ Edit
  \/ \E k \in Copies : ReadFile(k) \/ SetFromBytes(k)
  \/ \E r \in Requests : GetAppConfig(r) \/ Admit(r) \/ Refuse(r)

(* Watch wakes up every five minutes. *)
Fairness == \A k \in Copies : WF_vars(ReadFile(k)) /\ WF_vars(SetFromBytes(k))

Spec == Init /\ [][Next]_vars
FairSpec == Spec /\ Fairness

-----------------------------------------------------------------------------
(* Properties. *)

(* A request is admitted by one version of the file, and never by parts of   *)
(* two, however reloads and the steps of the request fall.  None is admitted *)
(* before the first reload.                                                  *)
AdmittedByOneVersion ==
  \A r \in Requests : request[r] = "admitted" =>
    \E content \in Contents :
      LET key == Get(content)
      IN  /\ key.there /\ asked[r] \subseteq key.on
          /\ admitted[r] = Accepted(key, asked[r])

(* README.md: a change of the file "does not require web server restart":    *)
(* once the file stays as it is, both copies come to hold it, whatever bad   *)
(* file was there on the way.                                                *)
ChangesArrive ==
  \A content \in Contents :
    <>[](file = content) => <>[](\A k \in Copies : config[k] = content)
=============================================================================
