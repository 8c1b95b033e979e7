------------------------------- MODULE Lookup -------------------------------
(***************************************************************************)
(* What a client may rely on when it asks the service about a deployment:  *)
(* one response for each request, made of instances that the deployment    *)
(* had while the request was under way, however many calls it took, how    *)
(* they were cut and what changed between them.  A lookup never touches    *)
(* the configuration, and a request that sets it is answered at once.      *)
(***************************************************************************)
EXTENDS Naturals, Sequences

VARIABLES phase,        \* "idle", or whatever else while a lookup is under way
          seen,         \* the deployments since the last request came
          answer,       \* the last response: [masters, slaves, ...]
          config        \* the configuration of the service

lookupVars == <<phase, seen, answer, config>>

WasMaster(info, views) ==
  \E v \in views : info.name \in DOMAIN v.master /\ v.master[info.name] = info.addr

WasHealthySlave(info, views) ==
  \E v \in views :
    /\ info.name \in DOMAIN v.slaves
    /\ \E i \in DOMAIN v.slaves[info.name] :
         v.slaves[info.name][i] = [addr |-> info.addr, flags |-> "slave"]

Genuine(rsp, views) ==
  /\ \A i \in DOMAIN rsp.masters : WasMaster(rsp.masters[i], views)
  /\ \A i \in DOMAIN rsp.slaves : WasHealthySlave(rsp.slaves[i], views)

NoInstances(rsp) == rsp.masters = <<>> /\ rsp.slaves = <<>>

\* Only the deployment of the moment has been seen.
OneMoment(views) == \E v \in views : views = {v}

LInit == phase = "idle" /\ OneMoment(seen) /\ NoInstances(answer)

\* A lookup begins; the response of the request before stays what it was.
Ask ==
  /\ phase = "idle" /\ phase' # "idle"
  /\ OneMoment(seen')
  /\ UNCHANGED <<answer, config>>

\* A request that needs no deployment is answered at once; one of them sets the
\* configuration.
AnswerAtOnce ==
  /\ phase = "idle" /\ phase' = "idle"
  /\ OneMoment(seen')
  /\ NoInstances(answer')

\* The lookup goes on, and the deployment with it; nothing is answered early.
GoOn ==
  /\ phase # "idle" /\ phase' # "idle"
  /\ seen \subseteq seen'
  /\ UNCHANGED <<answer, config>>

Answer ==
  /\ phase # "idle" /\ phase' = "idle"
  /\ seen \subseteq seen'
  /\ Genuine(answer', seen')
  /\ UNCHANGED config

LNext == Ask \/ AnswerAtOnce \/ GoOn \/ Answer

LSafety == LInit /\ [][LNext]_lookupVars

LSpec == LSafety /\ (phase # "idle" ~> phase = "idle")
=============================================================================
