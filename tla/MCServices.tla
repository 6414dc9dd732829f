----------------------------- MODULE MCServices -----------------------------
(***************************************************************************)
(* The small services of the server for TLC.  They share nothing, so the   *)
(* first state chooses one and the others stay in their initial state:     *)
(*   "registry"   one caller of the provider pool, which starts no race    *)
(*                and meets one bad credential at most, while one provider *)
(*                changes in the registry and the other stays as it began  *)
(*   "caller"     one caller that meets errors of every kind, alone        *)
(*   "callers"    one caller that races and one that does not, and one     *)
(*                error of the common kind or one call hung up             *)
(*   "managed"    a reclaimable resource                                   *)
(*   "broker"     connections that come and go, and the shutdown           *)
(*   "approvals"  tool calls and their answers, with one connection that   *)
(*                comes and goes                                           *)
(*   "cron"       scheduled jobs                                           *)
(* In the initial state of each service none of its fair actions is        *)
(* enabled, so the fairness of one asks nothing of the others.             *)
(***************************************************************************)
EXTENDS ProviderRouter, Managed, Approvals, Cron

CONSTANTS FirstCaller, FirstProvider, FirstConn

VARIABLE focus

MCInit ==
    /\ RouterInit /\ ManagedInit /\ ApprovalsInit /\ CronInit
    /\ focus \in {"registry", "caller", "callers", "managed", "broker", "approvals", "cron"}
    /\ registered = Provider \X {0} /\ (focus # "registry" => on = registered)

Alone == \A r \in Caller \ {FirstCaller} : rpc'[r] = "idle" /\ last'[r] = "none"
Racing(S) == \A r \in Caller : rpc[r] = "idle" /\ rpc'[r] = "route" =>
                                (route'[r].racing <=> r \in S)
Kinds(S) == \A r \in Caller : \A v \in verdict'[r] : v[2] \in S

OneProviderChanges ==
    /\ RouterNext /\ Alone /\ Racing({}) /\ Kinds({"auth", "spared"})
    /\ errors' <= 1
    /\ {o \in registered' : Id(o) # FirstProvider} = {o \in registered : Id(o) # FirstProvider}
    /\ {o \in on' : Id(o) # FirstProvider} = {o \in on : Id(o) # FirstProvider}

OneCaller == RouterNext /\ Alone /\ changes' = 0

AllCallers ==
    /\ RouterNext /\ Racing({FirstCaller}) /\ Kinds({"other"})
    /\ errors' <= 1 /\ changes' = 0
    /\ \A r \in Caller : keys'[r] <= 1

OneConnection ==
    /\ ApprovalsNext
    /\ shutdown' = "no" /\ \A c \in Conn \ {FirstConn} : stream'[c] = "unused"

MCNext ==
    /\ UNCHANGED focus
    /\ \/ /\ focus = "registry" /\ OneProviderChanges
          /\ UNCHANGED <<managedVars, approvalVars, cronVars>>
       \/ /\ focus = "caller" /\ OneCaller
          /\ UNCHANGED <<managedVars, approvalVars, cronVars>>
       \/ /\ focus = "callers" /\ AllCallers
          /\ UNCHANGED <<managedVars, approvalVars, cronVars>>
       \/ /\ focus = "managed" /\ ManagedNext
          /\ UNCHANGED <<routerVars, approvalVars, cronVars>>
       \/ /\ focus = "broker" /\ BrokerNext
          /\ UNCHANGED <<routerVars, managedVars, approvalOnly, cronVars>>
       \/ /\ focus = "approvals" /\ OneConnection
          /\ UNCHANGED <<routerVars, managedVars, cronVars>>
       \/ /\ focus = "cron" /\ CronNext
          /\ UNCHANGED <<routerVars, managedVars, approvalVars>>

MCSpec ==
    /\ MCInit
    /\ [][MCNext]_<<routerVars, managedVars, approvalVars, cronVars, focus>>
    /\ RouterFairness /\ ManagedFairness /\ ApprovalsFairness /\ CronFairness
=============================================================================
