----------------------------- MODULE Supervisor -----------------------------
(***************************************************************************)
(* The entrypoint of the FreeRADIUS container, which supervises the        *)
(* server.  FreeRADIUS reads its configuration when it starts and never    *)
(* again, so the API writes a file on the shared volume and then raises    *)
(* restart.request; the supervisor polls that flag once a second, stops    *)
(* the server and starts it again.                                         *)
(*                                                                         *)
(* One file stands for the configuration a publisher maintains.  The       *)
(* server reads it directly (the clients file; the CA bundle) or through a *)
(* copy that configure_eap_certs makes (Combine: the CA bundle             *)
(* concatenated with the CRL bundle when FREERADIUS_ENFORCE_CRL is yes).   *)
(* reload.request is left out: nothing in the API raises it.               *)
(***************************************************************************)

CONSTANTS
    Contents,   \* what the file may hold
    Blank,      \* what it holds before anything is published
    Combine     \* the server reads the copy, not the file

ASSUME SupervisorAssumption == Blank \in Contents /\ Combine \in BOOLEAN

VARIABLES
    disk,       \* the published file
    prepared,   \* the copy that configure_eap_certs made
    loaded,     \* the configuration of the running server
    updated,    \* trusted/updated.flag exists
    restart,    \* restart.request exists
    sup         \* where the supervisor is

supervisorVars == <<disk, prepared, loaded, updated, restart, sup>>

\* The server runs, and its supervisor polls the flags.
Watching == sup \in {"watch", "reconfigure", "check"}

SupervisorTypeOK ==
    /\ disk \in Contents
    /\ prepared \in Contents
    /\ loaded \in Contents
    /\ updated \in BOOLEAN
    /\ restart \in BOOLEAN
    /\ sup \in {"boot", "clear", "load", "watch", "reconfigure", "check", "stop"}

SupervisorInit ==
    /\ disk = Blank
    /\ prepared = Blank
    /\ loaded = Blank
    /\ updated = FALSE
    /\ restart = FALSE
    /\ sup = "boot"

\* configure_eap_certs, at three places: as the container boots, after
\* updated.flag, and before the server is stopped.
Configure(from, to) ==
    /\ sup = from
    /\ prepared' = IF Combine THEN disk ELSE prepared
    /\ sup' = to
    /\ UNCHANGED <<disk, loaded, updated, restart>>

\* start_freeradius first discards the flags of earlier runs ...
ClearFlags ==
    /\ sup = "clear"
    /\ restart' = FALSE
    /\ sup' = "load"
    /\ UNCHANGED <<disk, prepared, loaded, updated>>

\* ... and then the server starts, reading its configuration.
LoadConfig ==
    /\ sup = "load"
    /\ loaded' = IF Combine THEN prepared ELSE disk
    /\ sup' = "watch"
    /\ UNCHANGED <<disk, prepared, updated, restart>>

\* One turn of the polling loop looks at updated.flag ...
PollUpdated ==
    /\ sup = "watch"
    /\ updated' = FALSE
    /\ sup' = IF updated THEN "reconfigure" ELSE "check"
    /\ UNCHANGED <<disk, prepared, loaded, restart>>

\* Wrong on purpose (the flag is consumed, the server goes on running).
PollRestart_KeepsRunning ==
    /\ sup = "check"
    /\ restart' = FALSE
    /\ sup' = "watch"
    /\ UNCHANGED <<disk, prepared, loaded, updated>>

\* ... and then at restart.request: a controlled restart.
PollRestart ==
    /\ sup = "check"
    /\ restart' = FALSE
    /\ sup' = IF restart THEN "stop" ELSE "watch"
    /\ UNCHANGED <<disk, prepared, loaded, updated>>

Supervise ==
    \/ Configure("boot", "clear")
    \/ ClearFlags
    \/ LoadConfig
    \/ PollUpdated
    \/ Configure("reconfigure", "check")
    \/ PollRestart
    \/ Configure("stop", "clear")

\* The server dies, or the container is restarted: its entrypoint runs again.
ContainerRestart ==
    /\ sup # "boot"
    /\ sup' = "boot"
    /\ UNCHANGED <<disk, prepared, loaded, updated, restart>>

=============================================================================
