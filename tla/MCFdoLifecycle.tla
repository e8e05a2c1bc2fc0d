----------------------------- MODULE MCFdoLifecycle -----------------------------
(***************************************************************************)
(* FdoLifecycle with everything that can fail failing.                     *)
(***************************************************************************)
EXTENDS FdoLifecycle

AllFailures == {"deviceAdd", "configure", "initialize", "connect", "publish",
                "getUsbConfigData", "createRootHubPdo"}
===============================================================================
