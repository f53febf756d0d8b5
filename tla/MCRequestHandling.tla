------------------------- MODULE MCRequestHandling -------------------------
EXTENDS RequestHandling

MCTypes == {"verify", "upload", "monitor", "query", "workspace", "", "status"}
MCCmds == {"new", "destroy", "kill", "kill 1", "availability", "status"}
MCBodyKinds == {"empty", "malformed", "noEnv", "badInput", "noSchema", "ok"}
=============================================================================
