------------------------------- MODULE Backend -------------------------------
(* Which engine backend a daemon runs: macOS, Linux or Windows.             *)
CONSTANT Platforms   \* the backends to check

ASSUME PlatformAssumption == Platforms \subseteq {"webkit", "wpe", "webview2"}

VARIABLE platform
=============================================================================
