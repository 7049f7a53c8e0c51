----------------------------- MODULE MCPipeline -----------------------------
(* The checks of the `turn` and `ice` subcommands and what they require.   *)
EXTENDS Pipeline

MCIds == {"dns", "stun.binding", "turn.alloc.udp", "turn.echo.udp", "ice.gather"}

MCRequires ==
    [c \in MCIds |->
        CASE c = "dns" -> {}
          [] c \in {"stun.binding", "turn.alloc.udp"} -> {"dns"}
          [] c = "turn.echo.udp" -> {"turn.alloc.udp", "stun.binding"}
          [] c = "ice.gather" -> {"stun.binding"}]
=============================================================================
