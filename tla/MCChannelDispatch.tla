------------------------- MODULE MCChannelDispatch -------------------------
(* A small instance of ChannelDispatch for TLC. *)
EXTENDS ChannelDispatch

\* Every shape of metadata the filters, the coalescing and send_once tell apart.
MCFlagSets ==
    {{}, {"_stream_delta"}, {"_stream_delta", "_stream_end"}, {"_stream_end"},
     {"_streamed"}, {"_progress"}, {"_progress", "_tool_hint"}, {"_retry_wait"}}
=============================================================================
