-------------------------------- MODULE Verbs --------------------------------
(* The requests the command line builds and what the daemon's handlers make *)
(* of them.  An argument is its kind: "page" for a page id, "ref" for a     *)
(* number, "text" for whatever the caller typed, or the word itself (the     *)
(* condition `text` of vs_wait is "containing").                            *)
EXTENDS Naturals, Sequences

Ask(primitive, args, flags) == [primitive |-> primitive, args |-> args, flags |-> flags]

S == {"session"}
Some(optional) == {{}, optional}    \* none or all of the options

-----------------------------------------------------------------------------
(* Command::to_request.                                                     *)
LifecycleRequests ==
    {Ask("vs_session_open", <<>>, f) : f \in Some({"policy"})}
    \cup {Ask("vs_session_close", <<"session">>, {}),
          Ask("vs_session_close", <<>>, {"all"}),
          Ask("vs_session_close", <<>>, {"idle-for"}),
          Ask("vs_open", <<"text">>, S), Ask("vs_goto", <<"page", "text">>, S),
          Ask("vs_close", <<"page">>, S)}

PageRequests ==
    {Ask("vs_view", <<"page">>, S \cup f) : f \in Some({"full"})}
    \cup {Ask("vs_read", <<"page", "ref">>, S), Ask("vs_find", <<"text">>, S)}
    \cup {Ask("vs_act", <<"page", t>> \o a, S \cup {"token", "mode"} \cup f) :
            t \in {"ref", "mark"}, f \in Some({"group"}),
            a \in {<<"click">>, <<"submit">>, <<"fill", "text">>, <<"key", "text">>}}
    \cup {Ask("vs_wait", <<"page">> \o c, S \cup {"timeout"}) :
            c \in {<<"stable">>, <<"net-idle">>, <<"token-change">>,
                   <<"ref", "ref">>, <<"gone", "ref">>, <<"containing", "text">>}}
    \cup {Ask("vs_status", <<>>, f) : f \in Some(S)}

StoreRequests ==
    {Ask("vs_extract", <<"page", "schema">>, S \cup {"token"}),
     Ask("vs_mark", <<"page", "ref", "text">>, S \cup {"token"})}
    \cup {Ask("vs_annotate", <<"target", "key">> \o v, S) : v \in {<<>>, <<"text">>}}
    \cup {Ask("vs_log", <<>>, S \cup f) : f \in Some({"page", "group", "since", "limit"})}
    \cup {Ask("vs_skill", <<"list">>, S), Ask("vs_skill", <<"show", "text">>, S)}

MediaRequests ==
    {Ask("vs_capture", <<"page">> \o r, S \cup f) :
       r \in {<<>>, <<"ref">>}, f \in Some({"full-page"})}
    \cup {Ask("vs_download", <<"page">>, S \cup {"list"})}
    \cup {Ask("vs_download", <<"page">> \o u, S \cup {"timeout-ms"} \cup f) :
            u \in {<<>>, <<"text">>}, f \in Some({"dest", "id"})}
    \cup {Ask("vs_viewport", <<"page", "spec">>, S \cup {"dpr"}),
          Ask("vs_layout", <<"page", "ref", "ref">>, S)}
    \cup {Ask("vs_auth", a, S) :
            a \in {<<"list">>, <<"webauthn", "page">>, <<"import", "text", "blob">>,
                   <<"save", "page", "text">>, <<"load", "page", "text">>,
                   <<"clear", "text">>}}

InspectRequests ==
    {Ask("vs_inspect", a, S \cup f) :
       a \in {<<"console", "page">>, <<"network", "page">>, <<"request", "page", "ref">>,
              <<"eval", "page", "text">>, <<"storage", "page", "scope">>,
              <<"scripts", "page">>, <<"script", "page", "ref">>,
              <<"dom", "page", "ref">>, <<"performance", "page">>,
              <<"cookie-events", "page">>},
       f \in Some({"full", "unsafe-log"})}

CursorRequests ==
    {Ask("vs_move_to", <<"page", "num", "num">>, S \cup {"mode"}),
     Ask("vs_hover_at", <<"page", "num", "num">>, S \cup {"mode"}),
     Ask("vs_click_at", <<"page", "num", "num">>, S \cup {"token", "mode"}),
     Ask("vs_drag", <<"page", "num", "num", "num", "num">>, S \cup {"token", "mode"})}
    \cup {Ask("vs_type", <<"page", "text">>, S \cup {"mode"} \cup f) : f \in Some({"secret"})}

PromptRequests ==
    {Ask("vs_prompt_input_queue", <<"page", "ref", "text">>,
         S \cup {"token", "timeout-ms"} \cup f) : f \in Some({"secret", "group"})}
    \cup {Ask("vs_prompt_form_wait", <<"form">>, S \cup {"timeout-ms"}),
          Ask("vs_watch", <<"page">>, S), Ask("vs_frame", <<"page">>, {}),
          Ask("vs_pending_list", <<>>, {}), Ask("vs_pending_cancel", <<"id">>, {}),
          Ask("vs_pending_url", <<>>, {}),
          Ask("vs_record", <<"stop", "page">>, S)}
    \cup {Ask("vs_record", <<"start", "page">>, S \cup {"fps"} \cup f) :
            f \in Some({"width", "retina"})}

(* run_prompt_input: at a terminal the value goes straight into the field.  *)
TerminalRequests ==
    {Ask("vs_act", <<"page", "ref", "fill", "text">>, S \cup {"token"} \cup f) :
       f \in Some({"group"})}
    \cup {Ask("vs_prompt_input_queue", <<"page", "ref", "text">>, S \cup {"token"} \cup f) :
            f \in Some({"secret", "group"})}

(* run_prompt_form: one argument per field.                                 *)
FormRequests == {Ask("vs_prompt_form", <<"page", "field", "field">>, S \cup {"token"} \cup f) :
                   f \in Some({"group"})}

(* run_pending_fulfill: list and peek on the same connection, then this.    *)
FulfillRequests == {Ask("vs_pending_peek", <<"id">>, {}),
                    Ask("vs_pending_fulfill", <<"id", "text">>, {})}

CommandRequests == LifecycleRequests \cup PageRequests \cup StoreRequests
                   \cup MediaRequests \cup InspectRequests \cup CursorRequests
                   \cup PromptRequests \cup TerminalRequests \cup FormRequests
                   \cup FulfillRequests

-----------------------------------------------------------------------------
(* What a handler requires and reads: alternatives of the kinds it takes at *)
(* each position, the flags it insists on and those it looks at, and the    *)
(* body it answers with: "none", "line" (one), "rows" (of its own making),  *)
(* "form" (a tree, a delta or nothing), "text" (the page's or the caller's  *)
(* text as it is) or "bare" (a body without an envelope).                   *)
Need(args, flags, reads, body) ==
    [args |-> args, flags |-> flags, reads |-> reads, body |-> body]

lifecycle_handlers ==
    [vs_session_open |-> {Need(<<>>, {}, {"policy"}, "line")},
     vs_session_close |-> {Need(<<>>, {"idle-for"}, {}, "rows"),
                           Need(<<>>, {"all"}, {}, "rows"),
                           Need(<<{"session"}>>, {}, {}, "none")},
     vs_open |-> {Need(<<{"text"}>>, S, {"view"}, "line")},
     vs_goto |-> {Need(<<{"page"}, {"text"}>>, S, {"view"}, "line")},
     vs_close |-> {Need(<<{"page"}>>, S, {}, "none")}]

handle_view == {Need(<<{"page"}>>, S, {"full", "layout", "read"}, "form")}

read_handlers ==
    [vs_view |-> handle_view,
     vs_read |-> {Need(<<{"page"}, {"ref"}>>, S, {}, "text")}]

(* act_target and act_action.                                               *)
handle_act ==
    LET needs(a) == Need(<<{"page"}, {"ref", "mark"}>> \o a, S \cup {"token"},
                         {"group", "mode", "view"}, "form")
    IN {needs(<<{"click", "submit", "hover", "focus", "scroll"}>>),
        needs(<<{"fill", "key"}, {"text"}>>)}

(* Conditions under the names of the tool's schema.                         *)
WaitByToolName ==
    LET needs(c) == Need(<<{"page"}>> \o c, S, {"timeout", "view"}, "none")
    IN {needs(<<{"stable", "net-idle", "token-change"}>>),
        needs(<<{"ref-appears", "ref-gone"}, {"ref"}>>), needs(<<{"containing"}, {"text"}>>)}

handle_wait ==
    LET needs(c) == Need(<<{"page"}>> \o c, S, {"timeout", "view"}, "none")
    IN {needs(<<{"stable", "net-idle", "token-change"}>>),
        needs(<<{"ref", "gone"}, {"ref"}>>), needs(<<{"containing"}, {"text"}>>)}

page_handlers ==
    [vs_act |-> handle_act,
     vs_find |-> {Need(<<{"text"}>>, S, {}, "text")},
     vs_wait |-> handle_wait,
     vs_status |-> {Need(<<>>, {}, S, "rows")}]

store_handlers ==
    [vs_extract |-> {Need(<<{"page"}, {"schema"}>>, S \cup {"token"}, {}, "text")},
     vs_mark |-> {Need(<<{"page"}, {"ref"}, {"text"}>>, S \cup {"token"}, {}, "line")},
     vs_annotate |-> {Need(<<{"target"}, {"key"}>>, S, {}, "line")},
     vs_log |-> {Need(<<>>, S, {"page", "group", "since", "limit"}, "rows")}]

handle_skill == {Need(<<>>, S, {}, "rows"), Need(<<{"list"}>>, S, {}, "rows"),
                 Need(<<{"show"}, {"text"}>>, S, {}, "text")}

media_handlers ==
    [vs_skill |-> handle_skill,
     vs_capture |-> {Need(<<{"page"}>>, S, {"full-page"}, "line")},
     vs_download |-> {Need(<<{"page"}>>, S, {"list", "id", "timeout-ms", "dest"}, "rows")}]

screen_handlers ==
    [vs_viewport |-> {Need(<<{"page"}, {"spec"}>>, S, {"dpr"}, "none")},
     vs_type |-> {Need(<<{"page"}, {"text"}>>, S, {"secret", "mode"}, "none")},
     vs_layout |-> {Need(<<{"page"}, {"ref"}>>, S, {}, "rows")}]

handle_cursor(token, n) ==
    {Need(<<{"page"}>> \o [i \in 1..n |-> {"num"}], S \cup token, {"mode"}, "form")}

cursor_handlers == [vs_move_to |-> handle_cursor({}, 2),
                    vs_hover_at |-> handle_cursor({}, 2),
                    vs_click_at |-> handle_cursor({"token"}, 2),
                    vs_drag |-> handle_cursor({"token"}, 4)]

handle_auth == {Need(<<{"list"}>>, S, {}, "rows"),
                Need(<<{"webauthn"}, {"page"}>>, S, {}, "line"),
                Need(<<{"import"}, {"text"}, {"blob"}>>, S, {}, "line"),
                Need(<<{"save"}, {"page"}, {"text"}>>, S, {}, "line"),
                Need(<<{"load"}, {"page"}, {"text"}>>, S, {}, "none"),
                Need(<<{"clear"}, {"text"}>>, S, {}, "none")}

(* The kinds that list what the buffers hold ...                            *)
inspect_buffers ==
    {Need(<<{"console"}, {"page"}>>, S, {"level", "since", "limit"}, "text"),
     Need(<<{"network"}, {"page"}>>, S, {"method", "status", "url-contains", "since",
                                         "limit"}, "text"),
     Need(<<{"request"}, {"page"}, {"ref"}>>, S, {"unsafe-log", "full"}, "text")}

(* ... and those that ask the page.                                         *)
inspect_page ==
    {Need(<<{"eval"}, {"page"}, {"text"}>>, S, {"max", "full"}, "text"),
     Need(<<{"storage"}, {"page"}, {"scope"}>>, S, {"unsafe-log", "max", "full"}, "text"),
     Need(<<{"scripts"}, {"page"}>>, S, {}, "text"),
     Need(<<{"script"}, {"page"}, {"ref"}>>, S, {"max", "full"}, "text"),
     Need(<<{"dom"}, {"page"}, {"ref"}>>, S, {}, "text")}

inspect_counters ==
    {Need(<<{"performance"}, {"page"}>>, S, {}, "rows"),
     Need(<<{"cookie-events"}, {"page"}>>, S, {"unsafe-log"}, "bare")}

handle_inspect == inspect_buffers \cup inspect_page \cup inspect_counters

prompt_handlers ==
    [vs_prompt_input_queue |-> {Need(<<{"page"}, {"ref"}, {"text"}>>, S \cup {"token"},
                                     {"secret", "group", "timeout-ms"}, "none")},
     vs_prompt_form |-> {Need(<<{"page"}>>, S \cup {"token"}, {"group"}, "rows")},
     vs_prompt_form_wait |-> {Need(<<{"form"}>>, S, {"timeout-ms"}, "none")},
     vs_pending_url |-> {Need(<<>>, {}, {}, "line")}]

record_handlers ==
    [vs_record |-> {Need(<<{"start"}, {"page"}>>, S, {"fps", "width", "retina"}, "line"),
                    Need(<<{"stop"}, {"page"}>>, S, {}, "line")},
     vs_watch |-> {Need(<<{"page"}>>, S, {}, "line")},
     vs_frame |-> {Need(<<{"page"}>>, {}, {}, "line")}]

pending_handlers ==
    [vs_pending_list |-> {Need(<<>>, {}, {}, "text")},
     vs_pending_fulfill |-> {Need(<<{"id"}, {"text"}>>, {}, {}, "none")},
     vs_pending_cancel |-> {Need(<<{"id"}>>, {}, {}, "none")},
     vs_pending_peek |-> {Need(<<{"id"}>>, {}, {}, "text")}]

(* server::dispatch: the primitives it knows, and their handlers.           *)
Known == DOMAIN lifecycle_handlers \cup DOMAIN read_handlers \cup DOMAIN page_handlers
         \cup DOMAIN store_handlers \cup DOMAIN media_handlers \cup DOMAIN screen_handlers
         \cup DOMAIN cursor_handlers \cup DOMAIN prompt_handlers
         \cup DOMAIN record_handlers \cup DOMAIN pending_handlers
         \cup {"vs_auth", "vs_inspect"}

dispatch == [p \in Known |->
    CASE p \in DOMAIN lifecycle_handlers -> lifecycle_handlers[p]
      [] p \in DOMAIN read_handlers -> read_handlers[p]
      [] p \in DOMAIN page_handlers -> page_handlers[p]
      [] p \in DOMAIN store_handlers -> store_handlers[p]
      [] p \in DOMAIN media_handlers -> media_handlers[p]
      [] p \in DOMAIN screen_handlers -> screen_handlers[p]
      [] p \in DOMAIN cursor_handlers -> cursor_handlers[p]
      [] p \in DOMAIN prompt_handlers -> prompt_handlers[p]
      [] p \in DOMAIN record_handlers -> record_handlers[p]
      [] p \in DOMAIN pending_handlers -> pending_handlers[p]
      [] p = "vs_auth" -> handle_auth
      [] p = "vs_inspect" -> handle_inspect]

(* The alternatives a request satisfies; none for a primitive not known.    *)
Serves(q) == {n \in UNION {dispatch[p] : p \in Known \cap {q.primitive}} :
                /\ Len(n.args) <= Len(q.args)
                /\ \A i \in DOMAIN n.args : q.args[i] \in n.args[i]
                /\ n.flags \subseteq q.flags}
=============================================================================
