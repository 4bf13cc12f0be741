------------------------------- MODULE Routing -------------------------------
(***************************************************************************)
(* What becomes of one request (source/http.hpp): its line and headers are *)
(* parsed into the HttpRequest of the context, a file or a handler is      *)
(* found for it, and the response is put together.  The handlers are those *)
(* of source/main.cc.  How the request comes out of the input buffer, and  *)
(* its body, are the subject of Http.  A pattern is the set of the paths   *)
(* it matches; of a text that is sent the model keeps where it is from.    *)
(***************************************************************************)
EXTENDS Util

CONSTANTS Registrations, \* the calls of Get, Post, ...: [method, pattern, handler]
          BaseDir,       \* what SetBaseDir is called with
          Index,         \* "index.html"
          Files,         \* the regular files there are, by the names they are opened by
          Meant,         \* requests: [method, path, params] as a client means them
          RawTargets,    \* request targets no such client writes
          MaxRoutes      \* bound: handlers registered

Tables == {"GET", "POST", "PUT", "DELETE"}

Methods == Tables \union {"HEAD", "PATCH"}

Byte == 0 .. 255

\* What UrlEncode can write: of a char from 128 on it leaves two digits of eight.
Ascii == 0 .. 127

ASSUME RoutingAssumption ==
    /\ Registrations \subseteq [method : Tables, pattern : SUBSET Seq(Byte),
                                handler : {"echo", "put", "moved"}]
    /\ BaseDir \in Seq(Byte) /\ Index \in Seq(Byte) /\ Files \subseteq Seq(Byte)
    /\ Meant \subseteq [method : Methods, path : Seq(Ascii),
                        params : Seq(Seq(Ascii) \X Seq(Ascii))]
    /\ RawTargets \subseteq Seq(Byte)
    /\ MaxRoutes \in Nat

VARIABLES routes,    \* _get_route, _post_route, _put_route, _delete_route
          basedir,   \* _basedir
          started,   \* Start has been called
          files,     \* the regular files there are by now
          context,   \* the HttpContext of the connection
          client,    \* history: what the client meant by the request under way
          sent       \* the last response, and what became of the connection

vars == <<routes, basedir, started, files, context, client, sent>>

-----------------------------------------------------------------------------
(* HttpRequest and HttpResponse.                                           *)

Nothing == <<>>   \* an empty map

\* unordered_map::insert: the first value stays.
Insert(map, key, val) ==
    [k \in DOMAIN map \union {key} |-> IF k \in DOMAIN map THEN map[k] ELSE val]

Get(map, key) == IF key \in DOMAIN map THEN map[key] ELSE ""

NewRequest == [method |-> "", path |-> <<>>, headers |-> Nothing, params |-> Nothing]

NewResponse(statu) == [statu |-> statu, body |-> "", headers |-> Nothing]

\* Close() of both: anything but keep-alive is a short connection.
Close(headers) == Get(headers, "Connection") # "keep-alive"

SetContent(rsp, body, type) ==
    [rsp EXCEPT !.body = body, !.headers = Insert(@, "Content-Type", type)]

SetRedirect(rsp, url) ==
    [rsp EXCEPT !.statu = 302, !.headers = Insert(@, "Location", url)]

-----------------------------------------------------------------------------
(* HttpContext.                                                            *)

NewContext == [recv |-> "LINE", resp |-> 200, request |-> NewRequest]

Unsent == [from |-> "nobody"]

Failed(request) == [recv |-> "ERROR", resp |-> 400, request |-> request]

\* One piece of the query string; the first equals sign ends the key.
SetParam(params, str) ==
    LET pos == Find(str, Equals, 1)
    IN  Insert(params, UrlDecode(SubSeq(str, 1, pos - 1), TRUE),
                       UrlDecode(SubSeq(str, pos + 1, Len(str)), TRUE))

\* The pieces in their order.
SetParams(params, strs) ==
    LET set[i \in 0 .. Len(strs)] ==
          IF i = 0 THEN params ELSE SetParam(set[i - 1], strs[i])
    IN  set[Len(strs)]

\* The path ends at the first question mark; the rest is the query string.  A
\* piece of it without an equals sign is an error, the ones before it are set.
ParseHttpLine(method, target) ==
    LET mark   == Find(target, Question, 1)
        pieces == Split(SubSeq(target, mark + 1, Len(target)), Amp)
        bad    == SelectInSeq(pieces, LAMBDA str : Find(str, Equals, 1) > Len(str))
        good   == IF bad = 0 THEN pieces ELSE SubSeq(pieces, 1, bad - 1)
        request == [context.request EXCEPT
                      !.method = method,
                      !.path   = UrlDecode(SubSeq(target, 1, mark - 1), FALSE),
                      !.params = SetParams(@, good)]
    IN  IF method = "PATCH" THEN Failed(context.request)
        ELSE IF bad # 0 THEN Failed(request)
        ELSE [context EXCEPT !.recv = "HEAD", !.request = request]

\* How a client writes what it means.
Target(meant) ==
    LET pair(p) == UrlEncode(p[1], TRUE) \o <<Equals>> \o UrlEncode(p[2], TRUE)
        query == [i \in DOMAIN meant.params |->
                     (IF i = 1 THEN <<Question>> ELSE <<Amp>>) \o pair(meant.params[i])]
    IN  UrlEncode(meant.path, FALSE) \o FlattenSeq(query)

RecvHttpLine ==
    /\ started /\ context.recv = "LINE"
    /\ \/ \E meant \in Meant :
             /\ client' = {meant}
             /\ context' = ParseHttpLine(meant.method, Target(meant))
       \/ \E target \in RawTargets :
             /\ client' = {}
             /\ context' = ParseHttpLine("GET", target)
    /\ sent' = Unsent
    /\ UNCHANGED <<routes, basedir, started, files>>

\* ParseHttpHead: a header (the model has one), the blank line, or a line that is
\* none of them.
RecvHttpHead ==
    /\ context.recv = "HEAD"
    /\ \/ \E val \in {"keep-alive", "close"} :
             /\ DOMAIN context.request.headers = {}
             /\ context' = [context EXCEPT !.request.headers = Insert(@, "Connection", val)]
       \/ context' = [context EXCEPT !.recv = "OVER"]
       \/ context' = Failed(context.request)
    /\ UNCHANGED <<routes, basedir, started, files, client, sent>>

\* A faulty variant: the query string of the last request stays.
ReSet_KeepParams(ctx) ==
    [NewContext EXCEPT !.request.params = ctx.request.params]

ReSet(ctx) == NewContext

-----------------------------------------------------------------------------
(* HttpServer.                                                             *)

\* Get, Post, Put and Delete append to their table.
Register ==
    /\ ~started
    /\ SumFunction([m \in Tables |-> Len(routes[m])]) < MaxRoutes
    /\ \E r \in Registrations : routes' = [routes EXCEPT ![r.method] = Append(@, r)]
    /\ UNCHANGED <<basedir, started, files, context, client, sent>>

SetBaseDir ==
    /\ ~started
    /\ basedir' = BaseDir
    /\ UNCHANGED <<routes, started, files, context, client, sent>>

Listen ==
    /\ ~started /\ started' = TRUE
    /\ UNCHANGED <<routes, basedir, files, context, client, sent>>

\* back() of an empty path reads the byte in front of the string's own buffer,
\* a part of its length or of its block, which is not a slash.
FilePath(path) ==
    basedir \o path \o (IF path # <<>> /\ Last(path) = Slash THEN Index ELSE <<>>)

IsRegular(filename) == filename \in files

IsFileHandler(req) ==
    /\ basedir # <<>>
    /\ req.method \in {"GET", "HEAD"}
    /\ ValidPath(req.path)
    /\ IsRegular(FilePath(req.path))

\* What ReadFile leaves in the body: it may fail on a file that stat has found,
\* before the body has its size or after.
ReadFile == {"file", "", "zeros"}

\* A failure goes unnoticed: the type is missing, the status is 200 all the same.
FileHandler(req) ==
    {[from |-> "file", files |-> files,
      rsp |-> IF body = "file"
              THEN SetContent(NewResponse(200), body, ExtMime(FilePath(req.path)))
              ELSE [NewResponse(200) EXCEPT !.body = body]] : body \in ReadFile}

\* The file is there, or could not be opened.
WriteFile(filename) == {files, files \union {filename}}

\* Hello, Login and DelFile; PutFile, which writes a file or fails to, and says
\* nothing of it; a handler that redirects and ends the connection, one that does not.
Functor(handler, req) ==
    CASE handler = "echo" ->
           {[from |-> handler, rsp |-> SetContent(NewResponse(200), "echo", "text/plain"),
             files |-> files]}
      [] handler = "put" ->
           {[from |-> handler, rsp |-> NewResponse(200), files |-> f] :
               f \in WriteFile(BaseDir \o req.path)}
      [] handler = "moved" ->
           {[from |-> handler,
             rsp |-> [SetRedirect(NewResponse(200), "/") EXCEPT
                        !.headers = Insert(@, "Connection", "close")],
             files |-> files]}

Matching(table, path) == SelectInSeq(table, LAMBDA r : path \in r.pattern)

Dispatcher(req, table) ==
    IF Matching(table, req.path) = 0
    THEN {[from |-> "none", rsp |-> NewResponse(404), files |-> files]}
    ELSE Functor(table[Matching(table, req.path)].handler, req)

\* 405 is set for no method the parser lets pass.
Route(req) ==
    IF IsFileHandler(req) THEN FileHandler(req)
    ELSE Dispatcher(req, routes[IF req.method = "HEAD" THEN "GET" ELSE req.method])

\* The headers that are missing; the length stands for its body.
WriteReponse(req, rsp) ==
    [rsp EXCEPT !.headers =
        LET conn == Insert(@, "Connection", IF Close(req.headers) THEN "close" ELSE "keep-alive")
        IN  IF rsp.body = "" THEN conn
            ELSE Insert(Insert(conn, "Content-Length", rsp.body),
                        "Content-Type", "application/octet-stream")]

Answered(from, rsp, closed) ==
    [from |-> from, path |-> context.request.path, rsp |-> rsp, closed |-> closed]

\* OnMessage, 930-939.
HandleError ==
    /\ context.recv = "ERROR"
    /\ LET rsp == SetContent(NewResponse(context.resp), "page", "text/html")
       IN  sent' = Answered("error", WriteReponse(context.request, rsp), TRUE)
    /\ context' = ReSet(context) /\ client' = {}
    /\ UNCHANGED <<routes, basedir, started, files>>

\* A faulty variant: the request decides, whatever the response says.
HandleRequest_ByRequest ==
    /\ context.recv = "OVER"
    /\ \E out \in Route(context.request) :
          /\ files' = out.files
          /\ LET rsp == WriteReponse(context.request, out.rsp)
             IN  sent' = Answered(out.from, rsp, Close(context.request.headers))
    /\ context' = ReSet(context) /\ client' = {}
    /\ UNCHANGED <<routes, basedir, started>>

\* OnMessage, 945-953.
HandleRequest ==
    /\ context.recv = "OVER"
    /\ \E out \in Route(context.request) :
          /\ files' = out.files
          /\ LET rsp == WriteReponse(context.request, out.rsp)
             IN  sent' = Answered(out.from, rsp, Close(rsp.headers))
    /\ context' = ReSet(context) /\ client' = {}
    /\ UNCHANGED <<routes, basedir, started>>

Init ==
    /\ routes = [m \in Tables |-> <<>>]
    /\ basedir = <<>>
    /\ started = FALSE
    /\ files = Files
    /\ context = NewContext
    /\ client = {}
    /\ sent = Unsent

Next == Register \/ SetBaseDir \/ Listen \/ RecvHttpLine \/ RecvHttpHead \/ HandleError \/ HandleRequest

Spec == Init /\ [][Next]_vars

-----------------------------------------------------------------------------
(* Properties.                                                             *)

\* What a client meant that wrote its request with UrlEncode arrives through
\* regex, Split, UrlDecode and SetParam (549-591), whatever characters it is
\* made of and whatever request came before (389): the path, the parameters
\* and no others, and of two with the same name the first.
ParamsArrive ==
    context.recv \in {"HEAD", "OVER"} => \A meant \in client :
        LET params == meant.params
        IN  /\ context.request.path = meant.path
            /\ DOMAIN context.request.params = {params[i][1] : i \in DOMAIN params}
            /\ \A i \in DOMAIN params :
                  (\A j \in 1 .. i - 1 : params[j][1] # params[i][1]) =>
                     context.request.params[params[i][1]] = params[i][2]

\* The Connection header a client reads (780-787), which a handler may have set,
\* says what the server does with the connection (952).  Error responses are
\* left out: 934 writes what the request asked for, 937 closes in any case.
HeaderSaysClose ==
    sent.from \notin {"nobody", "error"} =>
        sent.closed = (sent.rsp.headers["Connection"] # "keep-alive")

\* Where a way leads as the file system reads it, in levels below the base
\* directory: "." stays, ".." leads one up.  The base directory ends with a slash,
\* as in main.cc, or the path begins with one.
Level(way) ==
    Len(way) - Cardinality({j \in DOMAIN way : way[j] = <<Dot>>})
             - 2 * Cardinality({j \in DOMAIN way : way[j] = <<Dot, Dot>>})

\* The directories that are passed when a path is opened.
Ways(path) ==
    {Split(SubSeq(path, 1, i), Slash) : i \in {j \in DOMAIN path : path[j] = Slash}}

\* A file that is answered is not reached through a directory above the base
\* directory, also when the path comes back down into it (369), as long as the
\* path up to there has no "." in it, which 371 counts as one level down.
PlainFilesBelowBase ==
    sent.from = "file" =>
        \A way \in Ways(sent.path) : <<Dot>> \notin Range(way) => Level(way) >= 0

\* The comments at 353-355 and 366 say it of every path: a client gets at what is in
\* the base directory and at nothing else.  "/./../a" is let pass and leads above.
FilesBelowBase ==
    sent.from = "file" => \A way \in Ways(sent.path) : Level(way) >= 0

\* The comment at 779 says that the header fields are completed.  An empty body gets
\* no length (788), and on a connection that stays open a client waits for its end.
LengthOnOpen ==
    sent.from # "nobody" /\ ~sent.closed => "Content-Length" \in DOMAIN sent.rsp.headers

\* The comment at 886 says: if there is neither a file nor a handler for a request,
\* 405 is answered.  The code answers 404.
NoHandlerIs405 == sent.from = "none" => sent.rsp.statu = 405
=============================================================================
