----------------------------- MODULE RedditClient -----------------------------
(* reddit/_fetcher.py, reddit/auth.py, reddit/clients.py: the threads of one
   process fetch Reddit feeds through one bearer-token cache.

   A request builds its path, takes a token (auth.get_bearer_token, under the
   lock of the cache for as long as a new token takes to arrive), sends a GET and,
   when the answer is 401, drops the cached token, forces a new one and sends the
   GET once more; a 2xx answer is parsed.  A thread stands at
     "token"  wanting the lock of get_bearer_token,
     "post"   holding it, a token request on its way to Reddit,
     "come"   holding it, a new token on its way back,
     "get"    waiting for the answer to its GET,
     "drop"   wanting the lock of invalidate_cached_token,
     "read"   with a 2xx answer to parse,
     "idle"   before a request, or after one with its result.
   Time is counted in ticks of the monotonic clock. *)
EXTENDS Parsers

CONSTANTS
  Thread, NoThread,
  OAuthConfigured,   \* client id and secret are set
  PreferredFormat,   \* CHATTERSIFT_REDDIT_FEED_FORMAT
  Pages,             \* Pages[t][format]: the pages thread t's GETs may return
  BadPage,           \* a page that is not a document at all
  Lifetimes,         \* the expires_in values Reddit may answer with
  Buffer,            \* _REFRESH_BUFFER_SECONDS
  PostTimeout,       \* _TOKEN_HTTP_TIMEOUT_SECONDS: reading the answer with the token
  GetTimeout,        \* four times CHATTERSIFT_REDDIT_HTTP_TIMEOUT_SECONDS: connecting,
                     \* the TLS handshake, sending a GET and reading its answer
  MaxClock,          \* bound: the clock stops here
  MaxRequests        \* bound: requests per thread

ASSUME ClientAssumption ==
  /\ NoThread \notin Thread
  /\ OAuthConfigured \in BOOLEAN /\ PreferredFormat \in {"rss", "json"}
  /\ Lifetimes \subseteq Nat
  /\ Buffer \in Nat /\ PostTimeout \in Nat /\ GetTimeout \in Nat
  /\ PostTimeout + GetTimeout <= Buffer
  /\ MaxClock \in Nat /\ MaxRequests \in Nat

ASSUME PagesAssumption ==
  \A t \in Thread : \A page \in Pages[t]["json"] \ {BadPage} : JsonDocument(page)

VARIABLES
  clock,     \* time.monotonic()
  lock,      \* the thread inside "with _lock", or NoThread
  cache,     \* _token_cache: the token and its expires_at
  issued,    \* how many tokens Reddit has issued so far
  th         \* each thread's request

vars == <<clock, lock, cache, issued, th>>

-------------------------------------------------------------------------------
(* Requests *)

FeedSpec(kind, format, sub) == [kind |-> kind, format |-> format, sub |-> sub]

(* The planner's format: OAuth is served JSON only. *)
FeedFormat == IF OAuthConfigured THEN "json" ELSE PreferredFormat

(* What the planner and "Run now" ask for, and what the client is also written for:
   comment searches, which it refuses as RSS, and an unsafe subreddit. *)
PlannedSpecs == {FeedSpec(kind, FeedFormat, "r") :
                   kind \in {"post_search", "post_stream", "comment_stream"}}
RunNowSpec   == FeedSpec("post_stream", "rss", "r")
OtherSpecs   == {FeedSpec("comment_search", "rss", "r"), FeedSpec("comment_search", "json", "none"),
                 FeedSpec("post_stream", "json", "unsafe")}
Specs == PlannedSpecs \cup {RunNowSpec} \cup OtherSpecs

Unsafe(sub) == sub = "unsafe"

NoRequest == [resource |-> "none", params |-> {}]

BuildRequestSpec(spec) ==
  LET scoped == IF spec.sub = "none" THEN {} ELSE {"restrict_sr"}
  IN CASE Unsafe(spec.sub)               -> NoRequest
       [] spec.kind = "post_stream"    -> [resource |-> "new", params |-> {"limit"}]
       [] spec.kind = "comment_stream" -> [resource |-> "comments", params |-> {"limit"}]
       [] spec.kind = "post_search"    ->
            [resource |-> "search",
             params   |-> {"q", "limit", "sort"} \cup scoped
                          \cup (IF spec.format = "json" THEN {"raw_json"} ELSE {})]
       [] spec.kind = "comment_search" /\ spec.format = "json" ->
            [resource |-> "search",
             params   |-> {"q", "type", "sort", "limit", "raw_json"} \cup scoped]
       [] OTHER                        -> NoRequest

-------------------------------------------------------------------------------
(* Tokens *)

(* A token: which one it is in the order of issue, and when Reddit drops it. *)
NoToken == [no |-> 0, dies |-> 0]
NoCache == [token |-> NoToken, expires |-> 0]

(* Faulty variant of Usable: without the refresh buffer. *)
UsableToTheEnd == cache.expires - clock > 0

(* expires_at - time.monotonic() > _REFRESH_BUFFER_SECONDS *)
Usable == cache.expires - clock > Buffer

(* A thread's request: how its last one ended, the token it sends, the one under way to
   it and with which lifetime that was issued, when its GET began and whether with a
   token of the cache, and how many tokens there were at its 401. *)
Request(pc, format, left) ==
  [pc |-> pc, format |-> format, left |-> left, retry |-> FALSE, token |-> NoToken,
   new |-> NoToken, life |-> 0, since |-> 0, cached |-> FALSE, mark |-> 0,
   page |-> BadPage, status |-> "none"]

Init ==
  /\ clock = 0
  /\ lock = NoThread
  /\ cache = NoCache
  /\ issued = 0
  /\ th = [t \in Thread |-> Request("idle", "none", MaxRequests)]

(* The request of t is over: it returned its items or raised. *)
Ends(t, status) ==
  th' = [th EXCEPT ![t] = [Request("idle", th[t].format, th[t].left) EXCEPT !.status = status]]

-------------------------------------------------------------------------------
(* fetch_and_parse: an unsupported or unsafe spec raises before anything is sent;
   without OAuth the headers need no token. *)
Start(t, spec) ==
  LET begun(pc) == Request(pc, spec.format, th[t].left - 1)
  IN /\ th[t].pc = "idle" /\ th[t].left > 0
     /\ th' = [th EXCEPT ![t] =
                IF BuildRequestSpec(spec) = NoRequest
                THEN [begun("idle") EXCEPT !.status = "raised"]
                ELSE IF OAuthConfigured THEN begun("token")
                ELSE [begun("get") EXCEPT !.since = clock]]
     /\ UNCHANGED <<clock, lock, cache, issued>>

(* get_bearer_token with a usable cached token: the lock is taken and released. *)
TakeCached(t) ==
  /\ th[t].pc = "token" /\ lock = NoThread
  /\ ~th[t].retry /\ Usable
  /\ th' = [th EXCEPT ![t].pc = "get", ![t].token = cache.token,
                      ![t].since = clock, ![t].cached = TRUE]
  /\ UNCHANGED <<clock, lock, cache, issued>>

(* Faulty variant of AskToken: the token is fetched outside the lock. *)
AskTokenUnlocked(t) ==
  /\ th[t].pc = "token" /\ lock = NoThread
  /\ th[t].retry \/ ~Usable
  /\ th' = [th EXCEPT ![t].pc = "post"]
  /\ UNCHANGED <<clock, lock, cache, issued>>

(* get_bearer_token otherwise: _fetch_new_token runs under the lock. *)
AskToken(t) ==
  /\ th[t].pc = "token" /\ lock = NoThread
  /\ th[t].retry \/ ~Usable
  /\ lock' = t
  /\ th' = [th EXCEPT ![t].pc = "post"]
  /\ UNCHANGED <<clock, cache, issued>>

(* Reddit's side of the request. *)
TokenIssued(t, life) ==
  /\ th[t].pc = "post"
  /\ issued' = issued + 1
  /\ th' = [th EXCEPT ![t].pc = "come", ![t].life = life,
                      ![t].new = [no |-> issued + 1, dies |-> clock + life]]
  /\ UNCHANGED <<clock, lock, cache>>

(* Faulty variants of TokenArrives: the lifetime is kept as a remainder; a retry
   goes on with the header it had. *)
TokenArrivesAged(t) ==
  /\ th[t].pc = "come"
  /\ cache' = [token |-> th[t].new, expires |-> th[t].life - clock]
  /\ lock' = NoThread
  /\ th' = [th EXCEPT ![t].pc = "get", ![t].token = th[t].new,
                      ![t].new = NoToken, ![t].life = 0, ![t].since = clock]
  /\ UNCHANGED <<clock, issued>>
TokenArrivesUnused(t) ==
  /\ th[t].pc = "come"
  /\ cache' = [token |-> th[t].new, expires |-> clock + th[t].life]
  /\ lock' = NoThread
  /\ th' = [th EXCEPT ![t].pc = "get",
                      ![t].token = IF th[t].retry THEN th[t].token ELSE th[t].new,
                      ![t].new = NoToken, ![t].life = 0, ![t].since = clock]
  /\ UNCHANGED <<clock, issued>>

(* The lifetime of a new token is counted from its arrival. *)
TokenArrives(t) ==
  /\ th[t].pc = "come"
  /\ cache' = [token |-> th[t].new, expires |-> clock + th[t].life]
  /\ lock' = NoThread
  /\ th' = [th EXCEPT ![t].pc = "get", ![t].token = th[t].new,
                      ![t].new = NoToken, ![t].life = 0, ![t].since = clock]
  /\ UNCHANGED <<clock, issued>>

(* Faulty variant of TokenRefused: the exception leaves the lock taken. *)
TokenRefusedLocked(t) ==
  /\ th[t].pc \in {"post", "come"}
  /\ Ends(t, "raised")
  /\ UNCHANGED <<clock, lock, cache, issued>>

(* A timeout, an error status or an answer without a token: the exception leaves
   the with block, and the cache as it was. *)
TokenRefused(t) ==
  /\ th[t].pc \in {"post", "come"}
  /\ lock' = NoThread
  /\ Ends(t, "raised")
  /\ UNCHANGED <<clock, cache, issued>>

-------------------------------------------------------------------------------
(* _send_request *)

(* 401: with OAuth the first one is retried, any other is a status error. *)
Unauthorized(t) ==
  /\ th[t].pc = "get"
  /\ IF OAuthConfigured /\ ~th[t].retry
     THEN th' = [th EXCEPT ![t].pc = "drop", ![t].since = 0, ![t].cached = FALSE,
                           ![t].mark = issued]
     ELSE Ends(t, "raised")
  /\ UNCHANGED <<clock, lock, cache, issued>>

(* Faulty variant of Invalidate: the retry leaves the cache alone. *)
InvalidateNothing(t) ==
  /\ th[t].pc = "drop" /\ lock = NoThread
  /\ th' = [th EXCEPT ![t].pc = "token", ![t].retry = TRUE]
  /\ UNCHANGED <<clock, lock, cache, issued>>

(* invalidate_cached_token, whoever's token is cached by now. *)
Invalidate(t) ==
  /\ th[t].pc = "drop" /\ lock = NoThread
  /\ cache' = NoCache
  /\ th' = [th EXCEPT ![t].pc = "token", ![t].retry = TRUE]
  /\ UNCHANGED <<clock, lock, issued>>

(* RedditTimeoutError or RedditTransportError without an answer,
   RedditRateLimitError for 429, RedditHttpStatusError outside 200..299. *)
GetFails(t) ==
  /\ th[t].pc = "get"
  /\ Ends(t, "raised")
  /\ UNCHANGED <<clock, lock, cache, issued>>

GetAnswered(t) ==
  /\ th[t].pc = "get"
  /\ \E page \in Pages[t][th[t].format] :
       th' = [th EXCEPT ![t] = [Request("read", th[t].format, th[t].left) EXCEPT !.page = page]]
  /\ UNCHANGED <<clock, lock, cache, issued>>

(* What the request returns. *)
Parsed(t) ==
  IF th[t].format = "rss" THEN ParseAtom(th[t].page) ELSE ParseJson(th[t].page)

(* The parser raises on a page that is no document: RedditParseError. *)
Parse(t) ==
  /\ th[t].pc = "read"
  /\ Ends(t, IF th[t].page = BadPage THEN "raised" ELSE "ok")
  /\ UNCHANGED <<clock, lock, cache, issued>>

-------------------------------------------------------------------------------
(* When Reddit issued the token that is on its way to t. *)
IssuedAt(t) == th[t].new.dies - th[t].life

(* httpx bounds each operation of a request and not the whole: one that gets nothing to
   read for PostTimeout gives up the token, and GetTimeout is what the operations of a
   GET add up to.  How long a token request takes to be sent is left open. *)
Tick ==
  /\ clock < MaxClock
  /\ \A t \in Thread : th[t].pc = "come" => clock < IssuedAt(t) + PostTimeout
  /\ \A t \in Thread : th[t].pc = "get" => clock < th[t].since + GetTimeout
  /\ clock' = clock + 1
  /\ UNCHANGED <<lock, cache, issued, th>>

(* What thread t does by itself, its HTTP timeouts included. *)
Own(t) ==
  \/ TakeCached(t)
  \/ AskToken(t)
  \/ TokenArrives(t)
  \/ TokenRefused(t)
  \/ Invalidate(t)
  \/ GetFails(t)
  \/ Parse(t)

(* What Reddit answers to it. *)
Answer(t) ==
  \/ \E life \in Lifetimes : TokenIssued(t, life)
  \/ Unauthorized(t)
  \/ GetAnswered(t)

Next ==
  \/ \E t \in Thread : (\E spec \in Specs : Start(t, spec)) \/ Own(t) \/ Answer(t)
  \/ Tick

Spec == Init /\ [][Next]_vars

(* A thread that has begun a request goes on: it waits for Reddit no longer than a
   timeout, and for the lock of a thread that does the same. *)
FairSpec == Spec /\ \A t \in Thread : WF_vars(Own(t))

-------------------------------------------------------------------------------
Format   == {"none", "rss", "json"}
Token    == [no : Nat, dies : Nat]
AllPages == {BadPage} \cup UNION {UNION {Pages[t][f] : f \in {"rss", "json"}} : t \in Thread}

(* Types of the client's state. *)
TypeOK ==
  /\ clock \in Nat /\ issued \in Nat
  /\ lock \in Thread \cup {NoThread}
  /\ cache \in [token : Token, expires : Nat]
  /\ th \in [Thread ->
             [pc : {"idle", "token", "post", "come", "get", "drop", "read"},
              format : Format, left : Int, retry : BOOLEAN, token : Token, new : Token,
              life : Nat, since : Nat, cached : BOOLEAN, mark : Nat, page : AllPages,
              status : {"none", "raised", "ok"}]]

(* The cache is empty or holds the newest token that arrived: a slow answer never
   puts an older token over a newer one, because get_bearer_token keeps its lock
   from asking to caching. *)
NewestCached ==
  \/ cache = NoCache
  \/ /\ \A t \in Thread : th[t].token.no <= cache.token.no
     /\ \A t \in Thread : th[t].pc = "come" => cache.token.no < th[t].new.no

(* From the moment a request dropped the cached token until it has a new one, the
   token that Reddit refused is not in the cache for another request to take. *)
RejectedNotCached ==
  \A t \in Thread :
    th[t].retry /\ th[t].pc \in {"token", "post", "come"} =>
      cache = NoCache \/ cache.token.no > th[t].token.no

(* The one retry after a 401 carries a token issued after that 401, not the one
   that was refused nor another that was already out. *)
RetryIsFresh ==
  \A t \in Thread :
    th[t].retry /\ th[t].pc = "get" => th[t].token.no > th[t].mark

(* A token of the cache is alive at Reddit for as long as the GET it is sent with is
   under way: the refresh buffer covers that and what the token's own delivery took,
   during which its lifetime was already running. *)
CachedTokensAlive ==
  \A t \in Thread : th[t].pc = "get" /\ th[t].cached => th[t].token.dies > clock

(* With OAuth every request asks for JSON, the only form oauth.reddit.com serves. *)
OAuthAsksJson ==
  OAuthConfigured => \A t \in Thread : th[t].pc = "get" => th[t].format = "json"

(* Every request ends, with its items or an exception, even when Reddit answers 401
   to every token it has issued. *)
RequestsEnd == \A t \in Thread : th[t].pc # "idle" ~> th[t].pc = "idle"

HasJson(t) == th[t].pc = "read" /\ th[t].format = "json" /\ th[t].page # BadPage

(* In the page of one post with its comments every payload comes from the first item of
   its name and has the title of that, and a comment without one has the title of the
   post, even below other comments. *)
CommentsKeepTheirPost ==
  \A t \in Thread : HasJson(t) =>
    LET items == JsonItems(th[t].page)
        p(j)  == PayloadFromJson(th[t].page.nodes[items[j]])
        got   == Parsed(t)
    IN {k \in DOMAIN got : got[k].type = "post"} = {1} =>
         \A k \in DOMAIN got : \E j \in DOMAIN items :
           /\ p(j) # NoPayload /\ p(j).name = got[k].name
           /\ \A i \in 1..(j - 1) : p(i) = NoPayload \/ p(i).name # got[k].name
           /\ got[k].title = IF p(j).title = NoTitle THEN got[1].title ELSE p(j).title

(* The same items read from Reddit's JSON and from its Atom feed normalise to the
   same payloads when the JSON carries the HTML body and the comment's title; a
   body that itself contains the footer's words is cut there in the Atom form. *)
FormatsAgree ==
  \A t \in Thread : HasJson(t) =>
    LET page  == th[t].page
        atom  == ParseAtom([entries |-> [k \in DOMAIN JsonItems(page) |->
                                           AtomEntry(page.nodes[JsonItems(page)[k]])]])
        names == {page.nodes[n].name : n \in ToSet(JsonItems(page))}
        Full  == /\ Cardinality(names) = Len(JsonItems(page))
                 /\ \A n \in ToSet(JsonItems(page)) :
                      page.nodes[n].html # <<>> /\ page.nodes[n].title # NoTitle
    IN Full => /\ Len(atom) = Len(Parsed(t))
               /\ \A k \in DOMAIN atom :
                    /\ IsPrefix(atom[k].body, Parsed(t)[k].body)
                    /\ Footer \in ToSet(Parsed(t)[k].body) \/ atom[k] = Parsed(t)[k]
===============================================================================
