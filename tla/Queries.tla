-------------------------------- MODULE Queries --------------------------------
(***************************************************************************)
(* The two Luna methods that ask, getAvailableLanguages and getStatus, on  *)
(* the main loop they share (src/luna/TTSLunaService.cpp), the languages   *)
(* cache of GoogleTTSEngine, and the engines loadEngine made.              *)
(*                                                                         *)
(* A list that is not in the cache is fetched by a blocking call: until    *)
(* the voice server answers, the main loop takes no call and no answer of  *)
(* another service.  Both methods use the speech engine of the display     *)
(* without asking whether there is one.                                    *)
(***************************************************************************)
EXTENDS LoadEngine, Sequences, SequencesExt

CONSTANTS
  LanguageCall,  \* the calls of getAvailableLanguages
  StatusCall,    \* the calls of getStatus
  NoCall,        \* no call
  NoList,        \* the reply to a call that is refused
  BadPayload,    \* the calls whose payload does not fit the schema
  DisplayIdOf,   \* the displayId of every call, an int
  Voices,        \* the answers of the voice server: the codes, voice by voice
  Configs,       \* the configurations the service may find
  Faults         \* what may go wrong: "fetch", and see GetStatus

\* The language codes the voice server may name.
Code == UNION {ToSet(codes) : codes \in Voices}

ASSUME QueriesAssumption ==
  /\ NoCall \notin LanguageCall
  /\ DisplayIdOf \in [LanguageCall \cup StatusCall -> Ints]
  /\ Voices \subseteq Seq(Code)

VARIABLES
  object, count, error, outstanding, replied, unsent, unparsed,  \* GetStatus
  config,    \* the configuration that was read
  alive,     \* the process runs
  cache,     \* mAvailableLanguages of the engine of each display
  fetching,  \* the call that waits for the voice server
  listed,    \* the replies to each getAvailableLanguages
  answers    \* the answers of the voice server to each engine

statusVars == <<object, count, error, outstanding, replied, unsent, unparsed>>
languageVars == <<cache, fetching, listed, answers>>
vars == <<statusVars, languageVars, config, alive>>

\* isValidDisplayId stores the int in an unsigned int.
Refused(c) == c \in BadPayload \/ Unsigned(DisplayIdOf[c]) > 1

Status == INSTANCE GetStatus WITH
  Call <- StatusCall, Rejected <- {c \in StatusCall : Refused(c)}

HasEngine(d) == d \in TTSEnginesMade(config)

Init ==
  /\ Status!Init
  /\ config \in Configs
  /\ alive = ~Overruns(config)
  /\ cache = [d \in Display |-> <<>>]
  /\ fetching = NoCall
  /\ listed = [c \in LanguageCall |-> <<>>]
  /\ answers = [d \in Display |-> {}]

MainLoopIsFree == alive /\ fetching = NoCall

Reply(c, list) == listed' = [listed EXCEPT ![c] = Append(@, list)]

-------------------------------------------------------------------------------
(* getAvailableLanguages *)

NewList(c) == MainLoopIsFree /\ listed[c] = <<>>

RefuseList(c) ==
  /\ NewList(c)
  /\ Refused(c)
  /\ Reply(c, NoList)
  /\ UNCHANGED <<statusVars, config, alive, cache, fetching, answers>>

MutantFetchesAlways(d) == FALSE
Cached(d) == cache[d] # <<>>

ListFromCache(c) ==
  /\ NewList(c)
  /\ ~Refused(c)
  /\ HasEngine(DisplayIdOf[c])
  /\ Cached(DisplayIdOf[c])
  /\ Reply(c, cache[DisplayIdOf[c]])
  /\ UNCHANGED <<statusVars, config, alive, cache, fetching, answers>>

StartFetch(c) ==
  /\ NewList(c)
  /\ ~Refused(c)
  /\ HasEngine(DisplayIdOf[c])
  /\ ~Cached(DisplayIdOf[c])
  /\ fetching' = c
  /\ UNCHANGED <<statusVars, config, alive, cache, listed, answers>>

\* The codes are added one by one, those that are there already left out.
MutantAddsAll(known, codes) == known \o codes
WithCodes(known, codes) ==
  LET With[n \in 0..Len(codes)] ==
        IF n = 0 THEN known
        ELSE IF codes[n] \in ToSet(With[n - 1]) THEN With[n - 1]
        ELSE Append(With[n - 1], codes[n])
  IN  With[Len(codes)]

FetchAnswered(codes) ==
  LET d == DisplayIdOf[fetching] IN
  /\ alive /\ fetching # NoCall
  /\ cache' = [cache EXCEPT ![d] = WithCodes(@, codes)]
  /\ answers' = [answers EXCEPT ![d] = @ \cup {codes}]
  /\ Reply(fetching, cache'[d])
  /\ fetching' = NoCall
  /\ UNCHANGED <<statusVars, config, alive>>

\* A fetch that failed is answered with an empty list, and success.
FetchFailed ==
  /\ alive /\ fetching # NoCall
  /\ Reply(fetching, <<>>)
  /\ fetching' = NoCall
  /\ UNCHANGED <<statusVars, config, alive, cache, answers>>

VoiceServer ==
  \/ \E codes \in Voices : FetchAnswered(codes)
  \/ "fetch" \in Faults /\ FetchFailed

-------------------------------------------------------------------------------
(* getStatus, and both methods on a display without an engine *)

StatusStep(c) ==
  /\ MainLoopIsFree
  /\ Status!CallStep(c)
  /\ object[c] = "none" /\ ~Refused(c) => HasEngine(DisplayIdOf[c])
  /\ UNCHANGED <<languageVars, config, alive>>

StatusAnswered(c) ==
  /\ MainLoopIsFree
  /\ Status!Answered(c)
  /\ UNCHANGED <<languageVars, config, alive>>

\* getLanguages and getStatusInfo call a method of a null engine.
UsesMissingEngine(c) ==
  /\ MainLoopIsFree
  /\ IF c \in LanguageCall THEN listed[c] = <<>> ELSE Status!New(c)
  /\ ~Refused(c)
  /\ ~HasEngine(DisplayIdOf[c])
  /\ alive' = FALSE
  /\ UNCHANGED <<statusVars, languageVars, config>>

\* The process is gone, or every call was made and every answer has come.
Quiet ==
  /\ \/ ~alive
     \/ /\ \A c \in LanguageCall : listed[c] # <<>>
        /\ \A c \in StatusCall : ~Status!New(c) /\ outstanding[c] = {}
  /\ UNCHANGED vars

Next ==
  \/ \E c \in LanguageCall : RefuseList(c) \/ ListFromCache(c) \/ StartFetch(c)
  \/ VoiceServer
  \/ \E c \in StatusCall : StatusStep(c)
  \/ \E c \in LanguageCall \cup StatusCall : UsesMissingEngine(c)
  \/ Quiet

Spec == Init /\ [][Next]_vars

(***************************************************************************)
(* The services of the bus answer or the call to them breaks.  Nothing is  *)
(* assumed of the voice server: ListVoices is called without a deadline.   *)
(***************************************************************************)
FairSpec ==
  /\ Spec
  /\ \A c \in StatusCall : WF_vars(StatusAnswered(c))

-------------------------------------------------------------------------------
TypeOK ==
  /\ Status!TypeOK
  /\ config \in Configs
  /\ alive \in BOOLEAN
  /\ cache \in [Display -> Seq(Code)]
  /\ fetching \in LanguageCall \cup {NoCall}
  /\ listed \in [LanguageCall -> Seq({NoList} \cup Seq(Code))]
  /\ answers \in [Display -> SUBSET Voices]

\* The codes of an answer, each where it comes first.
EachOnceInOrder(list, codes) ==
  /\ ToSet(list) = ToSet(codes)
  /\ \A i, j \in 1..Len(list) :
       i < j => \E m \in 1..Len(codes) :
                  codes[m] = list[i] /\ \A n \in 1..m : codes[n] # list[j]

(***************************************************************************)
(* A client is given the codes of an answer the voice server gave to the   *)
(* engine of its display, each once and in order, or nothing: neither a    *)
(* failed fetch nor that of the other display leaves anything in the cache.*)
(***************************************************************************)
ListsAnAnswer ==
  \A c \in LanguageCall : \A i \in 1..Len(listed[c]) :
    LET list == listed[c][i] IN
    \/ Refused(c) /\ list = NoList
    \/ ~Refused(c) /\ list = <<>>
    \/ ~Refused(c) /\ \E codes \in answers[DisplayIdOf[c]] : EachOnceInOrder(list, codes)

(***************************************************************************)
(* Once a display has had a list to give, whoever asks from then on is     *)
(* given that list, never another and never an empty one, whatever the     *)
(* voice server would answer by then and whether it would answer.          *)
(***************************************************************************)
ListIsStable ==
  [][\A a, b \in {c \in LanguageCall : ~Refused(c)} :
       DisplayIdOf[a] = DisplayIdOf[b] /\ listed[a] \notin {<<>>, <<<<>>>>}
         /\ listed'[b] # listed[b] => listed'[b] = listed[a]]_vars

(***************************************************************************)
(* With engines that exist and as many of them as displays (what           *)
(* files/conf/tts_config.json says), no call reaches a null engine, and    *)
(* every display can speak.                                                *)
(***************************************************************************)
CompleteConfigServes ==
  /\ config.isObject /\ config.isNumber /\ config.displayCount = 2
  /\ config.tts_engine \in SpeechEngines /\ config.audio_engine \in AudioEngines
  => alive /\ LoadedBy(config) = Display

(***************************************************************************)
(* getStatus beside a main loop that blocks (see GetStatus): no callback   *)
(* comes for a request that was deleted with its reply.                    *)
(***************************************************************************)
DeletedWithReply == Status!DeletedWithReply

(***************************************************************************)
(* And the reply is a status exactly if both callbacks filled in theirs.   *)
(***************************************************************************)
FailureIsReported == Status!FailureIsReported

(***************************************************************************)
(* What makes these inductive: the main loop waits for the voice server on *)
(* behalf of a call it has not answered, for a display that has nothing in *)
(* its cache; what a cache holds is an answer to its own engine; and a     *)
(* list that was given is what the cache holds since, or empty.            *)
(***************************************************************************)
FetchesOnce ==
  fetching # NoCall =>
    ~Refused(fetching) /\ listed[fetching] = <<>> /\ ~Cached(DisplayIdOf[fetching])

CachesAnAnswer ==
  \A d \in Display :
    Cached(d) => \E codes \in answers[d] : EachOnceInOrder(cache[d], codes)

ListsTheCache ==
  \A c \in LanguageCall :
    IF Refused(c) THEN listed[c] \in {<<>>, <<NoList>>}
    ELSE listed[c] \in {<<>>, <<<<>>>>, <<cache[DisplayIdOf[c]]>>}

QueriesInv ==
  /\ TypeOK /\ Status!StatusInv
  /\ FetchesOnce /\ CachesAnAnswer /\ ListsTheCache
  /\ CompleteConfigServes

(***************************************************************************)
(* A getStatus whose two queries could be sent gets its reply, however     *)
(* many fetches hold the main loop up, as long as the process lives and    *)
(* the voice server ends every fetch: one that never returns, and nothing  *)
(* makes it return, leaves every client of the main loop without a reply.  *)
(***************************************************************************)
SentIsReplied ==
  WF_vars(VoiceServer) =>
    \A c \in StatusCall :
      (object[c] = "live" /\ unsent[c] = {}) ~> (replied[c] # <<>> \/ ~alive)
===============================================================================
