---------------------------- MODULE DailyContext ----------------------------
(***************************************************************************)
(* The sources of the daily page: the weather of one place, and a playlist *)
(* with a song of the day that a model may research.  A request waits for  *)
(* a provider between what it reads and what it writes, and the source may *)
(* be set up anew or disabled meanwhile.                                   *)
(***************************************************************************)
EXTENDS Naturals, FiniteSets

CONSTANTS
    Playlists,          \* playlists that can be connected
    Songs,              \* the song of the day is one of them
    Places,             \* places whose weather can be asked for
    Nothing,            \* no playlist, no place, no row
    DailyHandlers,      \* requests served at once
    Findings,           \* sources a research may name: a host, whether the provider
                        \* cited it, and what it is said to support
    MaxDailyRequests

ASSUME DailyAssumption ==
    /\ Nothing \notin Playlists \cup Songs \cup Places /\ MaxDailyRequests \in Nat
    /\ Findings \subseteq [host : Nat, cited : BOOLEAN, supports : SUBSET {"analysis", "popularity"}]

VARIABLES
    musicSource,        \* the source row: the playlist it names; Nothing while disabled
    playlist,           \* the stored playlist, with its song of the day
    research,           \* what was cached about each song of the day
    weatherSource,      \* the place of the weather; Nothing while disabled
    weather,            \* the cached weather: of which place, and whether it has expired
    request,            \* the requests being served
    daily               \* requests taken so far

dailyVars == <<musicSource, playlist, research, weatherSource, weather, request, daily>>

Free == [kind |-> "none"]
NoPlaylist == [of |-> Nothing, song |-> Nothing]
NoWeather == [of |-> Nothing, expired |-> FALSE]
NoResearch == [about |-> Nothing, popular |-> FALSE, sources |-> {}]

RequestKinds == {"none", "connect", "disable", "research", "weather", "place"}

DailyTypeOK ==
    /\ musicSource \in Playlists \cup {Nothing} /\ weatherSource \in Places \cup {Nothing}
    /\ playlist \in [of : Playlists, song : Songs] \cup {NoPlaylist}
    /\ weather \in [of : Places, expired : BOOLEAN] \cup {NoWeather}
    /\ \A song \in Songs : research[song] = NoResearch \/
          research[song] \in [about : Songs, popular : BOOLEAN, sources : SUBSET Findings]
    /\ \A h \in DailyHandlers : request[h].kind \in RequestKinds

DailyInit ==
    /\ musicSource = Nothing /\ playlist = NoPlaylist /\ research = [song \in Songs |-> NoResearch]
    /\ weatherSource = Nothing /\ weather = NoWeather
    /\ request = [h \in DailyHandlers |-> Free] /\ daily = 0

Begin(h, what) ==
    /\ request[h] = Free /\ daily < MaxDailyRequests /\ daily' = daily + 1
    /\ request' = [request EXCEPT ![h] = what]
RequestEnded(h) == request' = [request EXCEPT ![h] = Free] /\ UNCHANGED daily

MusicUnchanged == UNCHANGED <<musicSource, playlist>>
WeatherUnchanged == UNCHANGED <<weatherSource, weather>>

\* A provider that fails, or an answer that is refused, leaves everything as it is.
RequestFails(h) ==
    /\ request[h].kind \in {"connect", "research", "weather"} /\ RequestEnded(h)
    /\ UNCHANGED research /\ MusicUnchanged /\ WeatherUnchanged

(***************************************************************************)
(* The playlist                                                            *)
(***************************************************************************)
\* configure_daily_music: a share link or a file; the provider is asked for the playlist.
BeginConnect(h, p) ==
    /\ Begin(h, [kind |-> "connect", of |-> p])
    /\ UNCHANGED research /\ MusicUnchanged /\ WeatherUnchanged

\* refresh_daily_music: the playlist the source names is asked for again.
BeginMusicRefresh(h) ==
    /\ musicSource # Nothing /\ Begin(h, [kind |-> "connect", of |-> musicSource])
    /\ UNCHANGED research /\ MusicUnchanged /\ WeatherUnchanged

\* put_music_snapshot: the playlist and its source, in one transaction
PutSnapshot(p, song) == playlist' = [of |-> p, song |-> song] /\ musicSource' = p

PlaylistArrives(h, song) ==
    /\ request[h].kind = "connect" /\ PutSnapshot(request[h].of, song)
    /\ RequestEnded(h) /\ UNCHANGED research /\ WeatherUnchanged

\* Disabling takes two statements: the playlist goes first.
BeginDisable(h) ==
    /\ Begin(h, [kind |-> "disable"]) /\ playlist' = NoPlaylist
    /\ UNCHANGED <<musicSource, research>> /\ WeatherUnchanged
DisableSource(h) ==
    /\ request[h].kind = "disable" /\ musicSource' = Nothing
    /\ RequestEnded(h) /\ UNCHANGED <<playlist, research>> /\ WeatherUnchanged

(***************************************************************************)
(* The song of the day                                                     *)
(***************************************************************************)
BeginResearch(h) ==
    /\ musicSource # Nothing /\ playlist # NoPlaylist
    /\ Begin(h, [kind |-> "research", song |-> playlist.song])
    /\ UNCHANGED research /\ MusicUnchanged /\ WeatherUnchanged

\* review_music_research: only what the provider cited counts
KeptSources(named) == {f \in named : f.cited}

Acceptable(named) ==
    /\ \A f \in KeptSources(named) : f.supports # {}
    /\ \E f \in KeptSources(named) : "analysis" \in f.supports

HostsOf(sources) == {f.host : f \in {g \in sources : "popularity" \in g.supports}}

\* music_research_cache_key: the date, and the song the handler read with it.
CacheKey(h) == request[h].song

ResearchArrives(h, named, claimed) ==
    /\ request[h].kind = "research" /\ Acceptable(named)
    /\ research' = [research EXCEPT ![CacheKey(h)] =
           [about |-> request[h].song, sources |-> KeptSources(named),
            popular |-> claimed /\ Cardinality(HostsOf(KeptSources(named))) >= 2]]
    /\ RequestEnded(h) /\ MusicUnchanged /\ WeatherUnchanged

(***************************************************************************)
(* The weather                                                             *)
(***************************************************************************)
\* A page is drawn: without fresh weather in the cache the provider is asked.
BeginWeather(h) ==
    /\ weatherSource # Nothing /\ (weather # NoWeather => weather.expired)
    /\ Begin(h, [kind |-> "weather", place |-> weatherSource])
    /\ UNCHANGED research /\ MusicUnchanged /\ WeatherUnchanged

WeatherArrives(h) ==
    /\ request[h].kind = "weather" /\ weather' = [of |-> request[h].place, expired |-> FALSE]
    /\ RequestEnded(h) /\ UNCHANGED <<research, weatherSource>> /\ MusicUnchanged

WeatherExpires ==
    /\ weather # NoWeather /\ weather' = [weather EXCEPT !.expired = TRUE]
    /\ UNCHANGED <<research, weatherSource, request, daily>> /\ MusicUnchanged

\* configure_daily_weather, for a place or for none, and then the cache
ConfigureWeather(h, place) ==
    /\ Begin(h, [kind |-> "place"]) /\ weatherSource' = place
    /\ UNCHANGED <<research, weather>> /\ MusicUnchanged
ClearWeather(h) ==
    /\ request[h].kind = "place" /\ weather' = NoWeather
    /\ RequestEnded(h) /\ UNCHANGED <<research, weatherSource>> /\ MusicUnchanged

DailyNext ==
    \/ \E h \in DailyHandlers :
          \/ \E p \in Playlists : BeginConnect(h, p)
          \/ BeginMusicRefresh(h) \/ BeginDisable(h) \/ DisableSource(h)
          \/ \E song \in Songs : PlaylistArrives(h, song)
          \/ BeginResearch(h) \/ RequestFails(h)
          \/ \E named \in SUBSET Findings, claimed \in BOOLEAN : ResearchArrives(h, named, claimed)
          \/ BeginWeather(h) \/ WeatherArrives(h) \/ ClearWeather(h)
          \/ \E place \in Places \cup {Nothing} : ConfigureWeather(h, place)
    \/ WeatherExpires

\* The playlist on show is of the source that is named with it, whatever is
\* connected, refreshed and disabled at the same time; and what is said of a song
\* is about that song, and claims that it is popular on two hosts the provider cited.
DailyIsOfItsSource ==
    /\ musicSource # Nothing /\ playlist # NoPlaylist => playlist.of = musicSource
    /\ \A song \in Songs : LET r == research[song] IN r # NoResearch =>
          /\ r.about = song
          /\ r.popular => Cardinality(HostsOf({f \in r.sources : f.cited})) >= 2

DailySpec == DailyInit /\ [][DailyNext]_dailyVars
=============================================================================
