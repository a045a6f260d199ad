-------------------------- MODULE Process_proofs --------------------------
(***************************************************************************)
(* What a process is that accepts requests, and what the exit code of an   *)
(* evaluation is worth, for any number of threads and any index on disk.   *)
(* The invariant follows the one thread that loads: the lifespan of a      *)
(* server (On), place by place, before any other thread may start; or the  *)
(* loop of eval.py (Off), for which everything is in order until a case    *)
(* has failed with a message.                                              *)
(***************************************************************************)
EXTENDS Process, SequenceTheorems, TLAPS

USE DEF Onnx, EmbedderBuilds, ChatModelBuilds

MainPlaces == Places \cup {"validate", "build", "verify", "stats", "up", "down", "over"}
Outcomes == {"none", "empty", "answered", "failed", "asserted"}
Rows == 0..MaxRows

Typed ==
    /\ settings \in Settings /\ disk \in Disks
    /\ at \in [Actors -> MainPlaces]
    /\ \A t \in Threads : at[t] \in Places
    /\ vectors \in Rows \cup {NotLoaded} /\ chunks \in Rows \cup {NotLoaded}
    /\ stats \in Rows \cup {NotLoaded}
    /\ manifest \in {NotLoaded, NoName} \cup Embedders
    /\ session \in BOOLEAN /\ tokenizer \in BOOLEAN
    /\ outcome \in [Actors -> Outcomes]
    /\ results \in Seq([outcome : Outcomes, sound : BOOLEAN])
    /\ exit \in {NotLoaded, 0, 1}

\* Whoever is half way through load() has the vectors, and chunks to read.
HalfWay == \A a \in Actors : at[a] = "chunks" => Exists /\ vectors \in Rows

\* The places of the lifespan, in order.
Lifespan ==
    {"validate", "build", "index", "vectors", "chunks", "verify", "model", "session",
     "tokenizer", "encode", "stats", "up", "down"}

\* A server: what has been done when the lifespan has come to its place.
On ==
    /\ at[Main] \in Lifespan
    /\ results = <<>> /\ exit = NotLoaded
    /\ at[Main] # "up" => \A t \in Threads : at[t] = "idle" /\ outcome[t] = "none"
    /\ at[Main] \notin {"validate", "build", "down"} => EmbedderBuilds /\ ChatModelBuilds
    /\ at[Main] \in {"validate", "build", "index", "vectors"} => vectors = NotLoaded
    /\ at[Main] \in
          {"validate", "build", "index", "vectors", "chunks", "verify", "model", "session"}
          => ~session
    /\ at[Main] \in {"verify", "model", "session", "tokenizer", "encode", "stats", "up"}
          => chunks \in Rows /\ vectors = chunks
    /\ at[Main] \in {"model", "session", "tokenizer", "encode", "stats", "up"}
          => manifest \in {NoName, settings.embedder}
    /\ at[Main] = "tokenizer" => session
    /\ at[Main] \in {"encode", "stats", "up"} /\ Onnx => session /\ tokenizer
    /\ at[Main] = "up" => stats = chunks

\* Its threads, once it is up.
Served ==
    at[Main] = "up" =>
        \A t \in Threads :
            /\ at[t] \notin {"vectors", "chunks", "session", "tokenizer"}
            /\ at[t] = "answer" => chunks # 0
            /\ outcome[t] # "asserted"
            /\ outcome[t] = "empty" => chunks = 0
            /\ outcome[t] = "answered" => chunks # 0

Unfailed == \A k \in DOMAIN results : results[k].outcome # "failed"

\* An evaluation: as long as no case has failed, what is loaded is loaded whole.
Off ==
    /\ at[Main] \notin {"validate", "verify", "stats", "up"}
    /\ \A t \in Threads : at[t] = "idle" /\ outcome[t] = "none"
    /\ stats = NotLoaded
    /\ Len(results) <= Cases
    /\ at[Main] \in Places \ {"idle"} => Len(results) < Cases
    /\ exit # NotLoaded => at[Main] = "over"
    /\ exit = 0 => Unfailed
    /\ at[Main] = "tokenizer" => session
    /\ Unfailed =>
          /\ \A k \in DOMAIN results :
                results[k].outcome \in {"empty", "answered"} /\ results[k].sound
          /\ at[Main] # "chunks" => vectors = chunks
          /\ at[Main] \in {"search", "answer"} => chunks \in Rows
          /\ at[Main] # "tokenizer" => (session => tokenizer)
          /\ at[Main] = "encode" /\ Onnx => session

IInv == Typed /\ HalfWay /\ (settings.serves => On /\ Served) /\ (~settings.serves => Off)

LEMMA InitInv == Init => IInv
<1> SUFFICES ASSUME Init PROVE IInv
  OBVIOUS
<1> USE ProcessAssumption DEF Init, Actors
<1>1. Typed
  <2>1. /\ at \in [Actors -> MainPlaces] /\ \A t \in Threads : at[t] \in Places
        /\ outcome \in [Actors -> Outcomes]
    BY DEF MainPlaces, Places, Outcomes
  <2>2. results \in Seq([outcome : Outcomes, sound : BOOLEAN])
    OBVIOUS
  <2> QED
    BY <2>1, <2>2 DEF Typed
<1>4. HalfWay
  BY DEF HalfWay
<1>2. settings.serves => On /\ Served
  BY DEF On, Served, Lifespan
<1>3. ~settings.serves => Off
  BY DEF Off, Unfailed, Rows
<1> QED
  BY <1>1, <1>2, <1>3, <1>4 DEF IInv

-----------------------------------------------------------------------------
(* Types. *)

LEMMA EndsTyped ==
    ASSUME Typed, NEW a \in Actors, NEW what \in Outcomes, Ends(a, what)
    PROVE  /\ at' = [at EXCEPT ![a] = "idle"]
           /\ outcome' \in [Actors -> Outcomes]
           /\ results' \in Seq([outcome : Outcomes, sound : BOOLEAN])
           /\ UNCHANGED <<stats, exit>>
<1>1. /\ at' = [at EXCEPT ![a] = "idle"] /\ outcome' = [outcome EXCEPT ![a] = what]
      /\ UNCHANGED <<stats, exit>>
  BY DEF Ends, Go
<1>2. results' \in Seq([outcome : Outcomes, sound : BOOLEAN])
  <2> DEFINE case == [outcome |-> what, sound |-> vectors = chunks]
  <2>1. case \in [outcome : Outcomes, sound : BOOLEAN]
    OBVIOUS
  <2>2. results' = Append(results, case) \/ results' = results
    BY DEF Ends, Record
  <2> DEFINE S == [outcome : Outcomes, sound : BOOLEAN]
  <2>3. results \in Seq(S)
    BY DEF Typed
  <2>4. case \in S
    BY <2>1
  <2> HIDE DEF case, S
  <2>5. results' \in Seq(S)
    BY <2>2, <2>3, <2>4, AppendProperties
  <2> QED
    BY <2>5 DEF S
<1> QED
  BY <1>1, <1>2 DEF Typed

LEMMA RaisesTyped ==
    ASSUME Typed, NEW a \in Actors, NEW what \in Outcomes, Raises(a, what)
    PROVE  /\ \E place \in {"down", "idle"} :
                 /\ at' = [at EXCEPT ![a] = place]
                 /\ place = "down" => a = Main
           /\ outcome' \in [Actors -> Outcomes]
           /\ results' \in Seq([outcome : Outcomes, sound : BOOLEAN])
           /\ UNCHANGED <<stats, exit>>
<1>1. CASE Booting(a)
  BY <1>1 DEF Raises, Booting, Go, observed, Typed
<1>2. CASE ~Booting(a)
  BY <1>2, EndsTyped DEF Raises
<1> QED
  BY <1>1, <1>2

\* Moving one thread to a place where it may be.
LEMMA GoTyped ==
    ASSUME Typed, NEW a \in Actors, NEW place \in MainPlaces, Go(a, place),
           place \in Places \/ a = Main
    PROVE  at' \in [Actors -> MainPlaces] /\ \A t \in Threads : at'[t] \in Places
BY ProcessAssumption DEF Typed, Go, Actors

LEMMA QuestionTyped ==
    ASSUME Typed, HalfWay, NEW a \in Actors, Ask(a) \/ Question(a)
    PROVE  Typed'
<1> DEFINE Kept == UNCHANGED given
           AtTyped == at' \in [Actors -> MainPlaces] /\ \A t \in Threads : at'[t] \in Places
           Outcome == /\ outcome' \in [Actors -> Outcomes]
                      /\ results' \in Seq([outcome : Outcomes, sound : BOOLEAN])
                      /\ UNCHANGED <<stats, exit>>
<1>1. ASSUME NEW place \in Places \cup {"verify", "stats"}, Go(a, place),
             UNCHANGED <<outcome, observed>>, place \in Places \/ Booting(a)
      PROVE  AtTyped /\ Outcome
  BY <1>1, GoTyped DEF MainPlaces, observed, Typed, Booting
<1>2. ASSUME NEW what \in Outcomes, Ends(a, what)
      PROVE  AtTyped /\ Outcome
  BY <1>2, EndsTyped, GoTyped DEF MainPlaces, Places, Ends
<1>3. ASSUME NEW what \in Outcomes, Raises(a, what)
      PROVE  AtTyped /\ Outcome
  <2>1. CASE Booting(a)
    BY <1>3, <2>1, GoTyped DEF Raises, Booting, MainPlaces, observed, Typed
  <2>2. CASE ~Booting(a)
    BY <1>2, <1>3, <2>2 DEF Raises
  <2> QED
    BY <2>1, <2>2
<1>4. ASSUME Kept, AtTyped, Outcome, UNCHANGED <<store, model>>
      PROVE  Typed'
  BY <1>4 DEF Typed, given, store, model
<1>0. ASSUME UseIndex(a) \/ UseModel(a)
      PROVE  Typed'
  <2>1. AtTyped /\ Outcome
    BY <1>0, <1>1 DEF UseIndex, UseModel, Reads, Places
  <2> QED
    BY <1>0, <1>4, <2>1 DEF UseIndex, UseModel
<1>5. ASSUME LoadVectors(a)
      PROVE  Typed'
  <2>1. AtTyped /\ Outcome
    BY <1>1, <1>3, <1>5 DEF LoadVectors, Reads, Places, Outcomes
  <2>2. /\ vectors' \in Rows \cup {NotLoaded} /\ chunks' \in Rows \cup {NotLoaded}
        /\ manifest' \in {NotLoaded, NoName} \cup Embedders
    <3>1. disk.vectors \in {Missing, Torn} \cup Rows
      BY DEF Typed, Disks, Rows
    <3>2. 0 \in Rows
      BY ProcessAssumption DEF Rows
    <3> QED
      BY <1>5, <3>1, <3>2 DEF LoadVectors, Exists, Typed, store
  <2> QED
    BY <1>5, <2>1, <2>2 DEF LoadVectors, Typed, given, model
<1>6. ASSUME LoadChunks(a)
      PROVE  Typed'
  <2>1. AtTyped /\ Outcome
    BY <1>1, <1>3, <1>6 DEF LoadChunks, Reads, Places, Outcomes
  <2>2. /\ chunks' \in Rows \cup {NotLoaded}
        /\ manifest' \in {NotLoaded, NoName} \cup Embedders
    <3>1. /\ disk.chunks \in {Missing, Torn} \cup Rows
          /\ disk.manifest \in {Missing, Torn, NoName} \cup Embedders
          /\ disk.chunks # Missing
      BY <1>6 DEF Typed, Disks, Rows, LoadChunks, HalfWay, Exists
    <3> QED
      BY <1>6, <3>1 DEF LoadChunks, Typed
  <2> QED
    BY <1>6, <2>1, <2>2 DEF LoadChunks, Typed, given, model
<1>7. ASSUME LoadSession(a)
      PROVE  Typed'
  <2>1. AtTyped /\ Outcome
    BY <1>1, <1>3, <1>7 DEF LoadSession, Places, Outcomes
  <2> QED
    BY <1>7, <2>1 DEF LoadSession, Typed, given, store
<1>8. ASSUME LoadTokenizer(a)
      PROVE  Typed'
  <2>1. AtTyped /\ Outcome
    BY <1>1, <1>3, <1>8 DEF LoadTokenizer, Places, Outcomes
  <2> QED
    BY <1>8, <2>1 DEF LoadTokenizer, Typed, given, store
<1>9. ASSUME Encode(a)
      PROVE  Typed'
  <2>1. AtTyped /\ Outcome
    BY <1>1, <1>3, <1>9 DEF Encode, Places, Outcomes
  <2> QED
    BY <1>4, <1>9, <2>1 DEF Encode
<1>10. ASSUME EncodeRaises(a) \/ Search(a) \/ Answer(a)
       PROVE  Typed'
  <2>1. AtTyped /\ Outcome
    BY <1>1, <1>2, <1>3, <1>10 DEF EncodeRaises, Search, Answer, Places, Outcomes
  <2> QED
    BY <1>4, <1>10, <2>1 DEF EncodeRaises, Search, Answer
<1>11. ASSUME Ask(a)
       PROVE  Typed'
  <2>1. AtTyped
    BY <1>11, GoTyped DEF Ask, MainPlaces, Places
  <2>2. Outcome
    BY <1>11 DEF Ask, Typed, observed, Outcomes
  <2> QED
    BY <1>4, <1>11, <2>1, <2>2 DEF Ask
<1> QED
  BY <1>0, <1>5, <1>6, <1>7, <1>8, <1>9, <1>10, <1>11 DEF Question

LEMMA BootTyped ==
    ASSUME Typed, Boot \/ Summarise
    PROVE  Typed'
<1>1. Main \in Actors
  BY DEF Actors
<1>2. /\ at' \in [Actors -> MainPlaces]
      /\ \A t \in Threads : at'[t] \in Places
  <2>1. \E place \in MainPlaces : Go(Main, place)
    BY DEF Boot, Validate, Build, Verify, Stats, Summarise, MainPlaces, Places
  <2> QED
    BY <1>1, <2>1, GoTyped
<1>3. stats' \in Rows \cup {NotLoaded} /\ exit' \in {NotLoaded, 0, 1}
  BY DEF Boot, Validate, Build, Verify, Stats, Summarise, Typed, observed, IndexedChunks
<1>4. UNCHANGED <<given, store, model, outcome, results>>
  BY DEF Boot, Validate, Build, Verify, Stats, Summarise, observed
<1> QED
  BY <1>2, <1>3, <1>4 DEF Typed, given, store, model

LEMMA NextHalfWay ==
    ASSUME Typed, HalfWay, Next
    PROVE  HalfWay'
<1>1. UNCHANGED disk
  BY DEF Next, Boot, Validate, Build, Verify, Stats, Summarise, Ask, Question, UseIndex,
         LoadVectors, LoadChunks, UseModel, LoadSession, LoadTokenizer, Encode, EncodeRaises,
         Search, Answer, given
<1>2. ASSUME NEW a \in Actors, LoadVectors(a)
      PROVE  HalfWay'
  <2>1. disk.vectors \in {Missing, Torn} \cup Rows /\ NotLoaded \notin Rows
    BY ProcessAssumption DEF Typed, Disks, Rows
  <2>2. \A b \in Actors : at'[b] = "chunks" =>
           \/ b # a /\ at[b] = "chunks"
           \/ b = a /\ Exists /\ vectors' = disk.vectors /\ disk.vectors # Torn
    BY <1>2 DEF LoadVectors, Typed, Reads, Raises, Ends, Go
  <2>3. (vectors' = disk.vectors /\ disk.vectors # Torn) \/ UNCHANGED vectors \/ ~Exists
    BY <1>2 DEF LoadVectors, store
  <2> QED
    BY <1>1, <2>1, <2>2, <2>3 DEF HalfWay, Exists
<1>3. ASSUME NEW a \in Actors,
             \/ Ask(a) \/ UseIndex(a) \/ LoadChunks(a)
             \/ UseModel(a) \/ LoadSession(a) \/ LoadTokenizer(a)
             \/ Encode(a) \/ EncodeRaises(a) \/ Search(a) \/ Answer(a)
      PROVE  HalfWay'
  <2>1. \E place \in MainPlaces \ {"chunks"} : Go(a, place)
    BY <1>3 DEF Ask, UseIndex, LoadChunks, UseModel, LoadSession, LoadTokenizer, Encode,
                EncodeRaises, Search, Answer, Reads, Raises, Ends, Go, MainPlaces, Places
  <2>2. UNCHANGED vectors
    BY <1>3 DEF Ask, UseIndex, LoadChunks, UseModel, LoadSession, LoadTokenizer, Encode,
                EncodeRaises, Search, Answer, store
  <2> QED
    BY <1>1, <2>1, <2>2 DEF HalfWay, Exists, Go, Typed
<1>4. CASE Boot \/ Summarise
  <2>1. \E place \in MainPlaces \ {"chunks"} : Go(Main, place)
    BY <1>4 DEF Boot, Validate, Build, Verify, Stats, Summarise, MainPlaces, Places
  <2>2. UNCHANGED vectors
    BY <1>4 DEF Boot, Validate, Build, Verify, Stats, Summarise, store
  <2> QED
    BY <1>1, <2>1, <2>2 DEF HalfWay, Exists, Go, Typed
<1> QED
  BY <1>2, <1>3, <1>4 DEF Next, Question

LEMMA NextTyped ==
    ASSUME Typed, HalfWay, [Next]_vars
    PROVE  Typed' /\ HalfWay'
<1>1. CASE Next
  BY <1>1, QuestionTyped, BootTyped, NextHalfWay DEF Next
<1>2. CASE UNCHANGED vars
  BY <1>2 DEF vars, given, store, model, observed, Typed, HalfWay, Exists
<1> QED
  BY <1>1, <1>2

-----------------------------------------------------------------------------
(* The server. *)

\* A step of the main thread that takes it from one place of the lifespan to
\* another before it is up leaves the other threads waiting.
LEMMA MainAt ==
    ASSUME Typed, NEW place, Go(Main, place)
    PROVE  at'[Main] = place /\ \A t \in Threads : at'[t] = at[t]
BY ProcessAssumption DEF Go, Typed, Actors

LEMMA ServerBoots ==
    ASSUME Typed, settings.serves, On, Served, Boot
    PROVE  On' /\ Served'
<1>1. CASE Validate
  <2>1. /\ at[Main] = "validate" /\ (Go(Main, "down") \/ Go(Main, "build"))
        /\ UNCHANGED <<given, store, model, outcome, observed>>
    BY <1>1 DEF Validate
  <2>2. at'[Main] \in {"down", "build"} /\ \A t \in Threads : at'[t] = at[t]
    BY <2>1, MainAt
  <2> QED
    BY <2>1, <2>2 DEF On, Served, Lifespan, given, store, model, observed
<1>2. CASE Build
  <2>1. /\ at[Main] = "build"
        /\ Go(Main, IF ~(EmbedderBuilds /\ ChatModelBuilds) THEN "down" ELSE "index")
        /\ UNCHANGED <<given, store, model, outcome, observed>>
    BY <1>2 DEF Build
  <2>2. /\ at'[Main] = IF ~(EmbedderBuilds /\ ChatModelBuilds) THEN "down" ELSE "index"
        /\ \A t \in Threads : at'[t] = at[t]
    BY <2>1, MainAt
  <2> QED
    BY <2>1, <2>2 DEF On, Served, Lifespan, given, store, model, observed
<1>3. CASE Verify
  <2>1. /\ at[Main] = "verify"
        /\ Go(Main, IF manifest \in {NoName, settings.embedder} THEN "model" ELSE "down")
        /\ UNCHANGED <<given, store, model, outcome, observed>>
    BY <1>3 DEF Verify
  <2>2. /\ at'[Main] = IF manifest \in {NoName, settings.embedder} THEN "model" ELSE "down"
        /\ \A t \in Threads : at'[t] = at[t]
    BY <2>1, MainAt
  <2> QED
    BY <2>1, <2>2 DEF On, Served, Lifespan, given, store, model, observed
<1>4. CASE Stats
  <2>1. /\ at[Main] = "stats" /\ stats' = chunks /\ Go(Main, "up")
        /\ UNCHANGED <<given, store, model, outcome, results, exit>>
    BY <1>4 DEF Stats, IndexedChunks
  <2>2. at'[Main] = "up" /\ \A t \in Threads : at'[t] = at[t]
    BY <2>1, MainAt
  <2>3. On'
    <3>1. /\ chunks \in Rows /\ vectors = chunks /\ manifest \in {NoName, settings.embedder}
          /\ EmbedderBuilds /\ ChatModelBuilds /\ results = <<>> /\ exit = NotLoaded
          /\ Onnx => session /\ tokenizer
      BY <2>1 DEF On
    <3>2. UNCHANGED <<settings, vectors, chunks, manifest, session, tokenizer, results, exit>>
      BY <2>1 DEF given, store, model
    <3> QED
      BY <2>1, <2>2, <3>1, <3>2 DEF On, Lifespan
  <2>4. \A t \in Threads : at'[t] = "idle" /\ outcome'[t] = "none"
    BY <2>1, <2>2 DEF On
  <2> QED
    BY <2>3, <2>4 DEF Served
<1> QED
  BY <1>1, <1>2, <1>3, <1>4 DEF Boot

\* The lifespan loads the index and the model.
LEMMA ServerLoads ==
    ASSUME Typed, HalfWay, settings.serves, On, Served, Ask(Main) \/ Question(Main)
    PROVE  On' /\ Served'
<1>0. Booting(Main) /\ Main \in Actors
  BY DEF Booting, Actors
<1>1. ASSUME NEW what, Raises(Main, what)
      PROVE  /\ at'[Main] = "down" /\ \A t \in Threads : at'[t] = at[t]
             /\ UNCHANGED <<outcome, observed>>
  BY <1>0, <1>1, MainAt DEF Raises
<1>2. ASSUME at'[Main] = "down", \A t \in Threads : at'[t] = at[t], at[Main] # "up",
             UNCHANGED <<given, outcome, observed>>
      PROVE  On' /\ Served'
  BY <1>2 DEF On, Served, Lifespan, given, observed
<1>9. CASE UseIndex(Main)
  <2>1. /\ at[Main] = "index" /\ vectors = NotLoaded /\ Go(Main, "vectors")
        /\ UNCHANGED <<given, store, model, outcome, observed>>
    BY <1>9 DEF UseIndex, On
  <2>2. at'[Main] = "vectors" /\ \A t \in Threads : at'[t] = at[t]
    BY <2>1, MainAt
  <2> QED
    BY <2>1, <2>2 DEF On, Served, Lifespan, given, store, model, observed
<1>10. CASE UseModel(Main)
  <2>1. /\ at[Main] = "model" /\ ~session /\ Go(Main, IF ~Onnx THEN "encode" ELSE "session")
        /\ UNCHANGED <<given, store, model, outcome, observed>>
    BY <1>10 DEF UseModel, On
  <2>2. /\ at'[Main] = IF ~Onnx THEN "encode" ELSE "session"
        /\ \A t \in Threads : at'[t] = at[t]
    BY <2>1, MainAt
  <2> QED
    BY <2>1, <2>2 DEF On, Served, Lifespan, given, store, model, observed
<1>3. CASE LoadVectors(Main)
  <2>1. at[Main] = "vectors" /\ UNCHANGED <<given, model>>
    BY <1>3 DEF LoadVectors
  <2>2. CASE /\ vectors' = 0 /\ chunks' = 0 /\ manifest' = NoName /\ Go(Main, "verify")
             /\ UNCHANGED <<outcome, observed>>
    <3>1. at'[Main] = "verify" /\ \A t \in Threads : at'[t] = at[t]
      BY <2>2, MainAt
    <3>2. 0 \in Rows
      BY ProcessAssumption DEF Rows
    <3> QED
      BY <2>1, <2>2, <3>1, <3>2 DEF On, Served, Lifespan, given, model, observed
  <2>3. CASE Raises(Main, "failed")
    BY <1>1, <1>2, <2>1, <2>3
  <2>4. CASE Go(Main, "chunks") /\ UNCHANGED <<outcome, observed>>
    <3>1. at'[Main] = "chunks" /\ \A t \in Threads : at'[t] = at[t]
      BY <2>4, MainAt
    <3> QED
      BY <2>1, <2>4, <3>1 DEF On, Served, Lifespan, given, model, observed
  <2> QED
    BY <1>0, <1>3, <2>1, <2>2, <2>3, <2>4 DEF LoadVectors, Reads
<1>4. CASE LoadChunks(Main)
  <2>1. at[Main] = "chunks" /\ vectors \in Rows /\ UNCHANGED <<given, vectors, model>>
    BY <1>0, <1>4 DEF LoadChunks, HalfWay
  <2>2. CASE Raises(Main, "failed")
    BY <1>1, <1>2, <2>1, <2>2
  <2>3. CASE Go(Main, "verify") /\ chunks' = vectors /\ UNCHANGED <<outcome, observed>>
    <3>1. at'[Main] = "verify" /\ \A t \in Threads : at'[t] = at[t]
      BY <2>3, MainAt
    <3> QED
      BY <2>1, <2>3, <3>1 DEF On, Served, Lifespan, given, model, observed
  <2> QED
    BY <1>0, <1>4, <2>2, <2>3 DEF LoadChunks, Reads
<1>5. CASE LoadSession(Main)
  <2>1. at[Main] = "session" /\ ~session /\ UNCHANGED <<given, store, tokenizer>>
    BY <1>5 DEF LoadSession, On
  <2>2. CASE Raises(Main, "failed")
    BY <1>1, <1>2, <2>1, <2>2
  <2>4. CASE session' = TRUE /\ Go(Main, "tokenizer") /\ UNCHANGED <<outcome, observed>>
    <3>1. at'[Main] = "tokenizer" /\ \A t \in Threads : at'[t] = at[t]
      BY <2>4, MainAt
    <3> QED
      BY <2>1, <2>4, <3>1 DEF On, Served, Lifespan, given, store, observed
  <2> QED
    BY <1>5, <2>2, <2>4 DEF LoadSession
<1>6. CASE LoadTokenizer(Main)
  <2>1. at[Main] = "tokenizer" /\ session /\ UNCHANGED <<given, store, session>>
    BY <1>6 DEF LoadTokenizer, On
  <2>2. CASE Raises(Main, "failed")
    BY <1>1, <1>2, <2>1, <2>2
  <2>3. CASE tokenizer' = TRUE /\ Go(Main, "encode") /\ UNCHANGED <<outcome, observed>>
    <3>1. at'[Main] = "encode" /\ \A t \in Threads : at'[t] = at[t]
      BY <2>3, MainAt
    <3> QED
      BY <2>1, <2>3, <3>1 DEF On, Served, Lifespan, given, store, observed
  <2> QED
    BY <1>6, <2>2, <2>3 DEF LoadTokenizer
<1>7. CASE Encode(Main) \/ EncodeRaises(Main)
  <2>1. at[Main] = "encode" /\ UNCHANGED <<given, store, model>>
    BY <1>7 DEF Encode, EncodeRaises
  <2>2. CASE \E what \in {"asserted", "failed"} : Raises(Main, what)
    BY <1>1, <1>2, <2>1, <2>2
  <2>3. CASE Go(Main, "stats") /\ UNCHANGED <<outcome, observed>>
    <3>1. at'[Main] = "stats" /\ \A t \in Threads : at'[t] = at[t]
      BY <2>3, MainAt
    <3> QED
      BY <2>1, <2>3, <3>1 DEF On, Served, Lifespan, given, store, model, observed
  <2> QED
    BY <1>0, <1>7, <2>2, <2>3 DEF Encode, EncodeRaises
<1>8. CASE Ask(Main) \/ Search(Main) \/ Answer(Main)
  BY <1>8 DEF Ask, Search, Answer, On, Lifespan
<1> QED
  BY <1>3, <1>4, <1>5, <1>6, <1>7, <1>8, <1>9, <1>10 DEF Question

\* The threads of a server find everything loaded.
LEMMA ServerAnswers ==
    ASSUME Typed, settings.serves, On, Served, NEW a \in Threads, Ask(a) \/ Question(a)
    PROVE  On' /\ Served'
<1>0. a # Main /\ a \in Actors /\ ~Booting(a)
  BY ProcessAssumption DEF Actors, Booting
<1>1. at[Main] = "up"
  BY <1>0 DEF On, Ask, Question, UseIndex, LoadVectors, LoadChunks, UseModel, LoadSession,
              LoadTokenizer, Encode, EncodeRaises, Search, Answer
<1>2. /\ vectors = chunks /\ chunks \in Rows /\ vectors # NotLoaded /\ chunks # NotLoaded
      /\ Onnx => session /\ tokenizer
      /\ at[a] \notin {"vectors", "chunks", "session", "tokenizer"}
  BY <1>1, ProcessAssumption DEF On, Served, Rows
<1>3. /\ at \in [Actors -> MainPlaces] /\ outcome \in [Actors -> Outcomes]
      /\ results = <<>>
  BY DEF Typed, On
<1>4. ASSUME UNCHANGED <<given, store, model, observed>>,
             NEW place \in Places \ {"vectors", "chunks", "session", "tokenizer"}, Go(a, place),
             place = "answer" => chunks # 0,
             NEW what \in {"none", "empty", "answered", "failed"},
             outcome' = [outcome EXCEPT ![a] = what] \/ outcome' = outcome,
             what = "empty" => chunks = 0, what = "answered" => chunks # 0
      PROVE  On' /\ Served'
  <2>1. /\ at'[a] = place /\ \A b \in Actors : b # a => at'[b] = at[b]
        /\ at'[Main] = "up"
    BY <1>0, <1>1, <1>3, <1>4 DEF Go, Actors
  <2>2. \A b \in Actors : b # a => outcome'[b] = outcome[b]
    BY <1>3, <1>4
  <2>3. outcome'[a] = what \/ outcome'[a] = outcome[a]
    BY <1>0, <1>3, <1>4
  <2>4. On'
    BY <1>1, <1>4, <2>1 DEF On, given, store, model, observed
  <2>5. Served'
    BY <1>0, <1>1, <1>4, <2>1, <2>2, <2>3 DEF Served, store, Actors
  <2> QED
    BY <2>4, <2>5
<1>5. ASSUME NEW what \in {"empty", "answered", "failed"}, Ends(a, what),
             UNCHANGED <<given, store, model>>,
             what = "empty" => chunks = 0, what = "answered" => chunks # 0
      PROVE  On' /\ Served'
  <2>1. UNCHANGED observed /\ Go(a, "idle") /\ outcome' = [outcome EXCEPT ![a] = what]
    BY <1>0, <1>5 DEF Ends, Record, observed
  <2> QED
    BY <1>4, <1>5, <2>1 DEF Places
<1>6. CASE UseIndex(a)
  <2>1. Go(a, "search") /\ UNCHANGED <<given, store, model, outcome, observed>>
    BY <1>0, <1>2, <1>6 DEF UseIndex, Reads
  <2> QED
    BY <1>4, <2>1 DEF Places
<1>7. CASE UseModel(a)
  <2>1. Go(a, "encode") /\ UNCHANGED <<given, store, model, outcome, observed>>
    BY <1>2, <1>7 DEF UseModel
  <2> QED
    BY <1>4, <2>1 DEF Places
<1>8. CASE Encode(a)
  <2>1. Go(a, "index") /\ UNCHANGED <<given, store, model, outcome, observed>>
    BY <1>0, <1>2, <1>8 DEF Encode
  <2> QED
    BY <1>4, <2>1 DEF Places
<1>9. CASE EncodeRaises(a)
  BY <1>0, <1>5, <1>9 DEF EncodeRaises, Raises
<1>10. CASE Search(a)
  <2>1. CASE Go(a, "answer") /\ chunks # 0 /\ UNCHANGED <<outcome, observed>>
    BY <1>4, <1>10, <2>1 DEF Search, Places
  <2> QED
    BY <1>2, <1>5, <1>10, <2>1 DEF Search
<1>11. CASE Answer(a)
  <2>1. chunks # 0
    BY <1>1, <1>11 DEF Answer, Served
  <2> QED
    BY <1>5, <1>11, <2>1 DEF Answer
<1>12. CASE Ask(a)
  BY <1>4, <1>12 DEF Ask, Places
<1>13. ~LoadVectors(a) /\ ~LoadChunks(a) /\ ~LoadSession(a) /\ ~LoadTokenizer(a)
  BY <1>2 DEF LoadVectors, LoadChunks, LoadSession, LoadTokenizer
<1> QED
  BY <1>6, <1>7, <1>8, <1>9, <1>10, <1>11, <1>12, <1>13 DEF Question

-----------------------------------------------------------------------------
(* The evaluation. *)

Result == [outcome : Outcomes, sound : BOOLEAN]

\* What one more result does to the judgement on all of them.
LEMMA OneMoreResult ==
    ASSUME results \in Seq(Result), NEW r \in Result, results' = Append(results, r)
    PROVE  /\ Len(results') = Len(results) + 1 /\ Len(results) \in Nat
           /\ Unfailed' <=> Unfailed /\ r.outcome # "failed"
           /\ \A k \in DOMAIN results' :
                 results'[k] = r \/ (k \in DOMAIN results /\ results'[k] = results[k])
<1>1. /\ Len(results') = Len(results) + 1 /\ Len(results) \in Nat
      /\ DOMAIN results = 1..Len(results) /\ DOMAIN results' = 1..(Len(results) + 1)
      /\ \A k \in 1..Len(results) : results'[k] = results[k]
      /\ results'[Len(results) + 1] = r
  <2>1. results' \in Seq(Result)
    BY AppendProperties
  <2> QED
    BY <2>1, AppendProperties, LenProperties
<1>2. \A k \in DOMAIN results' :
         results'[k] = r \/ (k \in DOMAIN results /\ results'[k] = results[k])
  BY <1>1
<1>3. Unfailed' => Unfailed /\ r.outcome # "failed"
  BY <1>1 DEF Unfailed
<1>4. Unfailed /\ r.outcome # "failed" => Unfailed'
  BY <1>2 DEF Unfailed
<1> QED
  BY <1>1, <1>2, <1>3, <1>4

\* A case is over: it failed, or what it used is whole.
LEMMA EvalEnds ==
    ASSUME Typed, Off, ~settings.serves, at[Main] \in Places \ {"idle"},
           NEW what \in Outcomes, Ends(Main, what), UNCHANGED given,
           (what # "failed" /\ Unfailed) =>
               /\ what \in {"empty", "answered"}
               /\ vectors = chunks /\ vectors' = chunks' /\ (session' => tokenizer')
    PROVE  Off'
<1> DEFINE r == [outcome |-> what, sound |-> vectors = chunks]
<1>1. /\ Go(Main, "idle") /\ outcome' = [outcome EXCEPT ![Main] = what]
      /\ results' = Append(results, r)
      /\ UNCHANGED <<stats, exit>>
  BY DEF Ends, Record
<1>2. at'[Main] = "idle" /\ \A t \in Threads : at'[t] = at[t]
  BY <1>1, MainAt
<1>3. \A t \in Threads : outcome'[t] = outcome[t]
  BY <1>1, ProcessAssumption DEF Typed, Actors
<1>4. r \in Result /\ r.outcome = what /\ r.sound = (vectors = chunks)
  BY DEF Result
<1> HIDE DEF r
<1>5. /\ Len(results') = Len(results) + 1 /\ Len(results) \in Nat
      /\ Unfailed' <=> Unfailed /\ what # "failed"
      /\ \A k \in DOMAIN results' :
            results'[k] = r \/ (k \in DOMAIN results /\ results'[k] = results[k])
  BY <1>1, <1>4, OneMoreResult DEF Typed, Result
<1>6. Len(results') <= Cases
  BY <1>5, ProcessAssumption DEF Off
<1>7. exit = NotLoaded
  BY DEF Off, Places
<1>8. Unfailed' =>
        /\ \A k \in DOMAIN results' :
              results'[k].outcome \in {"empty", "answered"} /\ results'[k].sound
        /\ vectors' = chunks' /\ (session' => tokenizer')
  BY <1>4, <1>5 DEF Off
<1>9. exit' # NotLoaded => FALSE
  BY <1>1, <1>7
<1>10. exit' = 0 => FALSE
  BY <1>1, <1>7, ProcessAssumption
<1> QED
  BY <1>1, <1>2, <1>3, <1>6, <1>8, <1>9, <1>10 DEF Off

\* A case goes on to another place.
LEMMA EvalGoes ==
    ASSUME Typed, Off, ~settings.serves, at[Main] \in Places,
           at[Main] = "idle" => Len(results) < Cases,
           NEW place \in Places \ {"idle"}, Go(Main, place),
           UNCHANGED <<given, observed>>,
           \A t \in Threads : outcome'[t] = outcome[t],
           place = "tokenizer" => session',
           Unfailed =>
              /\ place # "chunks" => vectors' = chunks'
              /\ place \in {"search", "answer"} => chunks' \in Rows
              /\ place # "tokenizer" => (session' => tokenizer')
              /\ place = "encode" /\ Onnx => session'
    PROVE  Off'
<1>1. at'[Main] = place /\ \A t \in Threads : at'[t] = at[t]
  BY MainAt
<1>2. exit = NotLoaded
  BY DEF Off, Places
<1>3. Len(results) < Cases
  BY DEF Off
<1>4. Unfailed' <=> Unfailed
  BY DEF Unfailed, observed
<1>5. exit' # NotLoaded => FALSE
  BY <1>2 DEF observed
<1>6. exit' = 0 => FALSE
  BY <1>2, ProcessAssumption DEF observed
<1>7. UNCHANGED <<settings, results, stats>>
  BY DEF given, observed
<1>8. place \notin {"validate", "verify", "stats", "up", "over"}
  BY DEF Places
<1> QED
  BY <1>1, <1>3, <1>4, <1>5, <1>6, <1>7, <1>8 DEF Off

LEMMA EvalQuestions ==
    ASSUME Typed, HalfWay, Off, ~settings.serves, Ask(Main) \/ Question(Main)
    PROVE  Off'
<1>0. /\ ~Booting(Main) /\ Main \in Actors
      /\ NotLoaded \notin Rows /\ 0 \in Rows
  BY ProcessAssumption DEF Booting, Actors, Rows
<1>10. CASE UseIndex(Main)
  <2>1. at[Main] = "index" /\ UNCHANGED <<given, store, model, outcome, observed>>
    BY <1>10 DEF UseIndex
  <2>2. Unfailed => vectors = chunks /\ (session => tokenizer)
    BY <2>1 DEF Off
  <2>3. CASE vectors # NotLoaded /\ Go(Main, "search")
    <3>1. Unfailed => chunks \in Rows
      BY <2>2, <2>3 DEF Typed
    <3> QED
      BY <2>1, <2>2, <2>3, <3>1, EvalGoes DEF Places, store, model
  <2>4. CASE Go(Main, "vectors")
    BY <2>1, <2>2, <2>4, EvalGoes DEF Places, store, model
  <2> QED
    BY <1>0, <1>10, <2>3, <2>4 DEF UseIndex, Reads
<1>11. CASE UseModel(Main)
  <2>1. /\ at[Main] = "model" /\ UNCHANGED <<given, store, model, outcome, observed>>
        /\ Go(Main, IF session \/ ~Onnx THEN "encode" ELSE "session")
    BY <1>11 DEF UseModel
  <2>2. Unfailed => vectors = chunks /\ (session => tokenizer)
    BY <2>1 DEF Off
  <2>3. CASE session \/ ~Onnx
    BY <2>1, <2>2, <2>3, EvalGoes DEF Places, store, model
  <2>4. CASE ~session /\ Onnx
    BY <2>1, <2>2, <2>4, EvalGoes DEF Places, store, model
  <2> QED
    BY <2>3, <2>4
<1>1. CASE LoadVectors(Main)
  <2>1. at[Main] = "vectors" /\ UNCHANGED <<given, model>>
    BY <1>1 DEF LoadVectors
  <2>2. Unfailed => vectors = chunks /\ (session => tokenizer)
    BY <2>1 DEF Off
  <2>4. CASE /\ vectors' = 0 /\ chunks' = 0 /\ Go(Main, "search")
             /\ UNCHANGED <<outcome, observed>>
    BY <1>0, <2>1, <2>2, <2>4, EvalGoes DEF Places, model
  <2>5. CASE Raises(Main, "failed")
    BY <1>0, <2>1, <2>5, EvalEnds DEF Raises, Places, Outcomes
  <2>6. CASE Go(Main, "chunks") /\ UNCHANGED <<outcome, observed>>
    BY <2>1, <2>2, <2>6, EvalGoes DEF Places, model
  <2> QED
    BY <1>0, <1>1, <2>4, <2>5, <2>6 DEF LoadVectors, Reads
<1>2. CASE LoadChunks(Main)
  <2>1. at[Main] = "chunks" /\ vectors \in Rows /\ UNCHANGED <<given, vectors, model>>
    BY <1>0, <1>2 DEF LoadChunks, HalfWay
  <2>2. CASE Raises(Main, "failed")
    BY <1>0, <2>1, <2>2, EvalEnds DEF Raises, Places, Outcomes
  <2>3. CASE Go(Main, "search") /\ chunks' = vectors /\ UNCHANGED <<outcome, observed>>
    <3>1. Unfailed => (session => tokenizer)
      BY <2>1 DEF Off
    <3> QED
      BY <2>1, <2>3, <3>1, EvalGoes DEF Places, model
  <2> QED
    BY <1>0, <1>2, <2>2, <2>3 DEF LoadChunks, Reads
<1>3. CASE LoadSession(Main)
  <2>1. at[Main] = "session" /\ UNCHANGED <<given, store, tokenizer>>
    BY <1>3 DEF LoadSession
  <2>2. Unfailed => vectors = chunks /\ (session => tokenizer)
    BY <2>1 DEF Off
  <2>4. CASE Raises(Main, "failed")
    BY <1>0, <2>1, <2>4, EvalEnds DEF Raises, Places, Outcomes
  <2>5. CASE session' = TRUE /\ Go(Main, "tokenizer") /\ UNCHANGED <<outcome, observed>>
    BY <2>1, <2>2, <2>5, EvalGoes DEF Places, store
  <2> QED
    BY <1>3, <2>4, <2>5 DEF LoadSession
<1>4. CASE LoadTokenizer(Main)
  <2>1. at[Main] = "tokenizer" /\ UNCHANGED <<given, store, session>>
    BY <1>4 DEF LoadTokenizer
  <2>2. session /\ (Unfailed => vectors = chunks)
    BY <2>1 DEF Off
  <2>3. CASE Raises(Main, "failed")
    BY <1>0, <2>1, <2>3, EvalEnds DEF Raises, Places, Outcomes
  <2>4. CASE tokenizer' = TRUE /\ Go(Main, "encode") /\ UNCHANGED <<outcome, observed>>
    BY <2>1, <2>2, <2>4, EvalGoes DEF Places, store
  <2> QED
    BY <1>4, <2>3, <2>4 DEF LoadTokenizer
<1>5. CASE Encode(Main)
  <2>1. at[Main] = "encode" /\ UNCHANGED <<given, store, model>>
    BY <1>5 DEF Encode
  <2>2. Unfailed => /\ vectors = chunks /\ (session => tokenizer)
                    /\ Onnx => session
    BY <2>1 DEF Off
  <2>3. CASE Onnx /\ ~tokenizer /\ Raises(Main, "asserted")
    BY <1>0, <2>1, <2>2, <2>3, EvalEnds DEF Raises, Places, Outcomes
  <2>4. CASE Go(Main, "index") /\ UNCHANGED <<outcome, observed>>
    BY <2>1, <2>2, <2>4, EvalGoes DEF Places, store, model
  <2> QED
    BY <1>0, <1>5, <2>3, <2>4 DEF Encode
<1>6. CASE EncodeRaises(Main)
  BY <1>0, <1>6, EvalEnds DEF EncodeRaises, Raises, Places, Outcomes
<1>7. CASE Search(Main)
  <2>1. at[Main] = "search" /\ UNCHANGED <<given, store, model>>
    BY <1>7 DEF Search
  <2>2. Unfailed => vectors = chunks /\ chunks \in Rows /\ (session => tokenizer)
    BY <2>1 DEF Off
  <2>3. CASE chunks = NotLoaded /\ Ends(Main, "asserted")
    BY <1>0, <2>1, <2>2, <2>3, EvalEnds DEF Places, Outcomes
  <2>4. CASE Ends(Main, "empty")
    BY <2>1, <2>2, <2>4, EvalEnds DEF Places, Outcomes, store, model
  <2>5. CASE Ends(Main, "failed")
    BY <2>1, <2>5, EvalEnds DEF Places, Outcomes
  <2>6. CASE Go(Main, "answer") /\ UNCHANGED <<outcome, observed>>
    BY <2>1, <2>2, <2>6, EvalGoes DEF Places, store, model
  <2> QED
    BY <1>7, <2>3, <2>4, <2>5, <2>6 DEF Search
<1>8. CASE Answer(Main)
  <2>1. at[Main] = "answer" /\ UNCHANGED <<given, store, model>>
    BY <1>8 DEF Answer
  <2>2. Unfailed => vectors = chunks /\ (session => tokenizer)
    BY <2>1 DEF Off
  <2>3. PICK what \in {"answered", "failed"} : Ends(Main, what)
    BY <1>8 DEF Answer
  <2> QED
    BY <2>1, <2>2, <2>3, EvalEnds DEF Places, Outcomes, store, model
<1>9. CASE Ask(Main)
  <2>1. /\ at[Main] = "idle" /\ Len(results) < Cases /\ Go(Main, "model")
        /\ UNCHANGED <<given, store, model, observed>>
        /\ outcome' = [outcome EXCEPT ![Main] = "none"]
    BY <1>9 DEF Ask
  <2>2. Unfailed => vectors = chunks /\ (session => tokenizer)
    BY <2>1 DEF Off
  <2>3. \A t \in Threads : outcome'[t] = outcome[t]
    BY <2>1, ProcessAssumption DEF Typed, Actors
  <2> QED
    BY <2>1, <2>2, <2>3, EvalGoes DEF Places, store, model
<1> QED
  BY <1>1, <1>2, <1>3, <1>4, <1>5, <1>6, <1>7, <1>8, <1>9, <1>10, <1>11 DEF Question

\* The beginning and the end of an evaluation; its other threads never run.
LEMMA EvalBounds ==
    ASSUME Typed, Off, ~settings.serves,
           Boot \/ Summarise \/ \E t \in Threads : Ask(t) \/ Question(t)
    PROVE  Off'
<1>1. CASE Build
  <2>1. /\ at[Main] = "build" /\ UNCHANGED <<given, store, model, outcome, observed>>
        /\ Go(Main, IF ~(EmbedderBuilds /\ ChatModelBuilds) THEN "down" ELSE "idle")
    BY <1>1 DEF Build
  <2>2. at'[Main] \in {"down", "idle"} /\ \A t \in Threads : at'[t] = at[t]
    BY <2>1, MainAt
  <2>3. exit = NotLoaded
    BY <2>1 DEF Off
  <2>4. 0 # NotLoaded
    BY ProcessAssumption
  <2>5. UNCHANGED <<vectors, chunks, session, tokenizer, settings, outcome, stats, results, exit>>
    BY <2>1 DEF given, store, model, observed
  <2>6. "down" \notin Places
    BY DEF Places
  <2>7. /\ Unfailed' <=> Unfailed
        /\ Unfailed =>
              /\ \A k \in DOMAIN results :
                    results[k].outcome \in {"empty", "answered"} /\ results[k].sound
              /\ vectors = chunks /\ (session => tokenizer)
    BY <2>1, <2>5 DEF Off, Unfailed
  <2>8. /\ \A t \in Threads : at[t] = "idle" /\ outcome[t] = "none"
        /\ stats = NotLoaded /\ Len(results) <= Cases
    BY DEF Off
  <2> HIDE DEF Unfailed
  <2> QED
    BY <2>2, <2>3, <2>4, <2>5, <2>6, <2>7, <2>8 DEF Off
<1>2. CASE Summarise
  <2>1. /\ at[Main] = "idle" /\ Go(Main, "over") /\ exit' = IF Errors = {} THEN 0 ELSE 1
        /\ UNCHANGED <<given, store, model, outcome, stats, results>>
    BY <1>2 DEF Summarise
  <2>2. at'[Main] = "over" /\ \A t \in Threads : at'[t] = at[t]
    BY <2>1, MainAt
  <2>3. exit' = 0 => Unfailed
    BY <2>1 DEF Errors, Unfailed
  <2>4. /\ UNCHANGED <<vectors, chunks, session, tokenizer, settings, outcome, stats, results>>
        /\ Unfailed' <=> Unfailed
    BY <2>1 DEF given, store, model, Unfailed
  <2>5. "over" \notin Places
    BY DEF Places
  <2>6. Unfailed =>
           /\ \A k \in DOMAIN results :
                 results[k].outcome \in {"empty", "answered"} /\ results[k].sound
           /\ vectors = chunks /\ (session => tokenizer)
    BY <2>1 DEF Off
  <2>7. /\ \A t \in Threads : at[t] = "idle" /\ outcome[t] = "none"
        /\ stats = NotLoaded /\ Len(results) <= Cases
    BY DEF Off
  <2> HIDE DEF Unfailed
  <2> QED
    BY <2>2, <2>3, <2>4, <2>5, <2>6, <2>7 DEF Off
<1>3. ~(Validate \/ Verify \/ Stats)
  BY DEF Validate, Verify, Stats, Off
<1>4. ASSUME NEW t \in Threads, Ask(t) \/ Question(t)
      PROVE  FALSE
  <2>1. t # Main /\ at[t] = "idle" /\ at[Main] # "up"
    BY ProcessAssumption DEF Off
  <2> QED
    BY <1>4, <2>1 DEF Ask, Question, UseIndex, LoadVectors, LoadChunks, UseModel,
                      LoadSession, LoadTokenizer, Encode, EncodeRaises, Search, Answer
<1> QED
  BY <1>1, <1>2, <1>3, <1>4 DEF Boot

LEMMA NextInv ==
    ASSUME IInv, [Next]_vars
    PROVE  IInv'
<1>1. Typed' /\ HalfWay'
  BY NextTyped DEF IInv
<1>2. settings' = settings
  BY DEF Next, Boot, Validate, Build, Verify, Stats, Summarise, Ask, Question, UseIndex,
         LoadVectors, LoadChunks, UseModel, LoadSession, LoadTokenizer, Encode, EncodeRaises,
         Search, Answer, given, vars
<1>3. CASE UNCHANGED vars
  BY <1>1, <1>3 DEF IInv, On, Served, Off, Unfailed, vars, given, store, model, observed
<1>4. CASE Next /\ settings.serves
  <2>1. ~Summarise
    BY <1>4 DEF IInv, On, Lifespan, Summarise
  <2>2. On' /\ Served'
    BY <1>4, <2>1, ServerBoots, ServerLoads, ServerAnswers DEF Next, IInv, Actors
  <2> QED
    BY <1>1, <1>2, <1>4, <2>2 DEF IInv
<1>5. CASE Next /\ ~settings.serves
  <2>1. Off'
    BY <1>5, EvalQuestions, EvalBounds DEF Next, IInv, Actors
  <2> QED
    BY <1>1, <1>2, <1>5, <2>1 DEF IInv
<1> QED
  BY <1>3, <1>4, <1>5

-----------------------------------------------------------------------------
(* The theorems. *)

\* The invariant holds in every reachable state.
THEOREM InvHolds == Spec => []IInv
BY InitInv, NextInv, PTL DEF Spec

\* Every state of the process is well typed.
THEOREM TypeCorrect == Spec => []TypeOK
<1>1. IInv => TypeOK
  <2> SUFFICES ASSUME IInv PROVE TypeOK
    OBVIOUS
  <2>1. Len(results) <= Cases
    <3>1. CASE settings.serves
      BY <3>1, ProcessAssumption DEF IInv, On
    <3>2. CASE ~settings.serves
      BY <3>2 DEF IInv, Off
    <3> QED
      BY <3>1, <3>2
  <2> QED
    BY <2>1 DEF IInv, Typed, TypeOK, MainPlaces, Outcomes, Rows, Actors
<1> QED
  BY <1>1, InvHolds, PTL

\* A server that is up has a sound index and its whole model.
THEOREM UpIsAlwaysSound == Spec => []UpIsSound
<1>1. IInv => UpIsSound
  BY DEF IInv, On, Off, UpIsSound
<1> QED
  BY <1>1, InvHolds, PTL

\* No question ever loads anything, or meets a half loaded thing.
THEOREM NobodyEverLoadsLate == Spec => []NobodyLoadsLate
<1>1. IInv => NobodyLoadsLate
  <2> SUFFICES ASSUME IInv, NEW t \in Threads
               PROVE  /\ at[t] \notin {"vectors", "chunks", "session", "tokenizer"}
                      /\ outcome[t] # "asserted"
    BY DEF NobodyLoadsLate
  <2>1. CASE settings.serves
    BY <2>1 DEF IInv, On, Served
  <2>2. CASE ~settings.serves
    BY <2>2 DEF IInv, Off
  <2> QED
    BY <2>1, <2>2
<1> QED
  BY <1>1, InvHolds, PTL

\* What /health counted at boot is what every question finds.
THEOREM HealthIsTruthful == Spec => []HealthTruthful
<1>1. IInv => HealthTruthful
  <2> SUFFICES ASSUME IInv, at[Main] = "up", NEW t \in Threads
               PROVE  /\ outcome[t] = "empty" => stats = 0
                      /\ outcome[t] = "answered" => stats > 0
    BY DEF HealthTruthful
  <2>1. settings.serves
    BY DEF IInv, Off
  <2>2. /\ stats = chunks /\ chunks \in 0..MaxRows
        /\ outcome[t] = "empty" => chunks = 0
        /\ outcome[t] = "answered" => chunks # 0
    BY <2>1 DEF IInv, On, Served, Rows
  <2> QED
    BY <2>2, ProcessAssumption
<1> QED
  BY <1>1, InvHolds, PTL

\* An evaluation that exits with 0 had nothing to hide.
THEOREM ExitAlwaysTells == Spec => []ExitTellsErrors
<1>1. IInv => ExitTellsErrors
  <2>1. CASE settings.serves
    BY <2>1, ProcessAssumption DEF IInv, On, ExitTellsErrors
  <2>2. CASE ~settings.serves
    BY <2>2 DEF IInv, Off, ExitTellsErrors
  <2> QED
    BY <2>1, <2>2
<1> QED
  BY <1>1, InvHolds, PTL

-----------------------------------------------------------------------------
(* What Settles rests on besides fairness: the work of every thread runs out. *)

\* The steps a lifespan has left at most, by its place.
BootLeft(place) ==
    CASE place = "validate" -> 11 [] place = "build"   -> 10 [] place = "index"     -> 9
      [] place = "vectors"  -> 8  [] place = "chunks"  -> 7  [] place = "verify"    -> 6
      [] place = "model"    -> 5  [] place = "session" -> 4  [] place = "tokenizer" -> 3
      [] place = "encode"   -> 2  [] place = "stats"   -> 1  [] OTHER -> 0

\* The steps a question has left at most.
QuestionLeft(place) ==
    CASE place = "model"  -> 9 [] place = "session" -> 8 [] place = "tokenizer" -> 7
      [] place = "encode" -> 6 [] place = "index"   -> 5 [] place = "vectors"   -> 4
      [] place = "chunks" -> 3 [] place = "search"  -> 2 [] place = "answer"    -> 1
      [] OTHER -> 0

\* A case is its question and the step that asks it; between two cases, and
\* before the summary, all of those that are left are still to be asked.
EvalLeft ==
    LET ahead == 10 * (Cases - Len(results))
    IN CASE at[Main] = "build" -> ahead + 2
         [] at[Main] = "idle"  -> ahead + 1
         [] at[Main] \in {"down", "over"} -> 0
         [] OTHER -> ahead - 9 + QuestionLeft(at[Main])

WorkLeft(a) ==
    IF a # Main THEN QuestionLeft(at[a])
    ELSE IF settings.serves THEN BootLeft(at[Main]) ELSE EvalLeft

\* Every step of a boot, of a question and of an evaluation brings it nearer to
\* its end, and takes no other thread away from its own.
Nearer ==
    /\ \A a \in Actors : Question(a) =>
          /\ WorkLeft(a)' < WorkLeft(a)
          /\ \A b \in Actors \ {a} : WorkLeft(b)' = WorkLeft(b)
    /\ Boot \/ Summarise \/ Ask(Main) =>
          /\ WorkLeft(Main)' < WorkLeft(Main)
          /\ \A t \in Threads : WorkLeft(t)' = WorkLeft(t)

LEMMA EvalBounded ==
    ASSUME IInv, ~settings.serves
    PROVE  /\ EvalLeft \in 0..(10 * Cases + 2)
           /\ Len(results) \in Nat
           /\ at[Main] \in Places \ {"idle"} => Len(results) < Cases
<1>1. /\ Len(results) \in Nat /\ Len(results) <= Cases /\ Cases \in Nat
      /\ at[Main] \in Places \ {"idle"} => Len(results) < Cases
      /\ at[Main] \in Places \cup {"build", "down", "over"}
  BY ProcessAssumption DEF IInv, Off, Typed, MainPlaces, Actors
<1>2. QuestionLeft(at[Main]) \in 0..9
  BY DEF QuestionLeft
<1>3. CASE at[Main] \in Places \ {"idle"}
  <2>1. EvalLeft = 10 * (Cases - Len(results)) - 9 + QuestionLeft(at[Main])
    BY <1>3 DEF EvalLeft, Places
  <2> QED
    BY <1>1, <1>2, <1>3, <2>1
<1>4. CASE at[Main] \in {"idle", "build", "down", "over"}
  BY <1>1, <1>4 DEF EvalLeft, Places
<1> QED
  BY <1>1, <1>3, <1>4

\* Where a question goes, and that a case of an evaluation ends with a result.
LEMMA QuestionMoves ==
    ASSUME Typed, NEW a \in Actors, ~Booting(a), Question(a)
    PROVE  /\ \E place \in Places : /\ Go(a, place)
                                    /\ QuestionLeft(place) < QuestionLeft(at[a])
                                    /\ results' = results \/ (place = "idle" /\ a = Main)
           /\ at[a] \in Places \ {"idle"}
           /\ at'[a] = "idle" /\ a = Main => Len(results') = Len(results) + 1
<1>1. ASSUME NEW what, Ends(a, what)
      PROVE  /\ Go(a, "idle") /\ at'[a] = "idle"
             /\ a # Main => results' = results
             /\ a = Main => Len(results') = Len(results) + 1
  BY <1>1 DEF Ends, Record, Go, Typed
<1>2. ASSUME NEW place, Go(a, place)
      PROVE  at'[a] = place
  BY <1>2 DEF Go, Typed
<1> USE DEF Places, QuestionLeft, observed
<1>3. CASE UseIndex(a) \/ LoadVectors(a) \/ LoadChunks(a)
  BY <1>1, <1>2, <1>3 DEF UseIndex, LoadVectors, LoadChunks, Reads, Raises
<1>4. CASE UseModel(a) \/ LoadSession(a) \/ LoadTokenizer(a)
  BY <1>1, <1>2, <1>4 DEF UseModel, LoadSession, LoadTokenizer, Raises
<1>5. CASE Encode(a) \/ EncodeRaises(a)
  BY <1>1, <1>2, <1>5 DEF Encode, EncodeRaises, Raises
<1>6. CASE Search(a) \/ Answer(a)
  BY <1>1, <1>2, <1>6 DEF Search, Answer
<1> QED
  BY <1>3, <1>4, <1>5, <1>6 DEF Question

LEMMA LifespanMoves ==
    ASSUME Typed, settings.serves, at[Main] \in Lifespan, Boot \/ Question(Main)
    PROVE  \E place : Go(Main, place) /\ BootLeft(place) < BootLeft(at[Main])
<1> USE DEF BootLeft, Lifespan, Booting
<1>1. CASE Boot
  BY <1>1 DEF Boot, Validate, Build, Verify, Stats
<1>2. CASE UseIndex(Main) \/ LoadVectors(Main) \/ LoadChunks(Main)
  BY <1>2 DEF UseIndex, LoadVectors, LoadChunks, Reads, Raises
<1>3. CASE UseModel(Main) \/ LoadSession(Main) \/ LoadTokenizer(Main)
  BY <1>3 DEF UseModel, LoadSession, LoadTokenizer, Raises
<1>4. CASE Encode(Main) \/ EncodeRaises(Main)
  BY <1>4 DEF Encode, EncodeRaises, Raises
<1>5. ~(Search(Main) \/ Answer(Main))
  BY DEF Search, Answer
<1> QED
  BY <1>1, <1>2, <1>3, <1>4, <1>5 DEF Question

LEMMA SettingsStay == Next => settings' = settings
BY DEF Next, Boot, Validate, Build, Verify, Stats, Summarise, Ask, Question, UseIndex,
       LoadVectors, LoadChunks, UseModel, LoadSession, LoadTokenizer, Encode, EncodeRaises,
       Search, Answer, given

LEMMA QuestionNearer ==
    ASSUME IInv, NEW a \in Actors, Question(a)
    PROVE  /\ WorkLeft(a)' < WorkLeft(a)
           /\ \A b \in Actors \ {a} : WorkLeft(b)' = WorkLeft(b)
<1>1. settings' = settings /\ Typed
  BY SettingsStay DEF Next, IInv
<1>2. CASE Booting(a)
  <2>1. a = Main /\ settings.serves /\ at[Main] \in Lifespan
    BY <1>2 DEF Booting, IInv, On
  <2>2. PICK place : Go(Main, place) /\ BootLeft(place) < BootLeft(at[Main])
    BY <1>1, <2>1, LifespanMoves
  <2>3. at'[Main] = place /\ \A t \in Threads : at'[t] = at[t]
    BY <1>1, <2>2, MainAt
  <2> QED
    BY <1>1, <2>1, <2>2, <2>3 DEF WorkLeft, Actors
<1>3. CASE ~Booting(a)
  <2>1. PICK place \in Places : /\ Go(a, place)
                                /\ QuestionLeft(place) < QuestionLeft(at[a])
                                /\ results' = results \/ (place = "idle" /\ a = Main)
    BY <1>1, <1>3, QuestionMoves
  <2>2. at'[a] = place /\ \A b \in Actors \ {a} : at'[b] = at[b]
    BY <1>1, <2>1 DEF Go, Typed
  <2>3. CASE a # Main
    <3>1. results' = results
      BY <2>1, <2>3
    <3>2. \A b \in Actors \ {a} : WorkLeft(b)' = WorkLeft(b)
      BY <1>1, <2>2, <3>1 DEF WorkLeft, EvalLeft, Actors
    <3> QED
      BY <2>1, <2>2, <2>3, <3>2 DEF WorkLeft
  <2>4. CASE a = Main
    <3>1. ~settings.serves
      BY <1>3, <2>4 DEF Booting
    <3>2. /\ Len(results) \in Nat /\ Cases \in Nat /\ at[Main] \in Places \ {"idle"}
          /\ place = "idle" => Len(results') = Len(results) + 1
      BY <1>1, <1>3, <2>2, <2>4, <3>1, EvalBounded, QuestionMoves, ProcessAssumption
    <3>3. QuestionLeft(place) \in Nat /\ QuestionLeft(at[Main]) \in Nat
      BY DEF QuestionLeft
    <3>4. EvalLeft = 10 * (Cases - Len(results)) - 9 + QuestionLeft(at[Main])
      BY <3>2 DEF EvalLeft, Places
    <3>5. EvalLeft' < EvalLeft
      <4>1. CASE place = "idle"
        <5>1. EvalLeft' = 10 * (Cases - Len(results')) + 1
          BY <2>2, <2>4, <4>1 DEF EvalLeft
        <5> QED
          BY <2>1, <2>4, <3>2, <3>3, <3>4, <4>1, <5>1 DEF QuestionLeft
      <4>2. CASE place # "idle"
        <5>1. EvalLeft' = 10 * (Cases - Len(results)) - 9 + QuestionLeft(place)
          BY <2>1, <2>2, <2>4, <4>2 DEF EvalLeft, Places
        <5> QED
          BY <2>1, <2>4, <3>2, <3>3, <3>4, <5>1
      <4> QED
        BY <4>1, <4>2
    <3>6. \A b \in Actors \ {a} : WorkLeft(b)' = WorkLeft(b)
      BY <2>2, <2>4 DEF WorkLeft
    <3> QED
      BY <1>1, <2>4, <3>1, <3>5, <3>6 DEF WorkLeft
  <2> QED
    BY <2>3, <2>4
<1> QED
  BY <1>2, <1>3

LEMMA MainNearer ==
    ASSUME IInv, Boot \/ Summarise \/ Ask(Main)
    PROVE  /\ WorkLeft(Main)' < WorkLeft(Main)
           /\ \A t \in Threads : WorkLeft(t)' = WorkLeft(t)
<1>1. settings' = settings /\ Typed
  BY SettingsStay DEF Next, IInv, Actors
<1>2. CASE settings.serves
  <2>1. at[Main] \in Lifespan
    BY <1>2 DEF IInv, On
  <2>2. Boot
    BY <2>1 DEF Lifespan, Summarise, Ask
  <2>3. PICK place : Go(Main, place) /\ BootLeft(place) < BootLeft(at[Main])
    BY <1>1, <1>2, <2>1, <2>2, LifespanMoves
  <2>4. at'[Main] = place /\ \A t \in Threads : at'[t] = at[t]
    BY <1>1, <2>3, MainAt
  <2> QED
    BY <1>1, <1>2, <2>3, <2>4, ProcessAssumption DEF WorkLeft
<1>3. CASE ~settings.serves
  <2>1. Len(results) \in Nat /\ Len(results) <= Cases /\ Cases \in Nat
    BY <1>3, EvalBounded, ProcessAssumption DEF IInv, Off
  <2>2. /\ at[Main] \notin {"validate", "verify", "stats"} /\ results' = results
        /\ \/ at[Main] = "build" /\ (Go(Main, "down") \/ Go(Main, "idle"))
           \/ at[Main] = "idle" /\ Go(Main, "over")
           \/ at[Main] = "idle" /\ Go(Main, "model") /\ Len(results) < Cases
    BY <1>3 DEF IInv, Off, Boot, Validate, Build, Verify, Stats, Summarise, Ask, observed
  <2>3. \A place : Go(Main, place) => at'[Main] = place /\ \A t \in Threads : at'[t] = at[t]
    BY <1>1, MainAt
  <2>4. EvalLeft' < EvalLeft
    BY <2>1, <2>2, <2>3 DEF EvalLeft, QuestionLeft
  <2>5. \A t \in Threads : WorkLeft(t)' = WorkLeft(t)
    BY <2>2, <2>3, ProcessAssumption DEF WorkLeft
  <2> QED
    BY <1>1, <1>3, <2>4, <2>5 DEF WorkLeft
<1> QED
  BY <1>2, <1>3

\* A boot takes at most eleven steps and a question at most nine, an evaluation
\* at most ten for each case: no loop of the process goes round for ever, as
\* long as its threads go on.
THEOREM AlwaysNearer == Spec => [][Nearer]_vars
<1>1. IInv => Nearer
  BY QuestionNearer, MainNearer DEF Nearer
<1> QED
  BY <1>1, InvHolds, PTL DEF Spec

=============================================================================
