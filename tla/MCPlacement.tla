---------------------------- MODULE MCPlacement ----------------------------
(***************************************************************************)
(* Small systems on chip and configurations for Placement: profiles with   *)
(* and without fields of the user, exact, wildcard and catch-all packages, *)
(* thread types, a cluster the chip has not, ranges out of order and out   *)
(* of bounds, scheduling classes without CPUs, a class that is unknown.    *)
(***************************************************************************)
EXTENDS Placement

MCPackages == {<<"com", "a">>, <<"com", "x", "b">>}
MCThreadNames == {<<"RenderThread">>, <<"Audio", "Out">>, <<"main">>}
MCAndroidGroups == {{0, 1}, {0, 1, 2, 3}}

Soc(capacity, up) ==
    [present |-> 0..3, online |-> up, capacity |-> capacity,
     cpuset |-> TRUE, privileged |-> TRUE, uclamp |-> TRUE]

MCSocs ==
    {[Soc(<<>>, 0..3) EXCEPT !.cpuset = FALSE, !.privileged = FALSE],
     [Soc(0 :> 200 @@ 1 :> 200 @@ 2 :> 500 @@ 3 :> 900, 0..3) EXCEPT !.uclamp = FALSE],
     [Soc(0 :> 200 @@ 1 :> 300 @@ 2 :> 500 @@ 3 :> 900, 0..3) EXCEPT !.privileged = FALSE],
     Soc(0 :> 400 @@ 1 :> 400 @@ 2 :> 400 @@ 3 :> 600, {0, 1, 3})}

OnCpus(a, b) == [DefaultModel EXCEPT !.cpus = {<<<<a, b>>>>}]

App(pkg, profile, default) ==
    [pkg |-> pkg, profile |-> profile, default |-> default, threads |-> <<>>, types |-> <<>>]

Apps ==
    LET render == <<"RenderThread">>
    IN {[App(<<"com", "a">>, "game", DefaultModel) EXCEPT
            !.threads = render :> [OnCpus(2, 2) EXCEPT !.sched = Realtime("fifo", 60)]],
        [App(<<"com", "a">>, "none", [OnCpus(1, 0) EXCEPT !.uclampMin = {900}]) EXCEPT
            !.types = "render" :> [DefaultModel EXCEPT !.uclampMin = {700}, !.nice = {-10}]
                      @@ "main" :> [InCluster("mid") EXCEPT !.uclampMax = {512}]],
        [App(<<"com", "x", "b">>, "none", DefaultModel) EXCEPT
            !.threads = <<"main">> :> [DefaultModel EXCEPT !.sched = Realtime("batch", NotANumber),
                                                           !.nice = {5}]
                        @@ <<"*", "Out">> :> [DefaultModel EXCEPT !.sched = Realtime("odd", 1)]],
        App(<<"com", "x", "b">>, "none", OnCpus(8, 9)),
        App(<<"com", "x", "b">>, "none", DefaultModel),
        App(<<"com", "x", "*">>, "launcher", DefaultModel),
        App(<<"com", "*", "?", "b">>, "video", DefaultModel),
        [App(<<"com", "*">>, "none", [DefaultModel EXCEPT !.uclampMax = {800}]) EXCEPT
            !.threads = <<"*", "Out">> :> OnCpus(0, 1) @@ <<"Audio", "?">> :> OnCpus(3, 3)],
        App(<<"com", "?">>, "none",
            [InCluster("little") EXCEPT !.sched = Realtime("rr", NotANumber), !.nice = {-30}]),
        App(<<"*">>, "power-save", [DefaultModel EXCEPT
            !.cluster = {[kind |-> "numeric", range |-> <<<<0, 0>>, <<2, NotANumber>>>>]}]),
        App(<<"com", "a", "b", "c", "d">>, "none", OnCpus(0, 3))}

MCConfigs ==
    {c \in SUBSET Apps : /\ Cardinality(c) \in 1..2
                         /\ \A a, b \in c : a.pkg = b.pkg => a = b}

=============================================================================
