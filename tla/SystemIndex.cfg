CONSTANTS
    plotter = plotter  static = static  first = first  second = second
    Runs = {first, second}
    Apps = {plotter, static}
    Backends = {plotter}
SPECIFICATION AnsweredSpec
INVARIANTS TypeOK CheckingIsProbed
PROPERTIES LateAnswersIgnored VisibleRefresh Converges
