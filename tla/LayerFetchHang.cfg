SPECIFICATION LayerSpec
CONSTANTS
  model1 = model1
  model2 = model2
  signed = signed
  shared = shared
  own = own
  store = store
  temp = temp
  Pulls = {model1, model2}
  Layers = {shared, own}
  Layouts = {store, temp}
  LayersOf <- MCLayersOf
  LayoutOf <- MCLayoutOf
  Size <- MCSize
  MaxParallel = 2
  MaxCrashes = 0
PROPERTIES
  PullsReturn
CHECK_DEADLOCK FALSE
